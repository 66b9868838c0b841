-------------------------- MODULE ShopScreens_proofs -------------------------
(* Theorems about two screens of the Vue application that show products,   *)
(* for every value of the constants and whatever order the calls are       *)
(* answered in: the cash screen (CashScreen) and the store of products     *)
(* (ProductStore).                                                         *)
EXTENDS CashScreen, ProductStore, SequenceTheorems, FiniteSetTheorems, TLAPS

-----------------------------------------------------------------------------
(* Sums.  Induction is had from the well-foundedness of < on Nat: a set of *)
(* numbers that is not empty has a least one.                              *)

Less == OpToRel(<, Nat)

LEMMA LeastNumber ==
  ASSUME NEW T \in SUBSET Nat, T # {}
  PROVE  \E n \in T : \A m \in T : n <= m
<1>1. \E n \in T : \A m \in T : ~ (<<m, n>> \in Less)
  BY NatLessThanWellFounded, WFMin, Zenon DEF Less
<1>2. PICK n \in T : \A m \in T : ~ (<<m, n>> \in Less)
  BY <1>1
<1>3. ASSUME NEW m \in T PROVE n <= m
  <2>1. <<m, n>> \in Less <=> m < n
    BY DEF Less, OpToRel
  <2> QED BY <1>2, <2>1
<1> QED BY <1>3

LEMMA Induction ==
  ASSUME NEW T \in SUBSET Nat, 0 \in T, \A n \in T : n + 1 \in T
  PROVE  T = Nat
<1>1. SUFFICES ASSUME Nat \ T # {} PROVE FALSE
  OBVIOUS
<1>2. PICK n \in Nat \ T : \A m \in Nat \ T : n <= m
  BY <1>1, LeastNumber
<1>3. n # 0 /\ n - 1 \in Nat
  BY <1>2
<1>4. n - 1 \in T
  BY <1>2, <1>3
<1>5. n - 1 + 1 = n
  BY <1>2
<1> QED BY <1>2, <1>4, <1>5

\* v is what the first n of f add up to, as some running sum g says.
AddsUp(f, n, v) ==
  \E g : /\ g[0] = 0
         /\ \A k \in 1..n : g[k] = g[k - 1] + f[k]
         /\ v = g[n]

LEMMA AddsUpOnce ==
  ASSUME NEW f, NEW n \in Nat
  PROVE  \E v : AddsUp(f, n, v) /\ \A w : AddsUp(f, n, w) => w = v
<1> DEFINE Once(m) == \E v : AddsUp(f, m, v) /\ \A w : AddsUp(f, m, w) => w = v
           T == {m \in Nat : Once(m)}
<1>1. Once(0)
  <2>1. AddsUp(f, 0, 0)
    <3> DEFINE g == [k \in {0} |-> 0]
    <3>1. g[0] = 0 /\ \A k \in 1..0 : g[k] = g[k - 1] + f[k]
      OBVIOUS
    <3> QED BY <3>1 DEF AddsUp
  <2>2. \A w : AddsUp(f, 0, w) => w = 0
    BY DEF AddsUp
  <2> QED BY <2>1, <2>2
<1>2. ASSUME NEW m \in Nat, Once(m) PROVE Once(m + 1)
  <2>1. PICK v : AddsUp(f, m, v) /\ \A w : AddsUp(f, m, w) => w = v
    BY <1>2
  <2>2. PICK g : g[0] = 0 /\ (\A k \in 1..m : g[k] = g[k - 1] + f[k]) /\ v = g[m]
    BY <2>1 DEF AddsUp
  <2>3. AddsUp(f, m + 1, v + f[m + 1])
    <3> DEFINE h == [k \in 0..(m + 1) |-> IF k = m + 1 THEN v + f[m + 1] ELSE g[k]]
    <3>1. h[0] = 0 /\ h[m + 1] = v + f[m + 1]
      BY <2>2
    <3>2. ASSUME NEW k \in 1..(m + 1) PROVE h[k] = h[k - 1] + f[k]
      <4>1. CASE k = m + 1
        <5>1. k - 1 = m /\ m \in 0..(m + 1) /\ m # m + 1
          BY <4>1
        <5> QED BY <4>1, <5>1, <2>2
      <4>2. CASE k # m + 1
        <5>1. k \in 1..m /\ k - 1 \in 0..(m + 1) /\ k - 1 # m + 1 /\ k \in 0..(m + 1)
          BY <4>2
        <5> QED BY <4>2, <5>1, <2>2
      <4> QED BY <4>1, <4>2
    <3> HIDE DEF h
    <3> QED BY <3>1, <3>2 DEF AddsUp
  <2>4. ASSUME NEW w, AddsUp(f, m + 1, w) PROVE w = v + f[m + 1]
    <3>1. PICK h : h[0] = 0 /\ (\A k \in 1..(m + 1) : h[k] = h[k - 1] + f[k]) /\ w = h[m + 1]
      BY <2>4 DEF AddsUp
    <3>2. AddsUp(f, m, h[m])
      BY <3>1 DEF AddsUp
    <3>3. h[m] = v
      BY <2>1, <3>2
    <3>4. m + 1 \in 1..(m + 1) /\ m + 1 - 1 = m
      OBVIOUS
    <3> QED BY <3>1, <3>3, <3>4
  <2> QED BY <2>3, <2>4
<1> HIDE DEF Once
<1>3. T = Nat
  <2>1. T \in SUBSET Nat /\ 0 \in T /\ \A m \in T : m + 1 \in T
    BY <1>1, <1>2
  <2> HIDE DEF T
  <2> QED BY <2>1, Induction
<1>4. Once(n)
  BY <1>3
<1> QED BY <1>4 DEF Once

(* The equation that defines the running sum has a solution.               *)
LEMMA SumExists ==
  ASSUME NEW f
  PROVE  \E sum : sum = [k \in Nat |-> IF k = 0 THEN 0 ELSE sum[k - 1] + f[k]]
<1> DEFINE sum == [n \in Nat |-> CHOOSE v : AddsUp(f, n, v)]
<1>1. ASSUME NEW n \in Nat
      PROVE  AddsUp(f, n, sum[n]) /\ \A w : AddsUp(f, n, w) => w = sum[n]
  <2>1. PICK v : AddsUp(f, n, v) /\ \A w : AddsUp(f, n, w) => w = v
    BY AddsUpOnce
  <2>2. sum[n] = CHOOSE w : AddsUp(f, n, w)
    OBVIOUS
  <2>3. AddsUp(f, n, sum[n])
    BY <2>1, <2>2
  <2>4. sum[n] = v
    BY <2>1, <2>3
  <2> QED BY <2>1, <2>4
<1>2. sum = [k \in Nat |-> sum[k]]
  OBVIOUS
<1> HIDE DEF sum
<1>3. sum[0] = 0
  BY <1>1 DEF AddsUp
<1>4. ASSUME NEW n \in Nat \ {0} PROVE sum[n] = sum[n - 1] + f[n]
  <2>1. n - 1 \in Nat
    OBVIOUS
  <2>2. PICK g : g[0] = 0 /\ (\A k \in 1..n : g[k] = g[k - 1] + f[k]) /\ sum[n] = g[n]
    BY <1>1 DEF AddsUp
  <2>3. AddsUp(f, n - 1, g[n - 1])
    BY <2>2 DEF AddsUp
  <2>4. g[n - 1] = sum[n - 1]
    BY <2>1, <2>3, <1>1
  <2> QED BY <2>2, <2>4
<1>5. sum = [k \in Nat |-> IF k = 0 THEN 0 ELSE sum[k - 1] + f[k]]
  <2>1. \A k \in Nat : sum[k] = IF k = 0 THEN 0 ELSE sum[k - 1] + f[k]
    BY <1>3, <1>4
  <2> QED BY <1>2, <2>1
<1> QED BY <1>5

LEMMA SumEquations ==
  ASSUME NEW f
  PROVE  /\ SumTo(f, 0) = 0
         /\ \A n \in Nat : SumTo(f, n + 1) = SumTo(f, n) + f[n + 1]
<1> DEFINE s == CHOOSE sum : sum = [k \in Nat |-> IF k = 0 THEN 0 ELSE sum[k - 1] + f[k]]
<1>1. s = [k \in Nat |-> IF k = 0 THEN 0 ELSE s[k - 1] + f[k]]
  BY SumExists
<1>2. ASSUME NEW n PROVE SumTo(f, n) = s[n]
  BY DEF SumTo
<1> HIDE DEF s
<1>3. s[0] = 0
  BY <1>1
<1>4. ASSUME NEW n \in Nat PROVE s[n + 1] = s[n] + f[n + 1]
  <2>1. n + 1 \in Nat /\ n + 1 # 0 /\ n + 1 - 1 = n
    OBVIOUS
  <2> QED BY <1>1, <2>1
<1> QED BY <1>2, <1>3, <1>4

(* Sums of the same numbers are the same.                                  *)
LEMMA SumAgrees ==
  ASSUME NEW f, NEW g, NEW n \in Nat, \A k \in 1..n : f[k] = g[k]
  PROVE  SumTo(f, n) = SumTo(g, n)
<1> DEFINE Same(m) == m <= n => SumTo(f, m) = SumTo(g, m)
           T == {m \in Nat : Same(m)}
<1>1. Same(0)
  BY SumEquations
<1>2. ASSUME NEW m \in Nat, Same(m) PROVE Same(m + 1)
  <2>1. SUFFICES ASSUME m + 1 <= n PROVE SumTo(f, m + 1) = SumTo(g, m + 1)
    OBVIOUS
  <2>2. m <= n /\ m + 1 \in 1..n
    BY <2>1
  <2>3. f[m + 1] = g[m + 1] /\ SumTo(f, m) = SumTo(g, m)
    BY <2>2, <1>2
  <2> QED BY <2>3, SumEquations
<1> HIDE DEF Same
<1>3. T = Nat
  <2>1. T \in SUBSET Nat /\ 0 \in T /\ \A m \in T : m + 1 \in T
    BY <1>1, <1>2
  <2> HIDE DEF T
  <2> QED BY <2>1, Induction
<1> QED BY <1>3 DEF Same

(* A sum of natural numbers is one, and the longer the greater.            *)
LEMMA SumGrows ==
  ASSUME NEW f, NEW n \in Nat, \A k \in 1..n : f[k] \in Nat
  PROVE  \A m \in 0..n : SumTo(f, m) \in Nat /\ SumTo(f, m) <= SumTo(f, n)
<1> DEFINE Fine(m) == m <= n => /\ SumTo(f, m) \in Nat
                                /\ \A i \in 0..m : SumTo(f, i) \in Nat
                                                   /\ SumTo(f, i) <= SumTo(f, m)
           T == {m \in Nat : Fine(m)}
<1>1. Fine(0)
  BY SumEquations
<1>2. ASSUME NEW m \in Nat, Fine(m) PROVE Fine(m + 1)
  <2>1. SUFFICES ASSUME m + 1 <= n
                 PROVE  /\ SumTo(f, m + 1) \in Nat
                        /\ \A i \in 0..(m + 1) : SumTo(f, i) \in Nat
                                                 /\ SumTo(f, i) <= SumTo(f, m + 1)
    OBVIOUS
  <2>2. m <= n /\ m + 1 \in 1..n
    BY <2>1
  <2>3. f[m + 1] \in Nat /\ SumTo(f, m) \in Nat
    BY <2>2, <1>2
  <2>4. SumTo(f, m + 1) \in Nat /\ SumTo(f, m) <= SumTo(f, m + 1)
    BY <2>3, SumEquations
  <2>5. ASSUME NEW i \in 0..(m + 1)
        PROVE  SumTo(f, i) \in Nat /\ SumTo(f, i) <= SumTo(f, m + 1)
    <3>1. CASE i = m + 1
      BY <3>1, <2>4
    <3>2. CASE i # m + 1
      <4>1. i \in 0..m
        BY <3>2
      <4>2. SumTo(f, i) \in Nat /\ SumTo(f, i) <= SumTo(f, m)
        BY <4>1, <2>2, <1>2
      <4> QED BY <4>2, <2>3, <2>4
    <3> QED BY <3>1, <3>2
  <2> QED BY <2>4, <2>5
<1> HIDE DEF Fine
<1>3. T = Nat
  <2>1. T \in SUBSET Nat /\ 0 \in T /\ \A m \in T : m + 1 \in T
    BY <1>1, <1>2
  <2> HIDE DEF T
  <2> QED BY <2>1, Induction
<1> QED BY <1>3 DEF Fine
-----------------------------------------------------------------------------
(* Types.                                                                  *)

\* Amounts of some products, and baskets with some products.
Amounts == UNION {[D -> Nat] : D \in SUBSET Products}

Item == [quantity : Nat \ {0}, dispo : Nat, shared : BOOLEAN, told : Nat]

Baskets == UNION {[D -> Item] : D \in SUBSET Products}

Order == [till : Tills, items : Amounts]

Record == [id : Nat, items : Amounts, asSent : BOOLEAN]

SaleCall == [stage : {"none", "sent", "done", "refused"}, items : Amounts,
             told : Amounts, id : Nat, newStock : Amounts]

LoadCall == [stage : {"none", "sent", "done"}, append : BOOLEAN,
             wanted : SUBSET Products, rows : Amounts, crossed : BOOLEAN]

TypeOK ==
  /\ stock \in [Products -> Nat]
  /\ orders \in Seq(Order)
  /\ products \in [Tills -> Amounts]
  /\ images \in [Tills -> Amounts]
  /\ imageActive \in [Tills -> BOOLEAN]
  /\ orderItems \in [Tills -> Baskets]
  /\ savingOrder \in [Tills -> BOOLEAN]
  /\ showSuccessModal \in [Tills -> BOOLEAN]
  /\ ordersLocal \in [Tills -> Seq(Record)]
  /\ sale \in [Tills -> SaleCall]
  /\ load \in [Tills -> LoadCall]
  /\ search \in [Tills -> LoadCall]
  /\ rung \in [Tills -> [Products -> Int]]
  /\ touched \in [Tills -> BOOLEAN]
  /\ adrift \in [Tills -> BOOLEAN]
  /\ behind \in [Tills -> SUBSET Products]

\* An item that has its copy in common with the list is in the list.
SharedListed ==
  \A t \in Tills : \A p \in DOMAIN orderItems[t] :
    orderItems[t][p].shared => p \in DOMAIN products[t]

-----------------------------------------------------------------------------
(* The inductive invariant.                                                *)

\* All that left the stock was sold.
StockLedger ==
  \A p \in Products :
    stock[p] + Sold(orders, Tills, p, Len(orders)) = InitialStock[p]

\* A till waits for one sale at a time, with the window of the former closed.
OneSale ==
  \A t \in Tills :
    /\ savingOrder[t] <=> sale[t].stage # "none"
    /\ savingOrder[t] => ~showSuccessModal[t]

\* No piece is in a basket, or asked for, that the till was not shown.
ItemsTold ==
  \A t \in Tills : \A p \in DOMAIN orderItems[t] :
    orderItems[t][p].quantity <= orderItems[t][p].told

SaleTold ==
  \A t \in Tills :
    /\ DOMAIN sale[t].told = DOMAIN sale[t].items
    /\ \A p \in DOMAIN sale[t].items : sale[t].items[p] <= sale[t].told[p]

\* What is being sold is in the basket while this is not changed.
SentAsShown ==
  \A t \in Tills :
    savingOrder[t] /\ ~touched[t] => Quantities(orderItems[t]) = sale[t].items

\* The answer to a sale tells of its order, and of what it left.
DoneIsOrder ==
  \A t \in Tills : sale[t].stage = "done" =>
    /\ sale[t].id \in DOMAIN orders
    /\ orders[sale[t].id].till = t
    /\ orders[sale[t].id].items = sale[t].items
    /\ DOMAIN sale[t].newStock = DOMAIN sale[t].items
    /\ \A p \in DOMAIN sale[t].items :
         sale[t].newStock[p] + Sold(orders, Tills, p, sale[t].id)
           = InitialStock[p]
    /\ \A k \in DOMAIN ordersLocal[t] : ordersLocal[t][k].id < sale[t].id

\* The records of a till are of its orders, one of each.
RecordsAreOrders ==
  \A t \in Tills : \A k \in DOMAIN ordersLocal[t] :
    /\ ordersLocal[t][k].id \in DOMAIN orders
    /\ orders[ordersLocal[t][k].id].till = t
    /\ ordersLocal[t][k].asSent =>
         ordersLocal[t][k].items = orders[ordersLocal[t][k].id].items
    /\ \A l \in DOMAIN ordersLocal[t] :
         ordersLocal[t][k].id = ordersLocal[t][l].id => k = l

\* An order is in the record of its till, or its answer is on the way or lost.
OrdersRecorded ==
  \A i \in DOMAIN orders :
    \/ \E k \in DOMAIN ordersLocal[orders[i].till] :
         ordersLocal[orders[i].till][k].id = i
    \/ adrift[orders[i].till]
    \/ /\ sale[orders[i].till].stage = "done"
       /\ sale[orders[i].till].id = i

\* A quantity n of p is no more than what the first i sales left.
AtMostLeft(n, p, i) == n + Sold(orders, Tills, p, i) <= InitialStock[p]

\* What a load brings is what the sales in the record left, or less.
LoadsReadOwnSales ==
  \A t \in Tills : load[t].stage = "done" /\ ~load[t].crossed =>
    \A k \in DOMAIN ordersLocal[t] : \A p \in DOMAIN load[t].rows :
      AtMostLeft(load[t].rows[p], p, ordersLocal[t][k].id)

ListsReadOwnSales ==
  \A t \in Tills : \A k \in DOMAIN ordersLocal[t] :
    \A p \in DOMAIN products[t] :
      \/ p \in behind[t]
      \/ p \notin DOMAIN orders[ordersLocal[t][k].id].items
      \/ AtMostLeft(products[t][p], p, ordersLocal[t][k].id)

\* Pieces the cashier has put in the basket were sold or are still there; those
\* of a sale whose answer is on the way are both.
PiecesKept ==
  \A t \in Tills, p \in Products : ~adrift[t] =>
    rung[t][p] + (IF sale[t].stage = "done" THEN Pieces(sale[t].items, p) ELSE 0)
      = SoldBy(t, p)
        + (IF showSuccessModal[t] THEN 0 ELSE Pieces(Quantities(orderItems[t]), p))

SaleInv ==
  /\ StockLedger /\ OneSale /\ ItemsTold /\ SaleTold /\ SentAsShown
  /\ DoneIsOrder /\ RecordsAreOrders /\ OrdersRecorded /\ PiecesKept

ListInv == LoadsReadOwnSales /\ ListsReadOwnSales

-----------------------------------------------------------------------------
(* What was sold.                                                          *)

LEMMA AmountsAre ==
  ASSUME NEW f
  PROVE  f \in Amounts <=> /\ DOMAIN f \in SUBSET Products
                           /\ f \in [DOMAIN f -> Nat]
BY DEF Amounts

LEMMA PiecesType ==
  ASSUME NEW items \in Amounts, NEW p
  PROVE  Pieces(items, p) \in Nat
BY AmountsAre DEF Pieces

LEMMA SoldTerms ==
  ASSUME NEW sales \in Seq(Order), NEW S, NEW p
  PROVE  \A k \in 1..Len(sales) :
           [i \in DOMAIN sales |->
              IF sales[i].till \in S THEN Pieces(sales[i].items, p) ELSE 0][k] \in Nat
<1> TAKE k \in 1..Len(sales)
<1>1. k \in DOMAIN sales /\ sales[k] \in Order
  BY LenProperties, ElementOfSeq
<1>2. sales[k].items \in Amounts
  BY <1>1 DEF Order
<1>3. Pieces(sales[k].items, p) \in Nat
  BY <1>2, PiecesType
<1> QED BY <1>1, <1>3

(* The more sales, the more is sold.                                       *)
LEMMA SoldGrows ==
  ASSUME NEW sales \in Seq(Order), NEW S, NEW p,
         NEW m \in Nat, NEW n \in Nat, m <= n, n <= Len(sales)
  PROVE  /\ Sold(sales, S, p, m) \in Nat
         /\ Sold(sales, S, p, n) \in Nat
         /\ Sold(sales, S, p, m) <= Sold(sales, S, p, n)
<1> DEFINE f == [i \in DOMAIN sales |->
                   IF sales[i].till \in S THEN Pieces(sales[i].items, p) ELSE 0]
<1>1. Len(sales) \in Nat
  BY LenProperties
<1>2. \A k \in 1..Len(sales) : f[k] \in Nat
  BY SoldTerms
<1>3. \A i : Sold(sales, S, p, i) = SumTo(f, i)
  BY DEF Sold
<1> HIDE DEF f
<1>5. \A k \in 1..n : f[k] \in Nat
  BY <1>1, <1>2
<1>4. m \in 0..n /\ n \in 0..n
  OBVIOUS
<1> QED BY <1>3, <1>4, <1>5, SumGrows

LEMMA SoldNone ==
  ASSUME NEW sales, NEW S, NEW p
  PROVE  Sold(sales, S, p, 0) = 0
BY SumEquations DEF Sold

LEMMA SoldAppend ==
  ASSUME NEW sales \in Seq(Order), NEW o \in Order, NEW S, NEW p
  PROVE  /\ \A n \in 0..Len(sales) : Sold(Append(sales, o), S, p, n) = Sold(sales, S, p, n)
         /\ Sold(Append(sales, o), S, p, Len(sales) + 1)
              = Sold(sales, S, p, Len(sales))
                + (IF o.till \in S THEN Pieces(o.items, p) ELSE 0)
<1> DEFINE new == Append(sales, o)
           f == [i \in DOMAIN sales |->
                   IF sales[i].till \in S THEN Pieces(sales[i].items, p) ELSE 0]
           g == [i \in DOMAIN new |->
                   IF new[i].till \in S THEN Pieces(new[i].items, p) ELSE 0]
           L == Len(sales)
<1>1. L \in Nat /\ DOMAIN sales = 1..L
  BY LenProperties
<1>2. /\ DOMAIN new = 1..(L + 1)
      /\ new[L + 1] = o
      /\ \A i \in 1..L : new[i] = sales[i]
  BY AppendProperties, <1>1, LenProperties
<1>3. \A k \in 1..L : f[k] = g[k]
  <2> TAKE k \in 1..L
  <2>1. k \in DOMAIN sales /\ k \in DOMAIN new /\ new[k] = sales[k]
    BY <1>1, <1>2
  <2> QED BY <2>1
<1>4. g[L + 1] = IF o.till \in S THEN Pieces(o.items, p) ELSE 0
  <2>1. L + 1 \in DOMAIN new
    BY <1>1, <1>2
  <2> QED BY <2>1, <1>2
<1>5. \A i : Sold(sales, S, p, i) = SumTo(f, i) /\ Sold(new, S, p, i) = SumTo(g, i)
  BY DEF Sold
<1> HIDE DEF f, g, new
<1>6. ASSUME NEW n \in 0..L PROVE SumTo(g, n) = SumTo(f, n)
  <2>1. n \in Nat /\ \A k \in 1..n : f[k] = g[k]
    BY <1>1, <1>3
  <2> QED BY <2>1, SumAgrees
<1>7. SumTo(g, L + 1) = SumTo(f, L) + (IF o.till \in S THEN Pieces(o.items, p) ELSE 0)
  <2>1. SumTo(g, L + 1) = SumTo(g, L) + g[L + 1]
    BY <1>1, SumEquations
  <2>2. SumTo(g, L) = SumTo(f, L)
    BY <1>1, <1>6
  <2> QED BY <2>1, <2>2, <1>4
<1> QED BY <1>5, <1>6, <1>7 DEF new
-----------------------------------------------------------------------------
(* Types.                                                                  *)

LEMMA BasketsAre ==
  ASSUME NEW b
  PROVE  b \in Baskets <=> /\ DOMAIN b \in SUBSET Products
                           /\ b \in [DOMAIN b -> Item]
BY DEF Baskets

LEMMA NoneType ==
  /\ None \in Amounts /\ None \in Baskets
  /\ DOMAIN None = {}
  /\ NoSale \in SaleCall /\ NoLoad \in LoadCall
<1>1. DOMAIN None = {} /\ None \in [{} -> Nat] /\ None \in [{} -> Item]
  BY DEF None
<1>2. None \in Amounts /\ None \in Baskets
  BY <1>1, AmountsAre, BasketsAre
<1> HIDE DEF None
<1>3. NoSale \in SaleCall
  BY <1>2 DEF NoSale, SaleCall
<1>4. NoLoad \in LoadCall
  BY <1>2 DEF NoLoad, LoadCall
<1> QED BY <1>1, <1>2, <1>3, <1>4

LEMMA QuantitiesType ==
  ASSUME NEW b \in Baskets
  PROVE  /\ Quantities(b) \in Amounts
         /\ DOMAIN Quantities(b) = DOMAIN b
         /\ \A p \in DOMAIN b : Quantities(b)[p] = b[p].quantity
<1>1. \A p \in DOMAIN b : b[p].quantity \in Nat
  BY BasketsAre DEF Item
<1>2. Quantities(b) \in [DOMAIN b -> Nat]
  BY <1>1 DEF Quantities
<1> QED BY <1>2, AmountsAre, BasketsAre DEF Quantities

LEMMA WithoutType ==
  ASSUME NEW b \in Baskets, NEW p
  PROVE  /\ Without(b, p) \in Baskets
         /\ DOMAIN Without(b, p) = DOMAIN b \ {p}
         /\ \A q \in DOMAIN b \ {p} : Without(b, p)[q] = b[q]
<1>1. Without(b, p) \in [DOMAIN b \ {p} -> Item]
  BY BasketsAre DEF Without
<1> QED BY <1>1, BasketsAre DEF Without

LEMMA InitType == Init => TypeOK /\ SharedListed
<1> SUFFICES ASSUME Init PROVE TypeOK /\ SharedListed
  OBVIOUS
<1>1. orders \in Seq(Order) /\ \A t \in Tills : ordersLocal[t] \in Seq(Record)
  BY DEF Init
<1>2. ordersLocal \in [Tills -> Seq(Record)]
  BY <1>1 DEF Init
<1> HIDE DEF None
<1>3. TypeOK
  BY <1>1, <1>2, NoneType, CashScreenAssumption DEF Init, TypeOK
<1>4. SharedListed
  BY NoneType DEF Init, SharedListed
<1> QED BY <1>3, <1>4

LEMMA FetchType ==
  ASSUME TypeOK, SharedListed, NEW t \in Tills, NEW append \in BOOLEAN, NEW wanted \in Found,
         FetchProducts(t, append, wanted)
  PROVE  TypeOK' /\ SharedListed'
<1> DEFINE l == [NoLoad EXCEPT !.stage = "sent", !.append = append, !.wanted = wanted]
<1>1. wanted \in SUBSET Products
  BY CashScreenAssumption
<1>2. l \in LoadCall
  BY <1>1, NoneType DEF LoadCall
<1>3. load' = [load EXCEPT ![t] = l]
  BY DEF FetchProducts
<1> HIDE DEF l
<1>4. load' \in [Tills -> LoadCall]
  BY <1>2, <1>3 DEF TypeOK
<1>5. TypeOK'
  BY <1>4 DEF TypeOK, FetchProducts, screens, flags
<1>6. SharedListed'
  BY DEF SharedListed, FetchProducts, screens
<1> QED BY <1>5, <1>6

LEMMA SelectType ==
  ASSUME TypeOK, SharedListed, NEW t \in Tills, NEW wanted \in Found, SelectImage(t, wanted)
  PROVE  TypeOK' /\ SharedListed'
<1> DEFINE l == [NoLoad EXCEPT !.stage = "sent", !.wanted = wanted]
<1>1. wanted \in SUBSET Products
  BY CashScreenAssumption
<1>2. l \in LoadCall
  BY <1>1, NoneType DEF LoadCall
<1>3. search' = search \/ search' = [search EXCEPT ![t] = l]
  BY DEF SelectImage
<1> HIDE DEF l
<1>4. search' \in [Tills -> LoadCall]
  BY <1>2, <1>3 DEF TypeOK
<1>5. images' \in [Tills -> Amounts] /\ imageActive' \in [Tills -> BOOLEAN]
  BY NoneType DEF TypeOK, SelectImage
<1>6. TypeOK'
  BY <1>4, <1>5 DEF TypeOK, SelectImage, flags
<1>7. SharedListed'
  BY DEF SharedListed, SelectImage
<1> QED BY <1>6, <1>7

LEMMA ClearImageType ==
  ASSUME TypeOK, SharedListed, NEW t \in Tills, ClearImageSearch(t)
  PROVE  TypeOK' /\ SharedListed'
<1>1. images' \in [Tills -> Amounts] /\ imageActive' \in [Tills -> BOOLEAN]
  BY NoneType DEF TypeOK, ClearImageSearch
<1>2. TypeOK'
  BY <1>1 DEF TypeOK, ClearImageSearch, flags, calls
<1>3. SharedListed'
  BY DEF SharedListed, ClearImageSearch
<1> QED BY <1>2, <1>3

LEMMA AnsweredType ==
  ASSUME TypeOK, NEW c \in LoadCall
  PROVE  /\ Answered(c) \in LoadCall
         /\ Answered(c).rows = [p \in c.wanted |-> stock[p]]
         /\ Answered(c).crossed = c.crossed
         /\ Answered(c).stage = "done"
<1> DEFINE rows == [p \in c.wanted |-> stock[p]]
<1>1. rows \in [c.wanted -> Nat] /\ DOMAIN rows \in SUBSET Products
  BY DEF TypeOK, LoadCall
<1>2. rows \in Amounts
  BY <1>1, AmountsAre
<1>3. Answered(c) = [c EXCEPT !.stage = "done", !.rows = rows]
  BY DEF Answered
<1> HIDE DEF rows
<1>4. Answered(c) \in LoadCall
  BY <1>2, <1>3 DEF LoadCall
<1>5. Answered(c).rows = rows /\ Answered(c).crossed = c.crossed /\ Answered(c).stage = "done"
  BY <1>3 DEF LoadCall
<1> QED BY <1>4, <1>5 DEF rows

LEMMA ReadType ==
  ASSUME TypeOK, SharedListed, NEW t \in Tills, ReadProducts(t)
  PROVE  TypeOK' /\ SharedListed'
<1>1. Answered(load[t]) \in LoadCall /\ Answered(search[t]) \in LoadCall
  BY AnsweredType DEF TypeOK
<1>2. /\ load' = load \/ load' = [load EXCEPT ![t] = Answered(load[t])]
      /\ search' = search \/ search' = [search EXCEPT ![t] = Answered(search[t])]
  BY DEF ReadProducts, TypeOK
<1>3. load' \in [Tills -> LoadCall]
  BY <1>1, <1>2 DEF TypeOK
<1>6. search' \in [Tills -> LoadCall]
  BY <1>1, <1>2 DEF TypeOK
<1>4. TypeOK'
  BY <1>3, <1>6 DEF TypeOK, ReadProducts, screens, flags
<1>5. SharedListed'
  BY DEF SharedListed, ReadProducts, screens
<1> QED BY <1>4, <1>5

\* What a load leaves in the list and in the basket.
Brings(t, kept, newList, basket) ==
  /\ kept = IF load[t].append THEN products[t] ELSE None
  /\ DOMAIN newList = DOMAIN kept \cup DOMAIN load[t].rows
  /\ \A p \in DOMAIN kept : newList[p] = kept[p]
  /\ \A p \in DOMAIN newList \ DOMAIN kept : newList[p] = load[t].rows[p]
  /\ products' = [products EXCEPT ![t] = newList]
  /\ DOMAIN basket = DOMAIN orderItems[t]
  /\ \A p \in DOMAIN basket :
       /\ basket[p].quantity = orderItems[t][p].quantity
       /\ basket[p].told = orderItems[t][p].told
       /\ basket[p].shared => /\ load[t].append
                              /\ orderItems[t][p].shared
  /\ orderItems' = [orderItems EXCEPT ![t] = basket]
  /\ behind' = [behind EXCEPT ![t] = (@ \cap DOMAIN kept) \cup
                  (IF load[t].crossed THEN DOMAIN load[t].rows ELSE {})]
  /\ load' = [load EXCEPT ![t] = NoLoad]

LEMMA ReceiveEffect ==
  ASSUME TypeOK, SharedListed, NEW t \in Tills, ReceiveProducts(t)
  PROVE  /\ load[t].stage = "done"
         /\ \E kept \in Amounts, newList \in Amounts, basket \in Baskets :
              Brings(t, kept, newList, basket)
<1> DEFINE rows == load[t].rows
           kept == IF load[t].append THEN products[t] ELSE None
           newList == [p \in DOMAIN kept \cup DOMAIN rows |->
                         IF p \in DOMAIN kept THEN kept[p] ELSE rows[p]]
           old == orderItems[t]
           unshared == [p \in DOMAIN old |-> [old[p] EXCEPT !.shared = FALSE]]
           basket == IF load[t].append THEN old ELSE unshared
<1>1. rows \in Amounts /\ kept \in Amounts
  BY NoneType DEF TypeOK, LoadCall
<1>2. newList \in Amounts
  <2>1. \A p \in DOMAIN newList : newList[p] \in Nat
    BY <1>1, AmountsAre
  <2>2. DOMAIN newList \in SUBSET Products
    BY <1>1, AmountsAre
  <2>3. newList \in [DOMAIN newList -> Nat]
    BY <2>1
  <2> HIDE DEF newList
  <2> QED BY <2>2, <2>3, AmountsAre
<1>3. old \in Baskets
  BY DEF TypeOK
<1>4. ASSUME NEW p \in DOMAIN old
      PROVE  /\ unshared[p] \in Item
             /\ unshared[p].quantity = old[p].quantity
             /\ unshared[p].told = old[p].told
             /\ unshared[p].shared = FALSE
  <2>1. old[p] \in Item
    BY <1>3, BasketsAre
  <2> QED BY <2>1 DEF Item
<1>5. unshared \in Baskets
  <2>1. DOMAIN unshared = DOMAIN old /\ unshared \in [DOMAIN old -> Item]
    BY <1>4
  <2> QED BY <2>1, <1>3, BasketsAre
<1>6. basket \in Baskets /\ DOMAIN basket = DOMAIN old
  BY <1>3, <1>5
<1>7. ASSUME NEW p \in DOMAIN basket
      PROVE  /\ basket[p].quantity = old[p].quantity
             /\ basket[p].told = old[p].told
             /\ basket[p].shared => /\ load[t].append
                                    /\ old[p].shared
  BY <1>4
<1>8. orderItems' = [orderItems EXCEPT ![t] = basket]
  <2>1. CASE load[t].append
    BY <2>1 DEF ReceiveProducts, TypeOK
  <2>2. CASE ~load[t].append
    BY <2>2 DEF ReceiveProducts, TypeOK
  <2> QED BY <2>1, <2>2
<1>9. /\ load[t].stage = "done"
      /\ products' = [products EXCEPT ![t] = newList]
      /\ behind' = [behind EXCEPT ![t] = (@ \cap DOMAIN kept) \cup
                      (IF load[t].crossed THEN DOMAIN rows ELSE {})]
      /\ load' = [load EXCEPT ![t] = NoLoad]
  BY DEF ReceiveProducts
<1>10. /\ DOMAIN newList = DOMAIN kept \cup DOMAIN rows
       /\ \A p \in DOMAIN kept : newList[p] = kept[p]
       /\ \A p \in DOMAIN newList \ DOMAIN kept : newList[p] = rows[p]
  OBVIOUS
<1>11. /\ kept = IF load[t].append THEN products[t] ELSE None
       /\ rows = load[t].rows /\ old = orderItems[t]
  OBVIOUS
<1> HIDE DEF newList, basket, unshared, kept
<1>12. Brings(t, kept, newList, basket)
  BY <1>6, <1>7, <1>8, <1>9, <1>10, <1>11 DEF Brings
<1> QED BY <1>1, <1>2, <1>6, <1>9, <1>12

LEMMA ReceiveType ==
  ASSUME TypeOK, SharedListed, NEW t \in Tills, ReceiveProducts(t)
  PROVE  TypeOK' /\ SharedListed'
<1>1. PICK kept \in Amounts, newList \in Amounts, basket \in Baskets :
        Brings(t, kept, newList, basket)
  BY ReceiveEffect
<1>8. /\ products' = [products EXCEPT ![t] = newList]
      /\ orderItems' = [orderItems EXCEPT ![t] = basket]
      /\ load' = [load EXCEPT ![t] = NoLoad]
  BY <1>1 DEF Brings
<1>2. products' \in [Tills -> Amounts]
  BY <1>8 DEF TypeOK
<1>3. orderItems' \in [Tills -> Baskets]
  BY <1>8 DEF TypeOK
<1>4. load' \in [Tills -> LoadCall]
  BY <1>8, NoneType DEF TypeOK
<1>5. behind' \in [Tills -> SUBSET Products]
  <2>1. DOMAIN load[t].rows \in SUBSET Products
    BY AmountsAre DEF TypeOK, LoadCall
  <2>2. ((behind[t] \cap DOMAIN kept) \cup
           (IF load[t].crossed THEN DOMAIN load[t].rows ELSE {})) \in SUBSET Products
    BY <2>1 DEF TypeOK
  <2> QED BY <1>1, <2>2 DEF TypeOK, Brings
<1>6. TypeOK'
  BY <1>2, <1>3, <1>4, <1>5 DEF TypeOK, ReceiveProducts, flags, counters
<1>7. SharedListed'
  <2> SUFFICES ASSUME NEW u \in Tills, NEW p \in DOMAIN orderItems'[u],
                      orderItems'[u][p].shared
               PROVE  p \in DOMAIN products'[u]
    BY DEF SharedListed
  <2>1. CASE u # t
    BY <2>1, <1>8 DEF TypeOK, SharedListed
  <2>2. CASE u = t
    <3>1. orderItems'[u] = basket /\ products'[u] = newList
      BY <2>2, <1>8 DEF TypeOK
    <3>2. load[t].append /\ orderItems[t][p].shared /\ p \in DOMAIN orderItems[t]
      BY <3>1, <1>1 DEF Brings
    <3>3. p \in DOMAIN products[t]
      BY <3>2 DEF SharedListed
    <3> QED BY <3>1, <3>2, <3>3, <1>1 DEF Brings
  <2> QED BY <2>1, <2>2
<1> QED BY <1>6, <1>7

LEMMA ReceiveImagesType ==
  ASSUME TypeOK, SharedListed, NEW t \in Tills, ReceiveImages(t)
  PROVE  TypeOK' /\ SharedListed'
<1>1. search[t].rows \in Amounts
  BY DEF TypeOK, LoadCall
<1>2. images' \in [Tills -> Amounts] /\ imageActive' \in [Tills -> BOOLEAN]
  BY <1>1 DEF TypeOK, ReceiveImages
<1>3. search' \in [Tills -> LoadCall]
  BY NoneType DEF TypeOK, ReceiveImages
<1>4. TypeOK'
  BY <1>2, <1>3 DEF TypeOK, ReceiveImages, flags, counters
<1>5. SharedListed'
  BY DEF SharedListed, ReceiveImages
<1> QED BY <1>4, <1>5

LEMMA LoseType ==
  ASSUME TypeOK, SharedListed, NEW t \in Tills, LoseProducts(t)
  PROVE  TypeOK' /\ SharedListed'
<1>1. /\ load' = load \/ load' = [load EXCEPT ![t] = NoLoad]
      /\ search' = search \/ search' = [search EXCEPT ![t] = NoLoad]
      /\ images' = images \/ images' = [images EXCEPT ![t] = None]
      /\ imageActive' = imageActive \/ imageActive' = [imageActive EXCEPT ![t] = FALSE]
  BY DEF LoseProducts
<1>2. load' \in [Tills -> LoadCall]
  BY <1>1, NoneType DEF TypeOK
<1>3. search' \in [Tills -> LoadCall]
  BY <1>1, NoneType DEF TypeOK
<1>4. images' \in [Tills -> Amounts]
  BY <1>1, NoneType DEF TypeOK
<1>5. imageActive' \in [Tills -> BOOLEAN]
  BY <1>1 DEF TypeOK
<1>6. TypeOK'
  BY <1>2, <1>3, <1>4, <1>5 DEF TypeOK, LoseProducts, flags, counters
<1>7. SharedListed'
  BY DEF SharedListed, LoseProducts
<1> QED BY <1>6, <1>7

\* What any change of a basket amounts to.
NewItems(t, b) ==
  /\ orderItems' = [orderItems EXCEPT ![t] = b]
  /\ rung' = [rung EXCEPT ![t] =
       [q \in Products |-> rung[t][q] + Pieces(Quantities(b), q)
                             - Pieces(Quantities(orderItems[t]), q)]]
  /\ \A p \in DOMAIN b : b[p].shared => p \in DOMAIN products[t]
  /\ ItemsTold => \A p \in DOMAIN b : b[p].quantity <= b[p].told

BasketChange(t) ==
  /\ ~showSuccessModal[t]
  /\ \E b \in Baskets : NewItems(t, b)
  /\ touched' = [touched EXCEPT ![t] = @ \/ savingOrder[t]]
  /\ UNCHANGED <<stock, orders, products, images, imageActive, savingOrder,
                 showSuccessModal, ordersLocal, sale, load, search, adrift,
                 behind>>

LEMMA TapChanges ==
  ASSUME TypeOK, SharedListed, NEW t \in Tills, NEW p \in Products,
         NEW more \in Nat, NEW less \in Nat, NEW b \in Baskets, Tap(t, p, more, less),
         orderItems' = [orderItems EXCEPT ![t] = b],
         DOMAIN b \ {p} = DOMAIN orderItems[t] \ {p},
         \A q \in DOMAIN b \ {p} : b[q] = orderItems[t][q],
         Pieces(Quantities(b), p) = Pieces(Quantities(orderItems[t]), p) + more - less,
         p \in DOMAIN b => /\ b[p].shared => p \in DOMAIN products[t]
                           /\ ItemsTold => b[p].quantity <= b[p].told
  PROVE  BasketChange(t)
<1> DEFINE old == orderItems[t]
           gained == [q \in Products |-> rung[t][q] + Pieces(Quantities(b), q)
                                           - Pieces(Quantities(old), q)]
<1>1. old \in Baskets
  BY DEF TypeOK
<1>2. /\ \A q \in Products : Pieces(Quantities(b), q) \in Nat
      /\ \A q \in Products : Pieces(Quantities(old), q) \in Nat
  BY <1>1, QuantitiesType, PiecesType
<1>3. ASSUME NEW q \in Products, q # p
      PROVE  Pieces(Quantities(b), q) = Pieces(Quantities(old), q)
  <2>1. /\ q \in DOMAIN b <=> q \in DOMAIN old
        /\ q \in DOMAIN b => b[q] = old[q]
    BY <1>3
  <2> QED BY <2>1, <1>1, QuantitiesType DEF Pieces
<1>4. rung[t] \in [Products -> Int]
  BY DEF TypeOK
<1>5. [rung[t] EXCEPT ![p] = @ + more - less] = gained
  <2>1. ASSUME NEW q \in Products
        PROVE  [rung[t] EXCEPT ![p] = @ + more - less][q] = gained[q]
    <3>1. rung[t][q] \in Int
      BY <1>4
    <3>2. CASE q = p
      <4>1. [rung[t] EXCEPT ![p] = @ + more - less][p] = rung[t][p] + more - less
        BY <1>4
      <4>2. gained[p] = rung[t][p] + Pieces(Quantities(b), p) - Pieces(Quantities(old), p)
        OBVIOUS
      <4> HIDE DEF gained
      <4> QED BY <4>1, <4>2, <3>1, <3>2, <1>2
    <3>3. CASE q # p
      <4>1. [rung[t] EXCEPT ![p] = @ + more - less][q] = rung[t][q]
        BY <1>4, <3>3
      <4>2. gained[q] = rung[t][q] + Pieces(Quantities(b), q) - Pieces(Quantities(old), q)
        OBVIOUS
      <4> HIDE DEF gained
      <4> QED BY <4>1, <4>2, <3>1, <3>3, <1>2, <1>3
    <3> QED BY <3>2, <3>3
  <2> QED BY <2>1, <1>4
<1>6. rung' = [rung EXCEPT ![t] = gained]
  <2>1. rung' = [rung EXCEPT ![t] = [rung[t] EXCEPT ![p] = @ + more - less]]
    BY DEF Tap, TypeOK
  <2> QED BY <2>1, <1>5
<1>7. ASSUME NEW q \in DOMAIN b
      PROVE  /\ b[q].shared => q \in DOMAIN products[t]
             /\ ItemsTold => b[q].quantity <= b[q].told
  <2>1. CASE q = p
    BY <2>1
  <2>2. CASE q # p
    <3>1. q \in DOMAIN old /\ b[q] = old[q]
      BY <2>2
    <3> QED BY <3>1 DEF SharedListed, ItemsTold
  <2> QED BY <2>1, <2>2
<1>8. NewItems(t, b)
  BY <1>6, <1>7 DEF NewItems
<1> QED BY <1>8 DEF BasketChange, Tap, flags, calls

LEMMA RaisedItem ==
  ASSUME NEW i \in Item, NEW n \in Nat
  PROVE  LET j == [i EXCEPT !.quantity = @ + 1, !.told = n]
         IN  /\ j \in Item
             /\ j.quantity = i.quantity + 1
             /\ j.told = n
             /\ j.shared = i.shared
<1> DEFINE j == [i EXCEPT !.quantity = i.quantity + 1, !.told = n]
<1>1. i.quantity + 1 \in Nat \ {0}
  BY DEF Item
<1>2. j \in Item
  BY <1>1 DEF Item
<1>3. j.quantity = i.quantity + 1 /\ j.told = n /\ j.shared = i.shared
  BY DEF Item
<1> QED BY <1>2, <1>3

LEMMA FreshItem ==
  ASSUME NEW n \in Nat, NEW s \in BOOLEAN
  PROVE  LET j == [quantity |-> 1, dispo |-> n, shared |-> s, told |-> n]
         IN  /\ j \in Item
             /\ j.quantity = 1
             /\ j.told = n
             /\ j.shared = s
BY DEF Item

LEMMA AddChanges ==
  ASSUME TypeOK, SharedListed, NEW t \in Tills, NEW p \in Products, AddToOrder(t, p)
  PROVE  BasketChange(t)
<1> DEFINE old == orderItems[t]
           dispo == Shown(t)[p]
           item == IF p \in DOMAIN old
                   THEN [old[p] EXCEPT !.quantity = @ + 1, !.told = dispo]
                   ELSE [quantity |-> 1, dispo |-> dispo,
                         shared |-> ~imageActive[t], told |-> dispo]
           b == [q \in DOMAIN old \cup {p} |-> IF q # p THEN old[q] ELSE item]
<1>1. /\ p \in DOMAIN Shown(t) /\ Fits(Pieces(Quantities(old), p), dispo)
      /\ orderItems' = [orderItems EXCEPT ![t] = b]
      /\ Tap(t, p, 1, 0)
  BY DEF AddToOrder
<1>2. dispo \in Nat
  <2>1. Shown(t) \in Amounts
    BY DEF Shown, TypeOK
  <2> QED BY <2>1, <1>1, AmountsAre
<1>3. old \in Baskets
  BY DEF TypeOK
<1>4. Pieces(Quantities(old), p) = IF p \in DOMAIN old THEN old[p].quantity ELSE 0
  BY <1>3, QuantitiesType DEF Pieces
<1>5. /\ item \in Item
      /\ item.quantity = Pieces(Quantities(old), p) + 1
      /\ item.told = dispo
      /\ item.shared => p \in DOMAIN products[t]
  <2>1. CASE p \in DOMAIN old
    <3>1. old[p] \in Item
      BY <2>1, <1>3, BasketsAre
    <3>2. old[p].shared => p \in DOMAIN products[t]
      BY <2>1 DEF SharedListed
    <3>3. item = [old[p] EXCEPT !.quantity = @ + 1, !.told = dispo]
      BY <2>1
    <3>4. old[p].quantity \in Nat
      BY <3>1 DEF Item
    <3> HIDE DEF item, dispo
    <3>5. /\ item \in Item
          /\ item.quantity = old[p].quantity + 1
          /\ item.told = dispo
          /\ item.shared = old[p].shared
      BY <3>1, <3>3, <1>2, RaisedItem
    <3> QED BY <3>2, <3>5, <2>1, <1>4
  <2>2. CASE p \notin DOMAIN old
    <3>1. item = [quantity |-> 1, dispo |-> dispo, shared |-> ~imageActive[t],
                  told |-> dispo]
      BY <2>2
    <3>2. ~imageActive[t] => p \in DOMAIN products[t]
      BY <1>1 DEF Shown
    <3>3. imageActive[t] \in BOOLEAN
      BY DEF TypeOK
    <3> HIDE DEF item, dispo
    <3>4. /\ item \in Item
          /\ item.quantity = 1
          /\ item.told = dispo
          /\ item.shared = ~imageActive[t]
      BY <3>1, <3>3, <1>2, FreshItem
    <3>5. Pieces(Quantities(old), p) + 1 = 1
      BY <2>2, <1>4
    <3> QED BY <3>2, <3>4, <3>5
  <2> QED BY <2>1, <2>2
<1>6. Pieces(Quantities(old), p) < dispo /\ Pieces(Quantities(old), p) \in Nat
  BY <1>1, <1>3, QuantitiesType, PiecesType DEF Fits
<1> HIDE DEF item, dispo
<1>7. DOMAIN b = DOMAIN old \cup {p} /\ b[p] = item
  OBVIOUS
<1>8. \A q \in DOMAIN b \ {p} : b[q] = old[q]
  OBVIOUS
<1>9. b \in Baskets
  <2>1. \A q \in DOMAIN b : b[q] \in Item
    BY <1>3, <1>5, <1>7, <1>8, BasketsAre
  <2>2. DOMAIN b \in SUBSET Products
    BY <1>3, <1>7, BasketsAre
  <2>3. b \in [DOMAIN b -> Item]
    BY <2>1
  <2> HIDE DEF b
  <2> QED BY <2>2, <2>3, BasketsAre
<1> HIDE DEF b
<1>10. Pieces(Quantities(b), p) = item.quantity
  BY <1>7, <1>9, QuantitiesType DEF Pieces
<1>11. Pieces(Quantities(b), p) = Pieces(Quantities(old), p) + 1 - 0
  BY <1>5, <1>6, <1>10
<1>12. DOMAIN b \ {p} = DOMAIN orderItems[t] \ {p}
  BY <1>7
<1>13. b[p].quantity <= b[p].told
  BY <1>5, <1>6, <1>7, <1>2
<1>14. b[p].shared => p \in DOMAIN products[t]
  BY <1>5, <1>7
<1> QED BY <1>1, <1>8, <1>9, <1>11, <1>12, <1>13, <1>14, TapChanges

(* A basket with another item in the place of one it had.                  *)
LEMMA ReplacedItem ==
  ASSUME NEW old \in Baskets, NEW p \in DOMAIN old, NEW item \in Item
  PROVE  LET b == [old EXCEPT ![p] = item]
         IN  /\ b \in Baskets
             /\ DOMAIN b = DOMAIN old
             /\ b[p] = item
             /\ \A q \in DOMAIN b \ {p} : b[q] = old[q]
             /\ Pieces(Quantities(b), p) = item.quantity
             /\ Pieces(Quantities(old), p) = old[p].quantity
<1> DEFINE b == [old EXCEPT ![p] = item]
<1>1. DOMAIN old \in SUBSET Products /\ old \in [DOMAIN old -> Item]
  BY BasketsAre
<1>2. b \in [DOMAIN old -> Item] /\ DOMAIN b = DOMAIN old
  BY <1>1
<1>3. b \in Baskets
  BY <1>1, <1>2, BasketsAre
<1>4. b[p] = item /\ \A q \in DOMAIN b \ {p} : b[q] = old[q]
  BY <1>1
<1> HIDE DEF b
<1>5. Pieces(Quantities(b), p) = item.quantity
  BY <1>2, <1>3, <1>4, QuantitiesType DEF Pieces
<1>6. Pieces(Quantities(old), p) = old[p].quantity
  BY QuantitiesType DEF Pieces
<1> QED BY <1>2, <1>3, <1>4, <1>5, <1>6 DEF b

LEMMA IncreaseChanges ==
  ASSUME TypeOK, SharedListed, NEW t \in Tills, NEW p \in Products, IncreaseQuantity(t, p)
  PROVE  BasketChange(t)
<1> DEFINE old == orderItems[t]
           item == [old[p] EXCEPT !.quantity = @ + 1, !.told = old[p].dispo]
           b == [old EXCEPT ![p] = item]
<1>1. /\ p \in DOMAIN old
      /\ old[p].quantity < old[p].dispo
      /\ orderItems' = [orderItems EXCEPT ![t] = b]
      /\ Tap(t, p, 1, 0)
  <2>1. p \in DOMAIN old /\ old[p].quantity < old[p].dispo /\ Tap(t, p, 1, 0)
    BY DEF IncreaseQuantity, Fits
  <2>2. orderItems' = [orderItems EXCEPT ![t][p] = item]
    BY DEF IncreaseQuantity, TypeOK
  <2> HIDE DEF item
  <2>3. [orderItems EXCEPT ![t][p] = item] = [orderItems EXCEPT ![t] = b]
    OBVIOUS
  <2> QED BY <2>1, <2>2, <2>3
<1>2. old \in Baskets /\ old[p] \in Item
  BY <1>1, BasketsAre DEF TypeOK
<1>3. old[p].dispo \in Nat /\ old[p].quantity \in Nat
  BY <1>2 DEF Item
<1>4. /\ item \in Item
      /\ item.quantity = old[p].quantity + 1
      /\ item.told = old[p].dispo
      /\ item.shared = old[p].shared
  BY <1>2, <1>3, RaisedItem
<1> HIDE DEF item
<1>5. /\ b \in Baskets
      /\ DOMAIN b = DOMAIN old
      /\ b[p] = item
      /\ \A q \in DOMAIN b \ {p} : b[q] = old[q]
      /\ Pieces(Quantities(b), p) = item.quantity
      /\ Pieces(Quantities(old), p) = old[p].quantity
  BY <1>1, <1>2, <1>4, ReplacedItem
<1> HIDE DEF b
<1>6. Pieces(Quantities(b), p) = Pieces(Quantities(old), p) + 1 - 0
  BY <1>3, <1>4, <1>5
<1>7. b[p].quantity <= b[p].told
  BY <1>1, <1>3, <1>4, <1>5
<1>8. b[p].shared => p \in DOMAIN products[t]
  BY <1>1, <1>4, <1>5 DEF SharedListed
<1> QED BY <1>1, <1>5, <1>6, <1>7, <1>8, TapChanges

(* A basket that an item is taken away from.                               *)
LEMMA RemovedItem ==
  ASSUME NEW old \in Baskets, NEW p \in DOMAIN old
  PROVE  LET b == Without(old, p)
         IN  /\ b \in Baskets
             /\ DOMAIN b = DOMAIN old \ {p}
             /\ \A q \in DOMAIN b : b[q] = old[q]
             /\ Pieces(Quantities(b), p) = 0
             /\ Pieces(Quantities(old), p) = old[p].quantity
<1> DEFINE b == Without(old, p)
<1>1. b \in Baskets /\ DOMAIN b = DOMAIN old \ {p} /\ \A q \in DOMAIN b : b[q] = old[q]
  BY WithoutType
<1> HIDE DEF b
<1>2. Pieces(Quantities(b), p) = 0
  BY <1>1, QuantitiesType DEF Pieces
<1>3. Pieces(Quantities(old), p) = old[p].quantity
  BY QuantitiesType DEF Pieces
<1> QED BY <1>1, <1>2, <1>3 DEF b

LEMMA DecreaseChanges ==
  ASSUME TypeOK, SharedListed, NEW t \in Tills, NEW p \in Products, DecreaseQuantity(t, p)
  PROVE  BasketChange(t)
<1> DEFINE old == orderItems[t]
<1>1. p \in DOMAIN old /\ Tap(t, p, 0, 1)
  BY DEF DecreaseQuantity
<1>2. old \in Baskets /\ old[p] \in Item
  BY <1>1, BasketsAre DEF TypeOK
<1>3. old[p].quantity \in Nat \ {0} /\ old[p].told \in Nat
  BY <1>2 DEF Item
<1>4. CASE old[p].quantity > 1
  <2> DEFINE item == [old[p] EXCEPT !.quantity = @ - 1]
             b == [old EXCEPT ![p] = item]
  <2>1. orderItems' = [orderItems EXCEPT ![t] = b]
    <3>1. orderItems' = [orderItems EXCEPT ![t] =
                           [old EXCEPT ![p].quantity = old[p].quantity - 1]]
      BY <1>4 DEF DecreaseQuantity, TypeOK
    <3>2. [old EXCEPT ![p].quantity = old[p].quantity - 1] = b
      OBVIOUS
    <3> QED BY <3>1, <3>2
  <2>2. old[p].quantity - 1 \in Nat \ {0}
    BY <1>3, <1>4
  <2>3. item \in Item
    BY <1>2, <2>2 DEF Item
  <2>4. /\ item.quantity = old[p].quantity - 1
        /\ item.told = old[p].told
        /\ item.shared = old[p].shared
    BY <1>2 DEF Item
  <2> HIDE DEF item
  <2>5. /\ b \in Baskets
        /\ DOMAIN b = DOMAIN old
        /\ b[p] = item
        /\ \A q \in DOMAIN b \ {p} : b[q] = old[q]
        /\ Pieces(Quantities(b), p) = item.quantity
        /\ Pieces(Quantities(old), p) = old[p].quantity
    BY <1>1, <1>2, <2>3, ReplacedItem
  <2> HIDE DEF b
  <2>6. Pieces(Quantities(b), p) = Pieces(Quantities(old), p) + 0 - 1
    BY <1>3, <2>4, <2>5
  <2>7. ItemsTold => b[p].quantity <= b[p].told
    <3>1. ItemsTold => old[p].quantity <= old[p].told
      BY <1>1 DEF ItemsTold
    <3> QED BY <3>1, <1>3, <2>4, <2>5
  <2>8. b[p].shared => p \in DOMAIN products[t]
    BY <1>1, <2>4, <2>5 DEF SharedListed
  <2> QED BY <1>1, <2>1, <2>5, <2>6, <2>7, <2>8, TapChanges
<1>5. CASE ~ (old[p].quantity > 1)
  <2> DEFINE b == Without(old, p)
  <2>1. orderItems' = [orderItems EXCEPT ![t] = b]
    BY <1>5 DEF DecreaseQuantity, TypeOK
  <2>2. /\ b \in Baskets
        /\ DOMAIN b = DOMAIN old \ {p}
        /\ \A q \in DOMAIN b : b[q] = old[q]
        /\ Pieces(Quantities(b), p) = 0
        /\ Pieces(Quantities(old), p) = old[p].quantity
    BY <1>1, <1>2, RemovedItem
  <2> HIDE DEF b
  <2>3. old[p].quantity = 1
    BY <1>3, <1>5
  <2>4. Pieces(Quantities(b), p) = Pieces(Quantities(old), p) + 0 - 1
    BY <2>2, <2>3
  <2>5. /\ p \notin DOMAIN b
       /\ \A q \in DOMAIN b \ {p} : b[q] = old[q]
       /\ DOMAIN b \ {p} = DOMAIN old \ {p}
    BY <2>2
  <2>6. 0 \in Nat /\ 1 \in Nat
    OBVIOUS
  <2> QED BY <1>1, <2>1, <2>2, <2>4, <2>5, <2>6, TapChanges
<1> QED BY <1>4, <1>5

LEMMA RemoveChanges ==
  ASSUME TypeOK, SharedListed, NEW t \in Tills, NEW p \in Products, RemoveItem(t, p)
  PROVE  BasketChange(t)
<1> DEFINE old == orderItems[t]
           b == Without(old, p)
           n == old[p].quantity
<1>1. /\ p \in DOMAIN old
      /\ Tap(t, p, 0, n)
      /\ orderItems' = [orderItems EXCEPT ![t] = b]
  BY DEF RemoveItem, TypeOK
<1>2. old \in Baskets /\ old[p] \in Item
  BY <1>1, BasketsAre DEF TypeOK
<1>3. n \in Nat
  BY <1>2 DEF Item
<1>4. /\ b \in Baskets
      /\ DOMAIN b = DOMAIN old \ {p}
      /\ \A q \in DOMAIN b : b[q] = old[q]
      /\ Pieces(Quantities(b), p) = 0
      /\ Pieces(Quantities(old), p) = n
  BY <1>1, <1>2, RemovedItem
<1> HIDE DEF b, n
<1>5. Pieces(Quantities(b), p) = Pieces(Quantities(old), p) + 0 - n
  BY <1>3, <1>4
<1>6. /\ p \notin DOMAIN b
     /\ \A q \in DOMAIN b \ {p} : b[q] = old[q]
     /\ DOMAIN b \ {p} = DOMAIN old \ {p}
  BY <1>4
<1> QED BY <1>1, <1>3, <1>4, <1>5, <1>6, 0 \in Nat, TapChanges

LEMMA ClearChanges ==
  ASSUME TypeOK, SharedListed, NEW t \in Tills, ClearOrder(t)
  PROVE  BasketChange(t)
<1> DEFINE old == orderItems[t]
<1>1. None \in Baskets /\ DOMAIN None = {}
  BY NoneType
<1>2. \A q : Pieces(Quantities(None), q) = 0
  BY <1>1, QuantitiesType DEF Pieces
<1>3. \A q \in Products : rung[t][q] \in Int /\ Pieces(Quantities(old), q) \in Nat
  BY QuantitiesType, PiecesType DEF TypeOK
<1>4. orderItems' = [orderItems EXCEPT ![t] = None]
  BY DEF ClearOrder
<1>5. rung' = [rung EXCEPT ![t] =
         [q \in Products |-> rung[t][q] - Pieces(Quantities(old), q)]]
  BY DEF ClearOrder, TypeOK
<1> HIDE DEF None
<1>6. [q \in Products |-> rung[t][q] - Pieces(Quantities(old), q)]
        = [q \in Products |-> rung[t][q] + Pieces(Quantities(None), q)
                                - Pieces(Quantities(old), q)]
  <2>1. ASSUME NEW q \in Products
        PROVE  rung[t][q] - Pieces(Quantities(old), q)
                 = rung[t][q] + Pieces(Quantities(None), q) - Pieces(Quantities(old), q)
    BY <1>2, <1>3
  <2> QED BY <2>1
<1>7. NewItems(t, None)
  BY <1>1, <1>4, <1>5, <1>6 DEF NewItems
<1> QED BY <1>1, <1>7 DEF BasketChange, ClearOrder, flags, calls

LEMMA BasketStepChanges ==
  ASSUME TypeOK, SharedListed, NEW t \in Tills, BasketStep(t)
  PROVE  BasketChange(t)
BY AddChanges, IncreaseChanges, DecreaseChanges, RemoveChanges, ClearChanges DEF BasketStep

LEMMA BasketType ==
  ASSUME TypeOK, SharedListed, NEW t \in Tills, BasketChange(t)
  PROVE  TypeOK' /\ SharedListed'
<1>1. PICK b \in Baskets : NewItems(t, b)
  BY DEF BasketChange
<1>2. orderItems' = [orderItems EXCEPT ![t] = b]
  BY <1>1 DEF NewItems
<1>3. orderItems' \in [Tills -> Baskets]
  BY <1>2 DEF TypeOK
<1>4. rung' \in [Tills -> [Products -> Int]]
  <2> DEFINE new == [q \in Products |-> rung[t][q] + Pieces(Quantities(b), q)
                                          - Pieces(Quantities(orderItems[t]), q)]
  <2>1. \A q \in Products : /\ rung[t][q] \in Int
                            /\ Pieces(Quantities(b), q) \in Nat
                            /\ Pieces(Quantities(orderItems[t]), q) \in Nat
    BY QuantitiesType, PiecesType DEF TypeOK
  <2>2. new \in [Products -> Int]
    BY <2>1
  <2>3. rung' = [rung EXCEPT ![t] = new]
    BY <1>1 DEF NewItems
  <2> HIDE DEF new
  <2> QED BY <2>2, <2>3 DEF TypeOK
<1>5. touched' \in [Tills -> BOOLEAN]
  BY DEF TypeOK, BasketChange
<1>6. TypeOK'
  BY <1>3, <1>4, <1>5 DEF TypeOK, BasketChange
<1>7. SharedListed'
  <2> SUFFICES ASSUME NEW u \in Tills, NEW p \in DOMAIN orderItems'[u],
                      orderItems'[u][p].shared
               PROVE  p \in DOMAIN products'[u]
    BY DEF SharedListed
  <2>1. products' = products
    BY DEF BasketChange
  <2>2. CASE u # t
    BY <2>1, <2>2, <1>2 DEF TypeOK, SharedListed
  <2>3. CASE u = t
    <3>1. orderItems'[u] = b
      BY <2>3, <1>2 DEF TypeOK
    <3> QED BY <2>1, <2>3, <3>1, <1>1 DEF NewItems
  <2> QED BY <2>2, <2>3
<1> QED BY <1>6, <1>7

\* What is sent of a basket.
ToldOf(b) == [p \in DOMAIN b |-> b[p].told]

LEMMA ToldType ==
  ASSUME NEW b \in Baskets
  PROVE  /\ ToldOf(b) \in Amounts
         /\ DOMAIN ToldOf(b) = DOMAIN b
         /\ \A p \in DOMAIN b : ToldOf(b)[p] = b[p].told
<1>1. \A p \in DOMAIN b : b[p].told \in Nat
  BY BasketsAre DEF Item
<1>2. ToldOf(b) \in [DOMAIN b -> Nat]
  BY <1>1 DEF ToldOf
<1> QED BY <1>2, AmountsAre, BasketsAre DEF ToldOf

LEMMA FinalizeEffect ==
  ASSUME TypeOK, NEW t \in Tills, FinalizeOrder(t)
  PROVE  /\ ~savingOrder[t] /\ ~showSuccessModal[t]
         /\ savingOrder' = [savingOrder EXCEPT ![t] = TRUE]
         /\ touched' = [touched EXCEPT ![t] = FALSE]
         /\ \E s \in SaleCall : /\ s.stage = "sent"
                                /\ s.items = Quantities(orderItems[t])
                                /\ s.told = ToldOf(orderItems[t])
                                /\ sale' = [sale EXCEPT ![t] = s]
         /\ UNCHANGED <<stock, orders, products, images, imageActive, orderItems,
                        showSuccessModal, ordersLocal, load, search, rung,
                        adrift, behind>>
<1> DEFINE items == Quantities(orderItems[t])
           seen == ToldOf(orderItems[t])
           s == [NoSale EXCEPT !.stage = "sent", !.items = items, !.told = seen]
<1>1. items \in Amounts /\ seen \in Amounts
  BY QuantitiesType, ToldType DEF TypeOK
<1>2. sale' = [sale EXCEPT ![t] = s]
  BY DEF FinalizeOrder, ToldOf
<1> HIDE DEF items, seen
<1>3. s \in SaleCall
  BY <1>1, NoneType DEF SaleCall
<1>4. s.stage = "sent" /\ s.items = items /\ s.told = seen
  BY DEF NoSale
<1> HIDE DEF s
<1> QED BY <1>2, <1>3, <1>4 DEF FinalizeOrder, MayFinalize, screens, items, seen

LEMMA FinalizeType ==
  ASSUME TypeOK, SharedListed, NEW t \in Tills, FinalizeOrder(t)
  PROVE  TypeOK' /\ SharedListed'
<1>1. PICK s \in SaleCall : sale' = [sale EXCEPT ![t] = s]
  BY FinalizeEffect
<1>2. sale' \in [Tills -> SaleCall]
  BY <1>1 DEF TypeOK
<1>3. savingOrder' \in [Tills -> BOOLEAN] /\ touched' \in [Tills -> BOOLEAN]
  BY FinalizeEffect DEF TypeOK
<1>4. TypeOK'
  BY <1>2, <1>3, FinalizeEffect DEF TypeOK
<1>5. SharedListed'
  BY FinalizeEffect DEF SharedListed
<1> QED BY <1>4, <1>5

\* The server's part of a sale: it is made, or refused.
Sells(t) ==
  /\ \A p \in DOMAIN sale[t].items : stock[p] >= sale[t].items[p]
  /\ stock' = [p \in Products |-> stock[p] - Pieces(sale[t].items, p)]
  /\ orders' = Append(orders, [till |-> t, items |-> sale[t].items])
  /\ \E s \in SaleCall :
       /\ s.stage = "done" /\ s.items = sale[t].items /\ s.told = sale[t].told
       /\ s.id = Len(orders) + 1
       /\ s.newStock = [p \in DOMAIN sale[t].items |-> stock[p] - sale[t].items[p]]
       /\ sale' = [sale EXCEPT ![t] = s]

Refuses(t) ==
  /\ \E p \in DOMAIN sale[t].items : stock[p] < sale[t].items[p]
  /\ stock' = stock /\ orders' = orders
  /\ \E s \in SaleCall :
       /\ s.stage = "refused" /\ s.items = sale[t].items /\ s.told = sale[t].told
       /\ sale' = [sale EXCEPT ![t] = s]

LEMMA SaveEffect ==
  ASSUME TypeOK, NEW t \in Tills, SaveOrderLocal(t)
  PROVE  /\ sale[t].stage = "sent"
         /\ Sells(t) \/ Refuses(t)
         /\ UNCHANGED <<products, images, imageActive, orderItems, savingOrder,
                        showSuccessModal, ordersLocal, load, search, rung, adrift,
                        touched, behind>>
<1> DEFINE items == sale[t].items
<1>1. sale[t] \in SaleCall /\ items \in Amounts
  BY DEF TypeOK, SaleCall
<1>2. DOMAIN items \in SUBSET Products /\ \A p \in DOMAIN items : items[p] \in Nat
  BY <1>1, AmountsAre
<1>3. CASE EnoughStock(items)
  <2> DEFINE left == [p \in DOMAIN items |-> stock[p] - items[p]]
             s == [sale[t] EXCEPT !.stage = "done", !.id = Len(orders) + 1,
                     !.newStock = left]
  <2>1. \A p \in DOMAIN items : left[p] \in Nat
    BY <1>2, <1>3 DEF EnoughStock, TypeOK
  <2>2. left \in [DOMAIN items -> Nat] /\ DOMAIN left \in SUBSET Products
    BY <2>1, <1>2
  <2>3. left \in Amounts
    BY <2>2, AmountsAre
  <2>4. Len(orders) + 1 \in Nat
    BY LenProperties DEF TypeOK
  <2>5. sale' = [sale EXCEPT ![t] = s]
    BY <1>3 DEF SaveOrderLocal
  <2>6. /\ stock' = [p \in Products |-> stock[p] - Pieces(items, p)]
        /\ orders' = Append(orders, [till |-> t, items |-> items])
    BY <1>3 DEF SaveOrderLocal
  <2>7. \A p \in DOMAIN items : stock[p] >= items[p]
    BY <1>3 DEF EnoughStock
  <2> HIDE DEF left
  <2>8. s \in SaleCall
    BY <1>1, <2>3, <2>4 DEF SaleCall
  <2>9. /\ s.stage = "done" /\ s.items = items /\ s.told = sale[t].told
        /\ s.id = Len(orders) + 1 /\ s.newStock = left
    BY <1>1 DEF SaleCall
  <2> HIDE DEF s
  <2>10. Sells(t)
    BY <2>5, <2>6, <2>7, <2>8, <2>9 DEF Sells, left
  <2> QED BY <2>10 DEF SaveOrderLocal, screens, flags, counters
<1>4. CASE ~EnoughStock(items)
  <2> DEFINE s == [sale[t] EXCEPT !.stage = "refused"]
  <2>1. sale' = [sale EXCEPT ![t] = s]
    BY <1>4 DEF SaveOrderLocal, TypeOK
  <2>2. stock' = stock /\ orders' = orders
    BY <1>4 DEF SaveOrderLocal
  <2>3. \E p \in DOMAIN items : stock[p] < items[p]
    BY <1>4, <1>2 DEF EnoughStock, TypeOK
  <2>4. s \in SaleCall
    BY <1>1 DEF SaleCall
  <2>5. s.stage = "refused" /\ s.items = items /\ s.told = sale[t].told
    BY <1>1 DEF SaleCall
  <2> HIDE DEF s
  <2>6. Refuses(t)
    BY <2>1, <2>2, <2>3, <2>4, <2>5 DEF Refuses
  <2> QED BY <2>6 DEF SaveOrderLocal, screens, flags, counters
<1> QED BY <1>3, <1>4

LEMMA SaveType ==
  ASSUME TypeOK, SharedListed, NEW t \in Tills, SaveOrderLocal(t)
  PROVE  TypeOK' /\ SharedListed'
<1>1. sale[t].items \in Amounts
  BY DEF TypeOK, SaleCall
<1>2. sale' \in [Tills -> SaleCall]
  <2>1. \E s \in SaleCall : sale' = [sale EXCEPT ![t] = s]
    BY SaveEffect DEF Sells, Refuses
  <2> QED BY <2>1 DEF TypeOK
<1>3. stock' \in [Products -> Nat]
  <2>1. CASE Refuses(t)
    BY <2>1 DEF Refuses, TypeOK
  <2>2. CASE Sells(t)
    <3>1. \A p \in Products : stock[p] - Pieces(sale[t].items, p) \in Nat
      <4> TAKE p \in Products
      <4>1. stock[p] \in Nat /\ Pieces(sale[t].items, p) \in Nat
        BY <1>1, PiecesType DEF TypeOK
      <4>2. Pieces(sale[t].items, p) <= stock[p]
        BY <2>2, <4>1 DEF Sells, Pieces
      <4> QED BY <4>1, <4>2
    <3> QED BY <2>2, <3>1 DEF Sells
  <2> QED BY <2>1, <2>2, SaveEffect
<1>4. orders' \in Seq(Order)
  <2>1. [till |-> t, items |-> sale[t].items] \in Order
    BY <1>1 DEF Order
  <2>2. Append(orders, [till |-> t, items |-> sale[t].items]) \in Seq(Order)
    BY <2>1, AppendProperties DEF TypeOK
  <2> QED BY <2>2, SaveEffect DEF Sells, Refuses, TypeOK
<1>5. TypeOK'
  BY <1>2, <1>3, <1>4, SaveEffect DEF TypeOK
<1>6. SharedListed'
  BY SaveEffect DEF SharedListed
<1> QED BY <1>5, <1>6

\* What the answer to a sale made leaves at its till.
Confirms(t, newList, basket, record) ==
  /\ DOMAIN newList = DOMAIN products[t]
  /\ \A p \in DOMAIN newList :
       newList[p] = IF p \in DOMAIN sale[t].newStock THEN sale[t].newStock[p]
                                                     ELSE products[t][p]
  /\ products' = [products EXCEPT ![t] = newList]
  /\ DOMAIN basket = DOMAIN orderItems[t]
  /\ \A p \in DOMAIN basket :
       /\ basket[p].quantity = orderItems[t][p].quantity
       /\ basket[p].told = orderItems[t][p].told
       /\ basket[p].shared = orderItems[t][p].shared
  /\ orderItems' = [orderItems EXCEPT ![t] = basket]
  /\ record.id = sale[t].id
  /\ record.items = Quantities(orderItems[t])
  /\ record.asSent = ~touched[t]
  /\ ordersLocal' = [ordersLocal EXCEPT ![t] = <<record>> \o @]

LEMMA ConfirmEffect ==
  ASSUME TypeOK, SharedListed, NEW t \in Tills, ReceiveSale(t)
  PROVE  /\ sale[t].stage = "done"
         /\ \E newList \in Amounts, basket \in Baskets, record \in Record :
              Confirms(t, newList, basket, record)
         /\ showSuccessModal' = [showSuccessModal EXCEPT ![t] = TRUE]
         /\ savingOrder' = [savingOrder EXCEPT ![t] = FALSE]
         /\ sale' = [sale EXCEPT ![t] = NoSale]
         /\ \E c \in LoadCall : /\ load' = [load EXCEPT ![t] = c]
                                /\ c.stage = load[t].stage
                                /\ c.stage # "none" => c.crossed
         /\ adrift' = [adrift EXCEPT ![t] = @ \/ touched[t]]
         /\ UNCHANGED <<stock, orders, images, imageActive, search, rung, touched, behind>>
<1> DEFINE newList == UpdatedList(t)
           old == orderItems[t]
           basket == [p \in DOMAIN old |->
                        IF old[p].shared THEN [old[p] EXCEPT !.dispo = newList[p]] ELSE old[p]]
           record == [id |-> sale[t].id, items |-> RecordedItems(t), asSent |-> ~touched[t]]
           new == sale[t].newStock
           c == IF load[t].stage = "none" THEN load[t]
                ELSE [load[t] EXCEPT !.crossed = TRUE]
<1>1. new \in Amounts /\ products[t] \in Amounts /\ old \in Baskets
  BY DEF TypeOK, SaleCall
<1>2. /\ DOMAIN newList = DOMAIN products[t]
      /\ \A p \in DOMAIN newList : newList[p] = IF p \in DOMAIN new THEN new[p] ELSE products[t][p]
  BY DEF UpdatedList
<1>3. newList \in Amounts
  <2>1. \A p \in DOMAIN newList : newList[p] \in Nat
    BY <1>1, <1>2, AmountsAre
  <2>2. newList \in [DOMAIN newList -> Nat]
    BY <2>1 DEF UpdatedList
  <2> HIDE DEF newList
  <2> QED BY <1>1, <1>2, <2>2, AmountsAre
<1>4. /\ sale[t].stage = "done"
      /\ products' = [products EXCEPT ![t] = newList]
      /\ orderItems' = [orderItems EXCEPT ![t] = basket]
      /\ ordersLocal' = [ordersLocal EXCEPT ![t] = <<record>> \o @]
  BY DEF ReceiveSale, TypeOK
<1> HIDE DEF newList
<1>5. ASSUME NEW p \in DOMAIN old
      PROVE  /\ basket[p] \in Item
             /\ basket[p].quantity = old[p].quantity
             /\ basket[p].told = old[p].told
             /\ basket[p].shared = old[p].shared
  <2>1. old[p] \in Item
    BY <1>1, BasketsAre
  <2>2. CASE old[p].shared
    <3>1. p \in DOMAIN products[t]
      BY <2>2 DEF SharedListed
    <3>2. newList[p] \in Nat
      BY <3>1, <1>2, <1>3, AmountsAre
    <3>3. basket[p] = [old[p] EXCEPT !.dispo = newList[p]]
      BY <2>2
    <3> HIDE DEF basket
    <3> QED BY <2>1, <3>2, <3>3 DEF Item
  <2>3. CASE ~old[p].shared
    BY <2>1, <2>3
  <2> QED BY <2>2, <2>3
<1>6. basket \in Baskets /\ DOMAIN basket = DOMAIN old
  <2>1. DOMAIN basket = DOMAIN old /\ basket \in [DOMAIN old -> Item]
    BY <1>5
  <2> HIDE DEF basket
  <2> QED BY <2>1, <1>1, BasketsAre
<1>7. record \in Record
  <2>1. Quantities(old) \in Amounts /\ sale[t].id \in Nat /\ touched[t] \in BOOLEAN
    BY <1>1, QuantitiesType DEF TypeOK, SaleCall
  <2> QED BY <2>1 DEF Record, RecordedItems
<1>8. /\ record.id = sale[t].id
      /\ record.items = Quantities(old)
      /\ record.asSent = ~touched[t]
  BY DEF RecordedItems
<1>9. c \in LoadCall /\ c.stage = load[t].stage /\ (c.stage # "none" => c.crossed)
  <2>1. load[t] \in LoadCall
    BY DEF TypeOK
  <2>2. CASE load[t].stage = "none"
    BY <2>1, <2>2
  <2>3. CASE load[t].stage # "none"
    <3>1. c = [load[t] EXCEPT !.crossed = TRUE]
      BY <2>3
    <3> HIDE DEF c
    <3> QED BY <2>1, <3>1 DEF LoadCall
  <2> QED BY <2>2, <2>3
<1>10. load' = [load EXCEPT ![t] = c]
  BY DEF ReceiveSale, TypeOK
<1>11. old = orderItems[t] /\ new = sale[t].newStock
  OBVIOUS
<1> HIDE DEF basket, record, c, new
<1>12. Confirms(t, newList, basket, record)
  BY <1>2, <1>4, <1>5, <1>6, <1>8, <1>11 DEF Confirms
<1> QED BY <1>3, <1>4, <1>6, <1>7, <1>9, <1>10, <1>12 DEF ReceiveSale, counters

LEMMA ConfirmType ==
  ASSUME TypeOK, SharedListed, NEW t \in Tills, ReceiveSale(t)
  PROVE  TypeOK' /\ SharedListed'
<1>1. PICK newList \in Amounts, basket \in Baskets, record \in Record :
        Confirms(t, newList, basket, record)
  BY ConfirmEffect
<1>2. products' \in [Tills -> Amounts] /\ orderItems' \in [Tills -> Baskets]
  BY <1>1 DEF Confirms, TypeOK
<1>3. ordersLocal' \in [Tills -> Seq(Record)]
  <2>1. <<record>> \in Seq(Record)
    OBVIOUS
  <2>2. <<record>> \o ordersLocal[t] \in Seq(Record)
    BY <2>1, ConcatProperties DEF TypeOK
  <2>3. ordersLocal' = [ordersLocal EXCEPT ![t] = <<record>> \o ordersLocal[t]]
    BY <1>1 DEF Confirms, TypeOK
  <2> QED BY <2>2, <2>3 DEF TypeOK
<1>4. load' \in [Tills -> LoadCall]
  <2>1. PICK c \in LoadCall : load' = [load EXCEPT ![t] = c]
    BY ConfirmEffect
  <2> QED BY <2>1 DEF TypeOK
<1>5. /\ showSuccessModal' \in [Tills -> BOOLEAN] /\ savingOrder' \in [Tills -> BOOLEAN]
      /\ sale' \in [Tills -> SaleCall]
  <2>1. /\ showSuccessModal' = [showSuccessModal EXCEPT ![t] = TRUE]
        /\ savingOrder' = [savingOrder EXCEPT ![t] = FALSE]
        /\ sale' = [sale EXCEPT ![t] = NoSale]
    BY ConfirmEffect
  <2> QED BY <2>1, NoneType DEF TypeOK
<1>8. adrift' \in [Tills -> BOOLEAN]
  <2>1. adrift' = [adrift EXCEPT ![t] = adrift[t] \/ touched[t]]
    BY ConfirmEffect DEF TypeOK
  <2> QED BY <2>1 DEF TypeOK
<1>6. TypeOK'
  BY <1>2, <1>3, <1>4, <1>5, <1>8, ConfirmEffect DEF TypeOK
<1>7. SharedListed'
  <2> SUFFICES ASSUME NEW u \in Tills, NEW p \in DOMAIN orderItems'[u],
                      orderItems'[u][p].shared
               PROVE  p \in DOMAIN products'[u]
    BY DEF SharedListed
  <2>1. /\ products' = [products EXCEPT ![t] = newList]
        /\ orderItems' = [orderItems EXCEPT ![t] = basket]
    BY <1>1 DEF Confirms
  <2>2. CASE u # t
    BY <2>1, <2>2 DEF TypeOK, SharedListed
  <2>3. CASE u = t
    <3>1. orderItems'[u] = basket /\ products'[u] = newList
      BY <2>1, <2>3 DEF TypeOK
    <3>2. p \in DOMAIN orderItems[t] /\ orderItems[t][p].shared
      BY <3>1, <1>1 DEF Confirms
    <3> QED BY <3>1, <3>2, <1>1 DEF Confirms, SharedListed
  <2> QED BY <2>2, <2>3
<1> QED BY <1>6, <1>7

LEMMA FailsType ==
  ASSUME TypeOK, SharedListed, NEW t \in Tills, SaleFails(t)
  PROVE  TypeOK' /\ SharedListed'
<1>1. /\ sale' \in [Tills -> SaleCall] /\ savingOrder' \in [Tills -> BOOLEAN]
      /\ adrift' \in [Tills -> BOOLEAN]
  BY NoneType DEF SaleFails, TypeOK
<1>2. TypeOK'
  BY <1>1 DEF TypeOK, SaleFails, screens, counters
<1>3. SharedListed'
  BY DEF SharedListed, SaleFails, screens
<1> QED BY <1>2, <1>3

LEMMA CloseType ==
  ASSUME TypeOK, SharedListed, NEW t \in Tills, CloseSuccessModal(t)
  PROVE  TypeOK' /\ SharedListed'
<1> HIDE DEF None
<1>1. orderItems' = [orderItems EXCEPT ![t] = None]
  BY DEF CloseSuccessModal, NewBasket
<1>2. orderItems' \in [Tills -> Baskets] /\ showSuccessModal' \in [Tills -> BOOLEAN]
  BY <1>1, NoneType DEF CloseSuccessModal, TypeOK
<1>3. TypeOK'
  BY <1>2 DEF TypeOK, CloseSuccessModal, calls, counters
<1>4. SharedListed'
  <2> SUFFICES ASSUME NEW u \in Tills, NEW p \in DOMAIN orderItems'[u],
                      orderItems'[u][p].shared
               PROVE  p \in DOMAIN products'[u]
    BY DEF SharedListed
  <2>1. products' = products
    BY DEF CloseSuccessModal
  <2>2. CASE u # t
    BY <2>1, <2>2, <1>1 DEF TypeOK, SharedListed
  <2>3. CASE u = t
    BY <2>3, <1>1, NoneType DEF TypeOK
  <2> QED BY <2>2, <2>3
<1> QED BY <1>3, <1>4

\* A step of the loads or of the searches.
LEMMA LoadStepType ==
  ASSUME TypeOK, SharedListed, NEW t \in Tills, LoadStep(t)
  PROVE  TypeOK' /\ SharedListed'
BY FetchType, SelectType, ClearImageType, ReadType, ReceiveType, ReceiveImagesType,
   LoseType DEF LoadStep

LEMMA SaleStepType ==
  ASSUME TypeOK, SharedListed, NEW t \in Tills, SaleStep(t)
  PROVE  TypeOK' /\ SharedListed'
BY FinalizeType, SaveType, ConfirmType, FailsType, CloseType DEF SaleStep

LEMMA UnchangedType ==
  ASSUME TypeOK, SharedListed, UNCHANGED vars
  PROVE  TypeOK' /\ SharedListed'
<1>1. UNCHANGED <<stock, orders, products, images, imageActive, orderItems, savingOrder,
                  showSuccessModal, ordersLocal, sale, load, search, rung, touched, adrift,
                  behind>>
  BY DEF vars, screens, flags, calls
<1>2. TypeOK'
  BY <1>1 DEF TypeOK
<1>3. SharedListed'
  BY <1>1 DEF SharedListed
<1> QED BY <1>2, <1>3

(* Every variable keeps its type, and an item that goes with the list is   *)
(* in the list.                                                            *)
LEMMA TypeCorrect == Spec => [](TypeOK /\ SharedListed)
<1>1. TypeOK /\ SharedListed /\ [Next]_vars => TypeOK' /\ SharedListed'
  <2> SUFFICES ASSUME TypeOK, SharedListed, [Next]_vars PROVE TypeOK' /\ SharedListed'
    OBVIOUS
  <2>1. ASSUME NEW t \in Tills, LoadStep(t) PROVE TypeOK' /\ SharedListed'
    BY <2>1, LoadStepType
  <2>2. ASSUME NEW t \in Tills, BasketStep(t) PROVE TypeOK' /\ SharedListed'
    BY <2>2, BasketStepChanges, BasketType
  <2>3. ASSUME NEW t \in Tills, SaleStep(t) PROVE TypeOK' /\ SharedListed'
    BY <2>3, SaleStepType
  <2>4. CASE UNCHANGED vars
    BY <2>4, UnchangedType
  <2> QED BY <2>1, <2>2, <2>3, <2>4 DEF Next
<1> QED BY <1>1, InitType, PTL DEF Spec

-----------------------------------------------------------------------------
(* Sales, records and baskets.                                             *)

LEMMA SameQuantities ==
  ASSUME NEW b, NEW c, DOMAIN b = DOMAIN c,
         \A p \in DOMAIN b : b[p].quantity = c[p].quantity
  PROVE  Quantities(b) = Quantities(c)
BY DEF Quantities

LEMMA NothingIn == \A p : Pieces(Quantities(None), p) = 0
<1> HIDE DEF None
<1> QED BY NoneType, QuantitiesType DEF Pieces

LEMMA InitSales == Init => SaleInv
<1> SUFFICES ASSUME Init PROVE SaleInv
  OBVIOUS
<1>1. Len(orders) = 0 /\ DOMAIN orders = {} /\ \A t \in Tills : DOMAIN ordersLocal[t] = {}
  BY DEF Init
<1>2. \A S, p : Sold(orders, S, p, Len(orders)) = 0
  BY <1>1, SoldNone
<1>3. StockLedger
  <2>1. \A p \in Products : stock[p] = InitialStock[p] /\ InitialStock[p] \in Nat
    BY CashScreenAssumption DEF Init
  <2> QED BY <2>1, <1>2 DEF StockLedger
<1>4. \A t \in Tills : /\ sale[t].stage = "none" /\ sale[t].items = None
                       /\ sale[t].told = None
                       /\ ~savingOrder[t] /\ ~showSuccessModal[t]
                       /\ orderItems[t] = None
  BY DEF Init, NoSale
<1>5. \A t \in Tills, p \in Products : rung[t][p] = 0
  BY DEF Init
<1> HIDE DEF None
<1>6. OneSale /\ ItemsTold /\ SaleTold /\ SentAsShown /\ DoneIsOrder
  BY <1>4, NoneType DEF OneSale, ItemsTold, SaleTold, SentAsShown, DoneIsOrder
<1>7. RecordsAreOrders /\ OrdersRecorded
  BY <1>1 DEF RecordsAreOrders, OrdersRecorded
<1>8. PiecesKept
  BY <1>2, <1>4, <1>5, NothingIn DEF PiecesKept, SoldBy
<1> QED BY <1>3, <1>6, <1>7, <1>8 DEF SaleInv

\* Steps that leave sales, records and the pieces of the baskets alone.
Quiet ==
  /\ UNCHANGED <<stock, orders, savingOrder, showSuccessModal, ordersLocal, sale,
                 rung, touched, adrift>>
  /\ \A t \in Tills :
       /\ Quantities(orderItems'[t]) = Quantities(orderItems[t])
       /\ DOMAIN orderItems'[t] = DOMAIN orderItems[t]
       /\ \A p \in DOMAIN orderItems[t] :
            /\ orderItems'[t][p].quantity = orderItems[t][p].quantity
            /\ orderItems'[t][p].told = orderItems[t][p].told

LEMMA LoadsQuiet ==
  ASSUME TypeOK, SharedListed, NEW t \in Tills, LoadStep(t)
  PROVE  Quiet
<1>1. CASE ReceiveProducts(t)
  <2>1. UNCHANGED <<stock, orders, savingOrder, showSuccessModal, ordersLocal, sale,
                    rung, touched, adrift>>
    BY <1>1 DEF ReceiveProducts, flags
  <2>2. PICK kept \in Amounts, newList \in Amounts, basket \in Baskets :
          Brings(t, kept, newList, basket)
    BY <1>1, ReceiveEffect
  <2>4. /\ DOMAIN basket = DOMAIN orderItems[t]
        /\ \A p \in DOMAIN basket :
             /\ basket[p].quantity = orderItems[t][p].quantity
             /\ basket[p].told = orderItems[t][p].told
        /\ orderItems' = [orderItems EXCEPT ![t] = basket]
    BY <2>2 DEF Brings
  <2>3. ASSUME NEW u \in Tills
        PROVE  /\ Quantities(orderItems'[u]) = Quantities(orderItems[u])
               /\ DOMAIN orderItems'[u] = DOMAIN orderItems[u]
               /\ \A p \in DOMAIN orderItems[u] :
                    /\ orderItems'[u][p].quantity = orderItems[u][p].quantity
                    /\ orderItems'[u][p].told = orderItems[u][p].told
    <3>1. CASE u = t
      <4>1. orderItems'[u] = basket
        BY <3>1, <2>4 DEF TypeOK
      <4>2. Quantities(basket) = Quantities(orderItems[t])
        BY <2>4, SameQuantities
      <4> QED BY <4>1, <4>2, <3>1, <2>4
    <3>2. CASE u # t
      <4>1. orderItems'[u] = orderItems[u]
        BY <3>2, <2>4 DEF TypeOK
      <4> QED BY <4>1
    <3> QED BY <3>1, <3>2
  <2> QED BY <2>1, <2>3 DEF Quiet
<1>2. CASE ~ReceiveProducts(t)
  <2>1. UNCHANGED <<stock, orders, savingOrder, showSuccessModal, ordersLocal, sale,
                    rung, touched, adrift, orderItems>>
    BY <1>2 DEF LoadStep, FetchProducts, SelectImage, ClearImageSearch, ReadProducts,
                ReceiveImages, LoseProducts, screens, flags, calls
  <2> QED BY <2>1 DEF Quiet
<1> QED BY <1>1, <1>2

LEMMA QuietKeepsSales ==
  ASSUME SaleInv, Quiet
  PROVE  SaleInv'
<1>1. StockLedger' /\ OneSale' /\ SaleTold' /\ DoneIsOrder' /\ RecordsAreOrders'
  BY DEF SaleInv, Quiet, StockLedger, OneSale, SaleTold, DoneIsOrder, RecordsAreOrders
<1>2. OrdersRecorded'
  BY DEF SaleInv, Quiet, OrdersRecorded
<1>3. ItemsTold' /\ SentAsShown'
  BY DEF SaleInv, Quiet, ItemsTold, SentAsShown
<1>4. PiecesKept'
  BY DEF SaleInv, Quiet, PiecesKept, SoldBy
<1> QED BY <1>1, <1>2, <1>3, <1>4 DEF SaleInv

LEMMA BasketKeepsSales ==
  ASSUME TypeOK, SaleInv, NEW t \in Tills, BasketChange(t)
  PROVE  SaleInv'
<1>1. PICK b \in Baskets : NewItems(t, b)
  BY DEF BasketChange
<1>2. UNCHANGED <<stock, orders, savingOrder, showSuccessModal, ordersLocal, sale, adrift>>
  BY DEF BasketChange
<1>3. /\ ~showSuccessModal[t]
      /\ touched' = [touched EXCEPT ![t] = touched[t] \/ savingOrder[t]]
      /\ orderItems' = [orderItems EXCEPT ![t] = b]
  BY <1>1 DEF BasketChange, NewItems, TypeOK
<1>4. StockLedger' /\ OneSale' /\ SaleTold' /\ DoneIsOrder' /\ RecordsAreOrders'
  BY <1>2 DEF SaleInv, StockLedger, OneSale, SaleTold, DoneIsOrder, RecordsAreOrders
<1>5. OrdersRecorded'
  BY <1>2 DEF SaleInv, OrdersRecorded
<1>6. ItemsTold'
  <2> SUFFICES ASSUME NEW u \in Tills, NEW p \in DOMAIN orderItems'[u]
               PROVE  orderItems'[u][p].quantity <= orderItems'[u][p].told
    BY DEF ItemsTold
  <2>1. CASE u = t
    BY <2>1, <1>1, <1>3 DEF TypeOK, NewItems, SaleInv
  <2>2. CASE u # t
    BY <2>2, <1>3 DEF TypeOK, SaleInv, ItemsTold
  <2> QED BY <2>1, <2>2
<1>7. SentAsShown'
  <2> SUFFICES ASSUME NEW u \in Tills, savingOrder'[u], ~touched'[u]
               PROVE  Quantities(orderItems'[u]) = sale'[u].items
    BY DEF SentAsShown
  <2>1. u # t
    BY <1>2, <1>3 DEF TypeOK
  <2> QED BY <2>1, <1>2, <1>3 DEF TypeOK, SaleInv, SentAsShown
<1>8. PiecesKept'
  <2> SUFFICES ASSUME NEW u \in Tills, NEW p \in Products, ~adrift'[u]
               PROVE  rung'[u][p]
                        + (IF sale'[u].stage = "done" THEN Pieces(sale'[u].items, p) ELSE 0)
                      = SoldBy(u, p)'
                        + (IF showSuccessModal'[u] THEN 0
                           ELSE Pieces(Quantities(orderItems'[u]), p))
    BY DEF PiecesKept
  <2>1. rung[u][p]
          + (IF sale[u].stage = "done" THEN Pieces(sale[u].items, p) ELSE 0)
        = SoldBy(u, p)
          + (IF showSuccessModal[u] THEN 0 ELSE Pieces(Quantities(orderItems[u]), p))
    BY <1>2 DEF SaleInv, PiecesKept
  <2>2. SoldBy(u, p)' = SoldBy(u, p)
    BY <1>2 DEF SoldBy
  <2>3. CASE u # t
    <3>1. rung'[u] = rung[u] /\ orderItems'[u] = orderItems[u]
      BY <2>3, <1>1 DEF NewItems, TypeOK
    <3> QED BY <3>1, <2>1, <2>2, <1>2
  <2>4. CASE u = t
    <3>1. /\ rung'[u][p] = rung[u][p] + Pieces(Quantities(b), p)
                             - Pieces(Quantities(orderItems[u]), p)
          /\ orderItems'[u] = b
      BY <2>4, <1>1 DEF NewItems, TypeOK
    <3>2. /\ rung[u][p] \in Int /\ Pieces(Quantities(b), p) \in Nat
          /\ Pieces(Quantities(orderItems[u]), p) \in Nat
          /\ Pieces(sale[u].items, p) \in Nat
      BY QuantitiesType, PiecesType DEF TypeOK, SaleCall
    <3>3. SoldBy(u, p) \in Nat
      BY SoldGrows, LenProperties DEF SoldBy, TypeOK
    <3>4. ~showSuccessModal[u]
      BY <2>4, <1>3
    <3> DEFINE d == IF sale[u].stage = "done" THEN Pieces(sale[u].items, p) ELSE 0
    <3>5. d \in Nat
      BY <3>2
    <3>6. rung[u][p] + d = SoldBy(u, p) + Pieces(Quantities(orderItems[u]), p)
      BY <2>1, <3>4
    <3> HIDE DEF d
    <3>7. rung'[u][p] + d = SoldBy(u, p) + Pieces(Quantities(b), p)
      BY <3>1, <3>2, <3>3, <3>5, <3>6
    <3> QED BY <3>1, <3>4, <3>7, <2>2, <1>2 DEF d
  <2> QED BY <2>3, <2>4
<1> QED BY <1>4, <1>5, <1>6, <1>7, <1>8 DEF SaleInv

LEMMA OrdersAre ==
  ASSUME TypeOK
  PROVE  /\ Len(orders) \in Nat /\ DOMAIN orders = 1..Len(orders)
         /\ \A i \in DOMAIN orders : orders[i].till \in Tills /\ orders[i].items \in Amounts
<1>1. orders \in Seq(Order)
  BY DEF TypeOK
<1>2. Len(orders) \in Nat /\ DOMAIN orders = 1..Len(orders)
  BY <1>1, LenProperties
<1>3. \A i \in 1..Len(orders) : orders[i] \in Order
  BY <1>1, ElementOfSeq
<1> QED BY <1>2, <1>3 DEF Order

LEMMA FinalizeKeepsSales ==
  ASSUME TypeOK, SaleInv, NEW t \in Tills, FinalizeOrder(t)
  PROVE  SaleInv'
<1>1. PICK s \in SaleCall : /\ s.stage = "sent"
                            /\ s.items = Quantities(orderItems[t])
                            /\ s.told = ToldOf(orderItems[t])
                            /\ sale' = [sale EXCEPT ![t] = s]
  BY FinalizeEffect
<1>2. /\ ~savingOrder[t] /\ ~showSuccessModal[t]
      /\ savingOrder' = [savingOrder EXCEPT ![t] = TRUE]
      /\ touched' = [touched EXCEPT ![t] = FALSE]
  BY FinalizeEffect
<1>3. UNCHANGED <<stock, orders, orderItems, showSuccessModal, ordersLocal, rung, adrift>>
  BY FinalizeEffect
<1>4. sale'[t] = s /\ savingOrder'[t] = TRUE /\ touched'[t] = FALSE
  BY <1>1, <1>2 DEF TypeOK
<1>5. ASSUME NEW u \in Tills, u # t
      PROVE  sale'[u] = sale[u] /\ savingOrder'[u] = savingOrder[u] /\ touched'[u] = touched[u]
  BY <1>1, <1>2, <1>5 DEF TypeOK
<1>6. sale[t].stage = "none"
  BY <1>2 DEF SaleInv, OneSale
<1>7. StockLedger' /\ ItemsTold' /\ RecordsAreOrders'
  BY <1>3 DEF SaleInv, StockLedger, ItemsTold, RecordsAreOrders
<1>8. OneSale'
  BY <1>1, <1>2, <1>3, <1>4, <1>5 DEF SaleInv, OneSale
<1>9. SaleTold'
  <2>1. orderItems[t] \in Baskets
    BY DEF TypeOK
  <2>2. /\ DOMAIN s.told = DOMAIN s.items
        /\ \A p \in DOMAIN s.items : s.items[p] <= s.told[p]
    BY <2>1, <1>1, QuantitiesType, ToldType DEF SaleInv, ItemsTold
  <2> QED BY <2>2, <1>4, <1>5 DEF SaleInv, SaleTold
<1>10. SentAsShown'
  BY <1>1, <1>3, <1>4, <1>5 DEF SaleInv, SentAsShown
<1>11. DoneIsOrder'
  BY <1>1, <1>3, <1>4, <1>5 DEF SaleInv, DoneIsOrder
<1>12. OrdersRecorded'
  <2>1. \A i \in DOMAIN orders : orders[i].till \in Tills
    BY OrdersAre
  <2> QED BY <2>1, <1>3, <1>5, <1>6 DEF SaleInv, OrdersRecorded
<1>13. PiecesKept'
  <2> SUFFICES ASSUME NEW u \in Tills, NEW p \in Products, ~adrift'[u]
               PROVE  rung'[u][p]
                        + (IF sale'[u].stage = "done" THEN Pieces(sale'[u].items, p) ELSE 0)
                      = SoldBy(u, p)'
                        + (IF showSuccessModal'[u] THEN 0
                           ELSE Pieces(Quantities(orderItems'[u]), p))
    BY DEF PiecesKept
  <2>1. rung[u][p]
          + (IF sale[u].stage = "done" THEN Pieces(sale[u].items, p) ELSE 0)
        = SoldBy(u, p)
          + (IF showSuccessModal[u] THEN 0 ELSE Pieces(Quantities(orderItems[u]), p))
    BY <1>3 DEF SaleInv, PiecesKept
  <2>2. SoldBy(u, p)' = SoldBy(u, p)
    BY <1>3 DEF SoldBy
  <2>3. (IF sale'[u].stage = "done" THEN Pieces(sale'[u].items, p) ELSE 0)
          = IF sale[u].stage = "done" THEN Pieces(sale[u].items, p) ELSE 0
    BY <1>1, <1>4, <1>5, <1>6
  <2> QED BY <2>1, <2>2, <2>3, <1>3
<1> QED BY <1>7, <1>8, <1>9, <1>10, <1>11, <1>12, <1>13 DEF SaleInv

LEMMA RefusalKeepsSales ==
  ASSUME TypeOK, SaleInv, NEW t \in Tills, SaveOrderLocal(t), Refuses(t)
  PROVE  SaleInv'
<1>1. PICK s \in SaleCall :
        /\ s.stage = "refused" /\ s.items = sale[t].items /\ s.told = sale[t].told
        /\ sale' = [sale EXCEPT ![t] = s]
  BY DEF Refuses
<1>2. /\ sale[t].stage = "sent"
      /\ UNCHANGED <<stock, orders, orderItems, savingOrder, showSuccessModal,
                     ordersLocal, rung, adrift, touched>>
  BY SaveEffect DEF Refuses
<1>3. sale'[t] = s /\ \A u \in Tills \ {t} : sale'[u] = sale[u]
  BY <1>1 DEF TypeOK
<1>4. StockLedger' /\ ItemsTold' /\ RecordsAreOrders'
  BY <1>2 DEF SaleInv, StockLedger, ItemsTold, RecordsAreOrders
<1>5. OneSale'
  BY <1>1, <1>2, <1>3 DEF SaleInv, OneSale
<1>6. SaleTold' /\ SentAsShown'
  BY <1>1, <1>2, <1>3 DEF SaleInv, SaleTold, SentAsShown
<1>7. DoneIsOrder'
  BY <1>1, <1>2, <1>3 DEF SaleInv, DoneIsOrder
<1>8. OrdersRecorded'
  <2>1. \A i \in DOMAIN orders : orders[i].till \in Tills
    BY OrdersAre
  <2> QED BY <2>1, <1>2, <1>3 DEF SaleInv, OrdersRecorded
<1>9. PiecesKept'
  <2> SUFFICES ASSUME NEW u \in Tills, NEW p \in Products, ~adrift'[u]
               PROVE  rung'[u][p]
                        + (IF sale'[u].stage = "done" THEN Pieces(sale'[u].items, p) ELSE 0)
                      = SoldBy(u, p)'
                        + (IF showSuccessModal'[u] THEN 0
                           ELSE Pieces(Quantities(orderItems'[u]), p))
    BY DEF PiecesKept
  <2>1. rung[u][p]
          + (IF sale[u].stage = "done" THEN Pieces(sale[u].items, p) ELSE 0)
        = SoldBy(u, p)
          + (IF showSuccessModal[u] THEN 0 ELSE Pieces(Quantities(orderItems[u]), p))
    BY <1>2 DEF SaleInv, PiecesKept
  <2>2. SoldBy(u, p)' = SoldBy(u, p)
    BY <1>2 DEF SoldBy
  <2>3. (IF sale'[u].stage = "done" THEN Pieces(sale'[u].items, p) ELSE 0)
          = IF sale[u].stage = "done" THEN Pieces(sale[u].items, p) ELSE 0
    BY <1>1, <1>2, <1>3
  <2> QED BY <2>1, <2>2, <2>3, <1>2
<1> QED BY <1>4, <1>5, <1>6, <1>7, <1>8, <1>9 DEF SaleInv

(* What a sale made adds to the orders.                                    *)
LEMMA SellsEffect ==
  ASSUME TypeOK, SaleInv, NEW t \in Tills, SaveOrderLocal(t), Sells(t)
  PROVE  /\ Len(orders) \in Nat /\ DOMAIN orders = 1..Len(orders)
         /\ DOMAIN orders' = 1..(Len(orders) + 1)
         /\ Len(orders') = Len(orders) + 1
         /\ \A i \in DOMAIN orders : orders'[i] = orders[i]
         /\ orders'[Len(orders) + 1] = [till |-> t, items |-> sale[t].items]
         /\ \A S, p : \A n \in 0..Len(orders) : Sold(orders', S, p, n) = Sold(orders, S, p, n)
         /\ \A S, p : Sold(orders', S, p, Len(orders) + 1)
                        = Sold(orders, S, p, Len(orders))
                          + (IF t \in S THEN Pieces(sale[t].items, p) ELSE 0)
         /\ \A S, p : Sold(orders, S, p, Len(orders)) \in Nat
<1> DEFINE o == [till |-> t, items |-> sale[t].items]
<1>1. o \in Order /\ o.till = t /\ o.items = sale[t].items
  BY DEF Order, TypeOK, SaleCall
<1>2. orders \in Seq(Order) /\ orders' = Append(orders, o)
  BY DEF TypeOK, Sells
<1>3. Len(orders) \in Nat /\ DOMAIN orders = 1..Len(orders)
  BY <1>2, LenProperties
<1> HIDE DEF o
<1>4. /\ Len(orders') = Len(orders) + 1
      /\ DOMAIN orders' = 1..(Len(orders) + 1)
      /\ \A i \in 1..Len(orders) : orders'[i] = orders[i]
      /\ orders'[Len(orders) + 1] = o
  BY <1>1, <1>2, <1>3, AppendProperties, LenProperties
<1>5. ASSUME NEW S, NEW p
      PROVE  /\ \A n \in 0..Len(orders) : Sold(orders', S, p, n) = Sold(orders, S, p, n)
             /\ Sold(orders', S, p, Len(orders) + 1)
                  = Sold(orders, S, p, Len(orders))
                    + (IF t \in S THEN Pieces(sale[t].items, p) ELSE 0)
             /\ Sold(orders, S, p, Len(orders)) \in Nat
  BY <1>1, <1>2, <1>3, SoldAppend, SoldGrows
<1> QED BY <1>3, <1>4, <1>5 DEF o

LEMMA SellingKeepsSales ==
  ASSUME TypeOK, SaleInv, NEW t \in Tills, SaveOrderLocal(t), Sells(t)
  PROVE  SaleInv'
<1> DEFINE L == Len(orders)
           items == sale[t].items
<1>1. PICK s \in SaleCall :
        /\ s.stage = "done" /\ s.items = items /\ s.told = sale[t].told
        /\ s.id = L + 1
        /\ s.newStock = [p \in DOMAIN items |-> stock[p] - items[p]]
        /\ sale' = [sale EXCEPT ![t] = s]
  BY DEF Sells
<1>2. /\ sale[t].stage = "sent"
      /\ UNCHANGED <<orderItems, savingOrder, showSuccessModal, ordersLocal, rung, adrift,
                     touched>>
  BY SaveEffect
<1>3. sale'[t] = s /\ \A u \in Tills \ {t} : sale'[u] = sale[u]
  BY <1>1 DEF TypeOK
<1>4. /\ L \in Nat /\ DOMAIN orders = 1..L /\ DOMAIN orders' = 1..(L + 1)
      /\ Len(orders') = L + 1
      /\ \A i \in DOMAIN orders : orders'[i] = orders[i]
      /\ orders'[L + 1] = [till |-> t, items |-> items]
  BY SellsEffect
<1>5. /\ \A S, p : \A n \in 0..L : Sold(orders', S, p, n) = Sold(orders, S, p, n)
      /\ \A S, p : Sold(orders', S, p, L + 1)
                     = Sold(orders, S, p, L) + (IF t \in S THEN Pieces(items, p) ELSE 0)
      /\ \A S, p : Sold(orders, S, p, L) \in Nat
  BY SellsEffect
<1>6. items \in Amounts /\ DOMAIN items \in SUBSET Products
  BY AmountsAre DEF TypeOK, SaleCall
<1> HIDE DEF items, L
<1>7. \A p : Pieces(items, p) \in Nat
  BY <1>6, PiecesType
<1>8. stock' = [p \in Products |-> stock[p] - Pieces(items, p)]
  BY DEF Sells, items
<1>9. \A p \in Products : /\ stock[p] \in Nat /\ InitialStock[p] \in Nat
                          /\ stock[p] + Sold(orders, Tills, p, L) = InitialStock[p]
  BY CashScreenAssumption DEF TypeOK, SaleInv, StockLedger, L
<1>10. \A p \in Products :
         Sold(orders', Tills, p, L + 1) = Sold(orders, Tills, p, L) + Pieces(items, p)
  BY <1>5
<1>11. StockLedger'
  <2> SUFFICES ASSUME NEW p \in Products
               PROVE  stock'[p] + Sold(orders', Tills, p, Len(orders')) = InitialStock[p]
    BY DEF StockLedger
  <2>1. stock'[p] = stock[p] - Pieces(items, p)
    BY <1>8
  <2> QED BY <2>1, <1>4, <1>5, <1>7, <1>9, <1>10
<1>12. OneSale' /\ ItemsTold'
  BY <1>1, <1>2, <1>3 DEF SaleInv, OneSale, ItemsTold
<1>13. SaleTold' /\ SentAsShown'
  BY <1>1, <1>2, <1>3 DEF SaleInv, SaleTold, SentAsShown, items
<1>14. \A u \in Tills : \A k \in DOMAIN ordersLocal[u] :
         /\ ordersLocal[u][k].id \in DOMAIN orders
         /\ ordersLocal[u][k].id \in 1..L
         /\ orders'[ordersLocal[u][k].id] = orders[ordersLocal[u][k].id]
  BY <1>4 DEF SaleInv, RecordsAreOrders
<1>15. RecordsAreOrders'
  BY <1>2, <1>4, <1>14 DEF SaleInv, RecordsAreOrders
<1>16. DoneIsOrder'
  <2> SUFFICES ASSUME NEW u \in Tills, sale'[u].stage = "done"
               PROVE  /\ sale'[u].id \in DOMAIN orders'
                      /\ orders'[sale'[u].id].till = u
                      /\ orders'[sale'[u].id].items = sale'[u].items
                      /\ DOMAIN sale'[u].newStock = DOMAIN sale'[u].items
                      /\ \A p \in DOMAIN sale'[u].items :
                           sale'[u].newStock[p] + Sold(orders', Tills, p, sale'[u].id)
                             = InitialStock[p]
                      /\ \A k \in DOMAIN ordersLocal'[u] :
                           ordersLocal'[u][k].id < sale'[u].id
    BY DEF DoneIsOrder
  <2>1. CASE u = t
    <3>1. /\ sale'[u].id = L + 1 /\ sale'[u].items = items
          /\ sale'[u].newStock = [p \in DOMAIN items |-> stock[p] - items[p]]
      BY <2>1, <1>1, <1>3
    <3>2. ASSUME NEW p \in DOMAIN items
          PROVE  stock[p] - items[p] + Sold(orders', Tills, p, L + 1) = InitialStock[p]
      <4>1. p \in Products /\ Pieces(items, p) = items[p]
        BY <1>6 DEF Pieces
      <4> QED BY <4>1, <1>5, <1>7, <1>9, <1>10
    <3>3. \A k \in DOMAIN ordersLocal'[u] : ordersLocal'[u][k].id < L + 1
      BY <1>2, <1>4, <1>14
    <3> QED BY <3>1, <3>2, <3>3, <2>1, <1>4
  <2>2. CASE u # t
    <3>1. /\ sale'[u] = sale[u] /\ sale[u].stage = "done" /\ sale[u].id \in DOMAIN orders
          /\ \A p \in DOMAIN sale[u].items :
               sale[u].newStock[p] + Sold(orders, Tills, p, sale[u].id) = InitialStock[p]
      BY <2>2, <1>3 DEF SaleInv, DoneIsOrder
    <3>2. sale[u].id \in 0..L /\ sale[u].id \in 1..(L + 1)
      BY <3>1, <1>4
    <3>3. \A p : Sold(orders', Tills, p, sale[u].id) = Sold(orders, Tills, p, sale[u].id)
      BY <3>2, <1>5
    <3> QED BY <3>1, <3>2, <3>3, <1>2, <1>4 DEF SaleInv, DoneIsOrder
  <2> QED BY <2>1, <2>2
<1>17. OrdersRecorded'
  <2> SUFFICES ASSUME NEW i \in DOMAIN orders'
               PROVE  \/ \E k \in DOMAIN ordersLocal'[orders'[i].till] :
                           ordersLocal'[orders'[i].till][k].id = i
                      \/ adrift'[orders'[i].till]
                      \/ /\ sale'[orders'[i].till].stage = "done"
                         /\ sale'[orders'[i].till].id = i
    BY DEF OrdersRecorded
  <2>1. CASE i = L + 1
    BY <2>1, <1>1, <1>3, <1>4
  <2>2. CASE i # L + 1
    <3>1. i \in DOMAIN orders
      BY <2>2, <1>4
    <3>2. orders'[i] = orders[i] /\ orders[i].till \in Tills
      BY <3>1, <1>4, OrdersAre
    <3>3. \/ \E k \in DOMAIN ordersLocal[orders[i].till] :
               ordersLocal[orders[i].till][k].id = i
          \/ adrift[orders[i].till]
          \/ /\ sale[orders[i].till].stage = "done"
             /\ sale[orders[i].till].id = i
      BY <3>1 DEF SaleInv, OrdersRecorded
    <3> QED BY <3>2, <3>3, <1>2, <1>3
  <2> QED BY <2>1, <2>2
<1>18. PiecesKept'
  <2> SUFFICES ASSUME NEW u \in Tills, NEW p \in Products, ~adrift'[u]
               PROVE  rung'[u][p]
                        + (IF sale'[u].stage = "done" THEN Pieces(sale'[u].items, p) ELSE 0)
                      = SoldBy(u, p)'
                        + (IF showSuccessModal'[u] THEN 0
                           ELSE Pieces(Quantities(orderItems'[u]), p))
    BY DEF PiecesKept
  <2> DEFINE rest == IF showSuccessModal[u] THEN 0 ELSE Pieces(Quantities(orderItems[u]), p)
  <2>1. rung[u][p]
          + (IF sale[u].stage = "done" THEN Pieces(sale[u].items, p) ELSE 0)
        = SoldBy(u, p) + rest
    BY <1>2 DEF SaleInv, PiecesKept
  <2>2. SoldBy(u, p)' = SoldBy(u, p) + (IF t = u THEN Pieces(items, p) ELSE 0)
    <3>1. t \in {u} <=> t = u
      OBVIOUS
    <3> QED BY <3>1, <1>4, <1>5 DEF SoldBy, L
  <2>3. /\ SoldBy(u, p) \in Nat /\ rest \in Nat /\ rung[u][p] \in Int
        /\ Pieces(sale[u].items, p) \in Nat
    BY <1>5, QuantitiesType, PiecesType DEF SoldBy, L, TypeOK, SaleCall
  <2> HIDE DEF rest
  <2>4. CASE u = t
    <3>1. rung[u][p] + 0 = SoldBy(u, p) + rest
      BY <2>1, <2>4, <1>2
    <3>2. sale'[u].stage = "done" /\ sale'[u].items = items
      BY <2>4, <1>1, <1>3
    <3>3. rung[u][p] + Pieces(items, p) = SoldBy(u, p) + Pieces(items, p) + rest
      BY <3>1, <2>3, <1>7
    <3> QED BY <3>2, <3>3, <2>2, <2>4, <1>2 DEF rest
  <2>5. CASE u # t
    <3>1. sale'[u] = sale[u] /\ SoldBy(u, p)' = SoldBy(u, p)
      BY <2>2, <2>3, <2>5, <1>3
    <3> QED BY <3>1, <2>1, <1>2 DEF rest
  <2> QED BY <2>4, <2>5
<1> QED BY <1>11, <1>12, <1>13, <1>15, <1>16, <1>17, <1>18 DEF SaleInv

(* A record more at the head of those of a till.                           *)
LEMMA RecordAdded ==
  ASSUME NEW old \in Seq(Record), NEW record \in Record
  PROVE  LET new == <<record>> \o old
         IN  /\ new \in Seq(Record)
             /\ 1 \in DOMAIN new /\ new[1] = record
             /\ \A k \in DOMAIN old : k + 1 \in DOMAIN new /\ new[k + 1] = old[k]
             /\ \A k \in DOMAIN new :
                  \/ k = 1
                  \/ k - 1 \in DOMAIN old /\ new[k] = old[k - 1] /\ k \in Int
<1> DEFINE one == <<record>>
           new == one \o old
<1>1. one \in Seq(Record) /\ Len(one) = 1 /\ one[1] = record
  OBVIOUS
<1>2. Len(old) \in Nat /\ DOMAIN old = 1..Len(old)
  BY LenProperties
<1> HIDE DEF one
<1>3. /\ new \in Seq(Record) /\ Len(new) = 1 + Len(old)
      /\ \A i \in 1..(1 + Len(old)) : new[i] = IF i <= 1 THEN one[i] ELSE old[i - 1]
  <2>1. /\ one \o old \in Seq(Record) /\ Len(one \o old) = Len(one) + Len(old)
        /\ \A i \in 1..(Len(one) + Len(old)) :
             (one \o old)[i] = IF i <= Len(one) THEN one[i] ELSE old[i - Len(one)]
    BY <1>1, ConcatProperties
  <2> QED BY <2>1, <1>1
<1>4. DOMAIN new = 1..(1 + Len(old))
  BY <1>3, LenProperties
<1> HIDE DEF new
<1>5. 1 \in DOMAIN new /\ new[1] = record
  BY <1>1, <1>2, <1>3, <1>4
<1>6. ASSUME NEW k \in DOMAIN old PROVE k + 1 \in DOMAIN new /\ new[k + 1] = old[k]
  <2>1. k + 1 \in 1..(1 + Len(old)) /\ ~ (k + 1 <= 1) /\ k + 1 - 1 = k
    BY <1>2
  <2> QED BY <2>1, <1>3, <1>4
<1>7. ASSUME NEW k \in DOMAIN new, k # 1
      PROVE  k - 1 \in DOMAIN old /\ new[k] = old[k - 1] /\ k \in Int
  BY <1>2, <1>3, <1>4, <1>7
<1> QED BY <1>3, <1>5, <1>6, <1>7 DEF new, one

LEMMA ConfirmKeepsSales ==
  ASSUME TypeOK, SharedListed, SaleInv, NEW t \in Tills, ReceiveSale(t)
  PROVE  SaleInv'
<1>1. PICK newList \in Amounts, basket \in Baskets, record \in Record :
        Confirms(t, newList, basket, record)
  BY ConfirmEffect
<1>2. /\ sale[t].stage = "done"
      /\ showSuccessModal' = [showSuccessModal EXCEPT ![t] = TRUE]
      /\ savingOrder' = [savingOrder EXCEPT ![t] = FALSE]
      /\ sale' = [sale EXCEPT ![t] = NoSale]
      /\ adrift' = [adrift EXCEPT ![t] = adrift[t] \/ touched[t]]
      /\ UNCHANGED <<stock, orders, rung, touched>>
  BY ConfirmEffect DEF TypeOK
<1>3. /\ DOMAIN basket = DOMAIN orderItems[t]
      /\ \A p \in DOMAIN basket :
           /\ basket[p].quantity = orderItems[t][p].quantity
           /\ basket[p].told = orderItems[t][p].told
      /\ orderItems' = [orderItems EXCEPT ![t] = basket]
      /\ record.id = sale[t].id
      /\ record.items = Quantities(orderItems[t])
      /\ record.asSent = ~touched[t]
      /\ ordersLocal' = [ordersLocal EXCEPT ![t] = <<record>> \o ordersLocal[t]]
  BY <1>1 DEF Confirms, TypeOK
<1>4. Quantities(basket) = Quantities(orderItems[t])
  BY <1>3, SameQuantities
<1>5. /\ showSuccessModal'[t] = TRUE /\ savingOrder'[t] = FALSE /\ sale'[t] = NoSale
      /\ orderItems'[t] = basket
      /\ ordersLocal'[t] = <<record>> \o ordersLocal[t]
  BY <1>2, <1>3 DEF TypeOK
<1>6. adrift'[t] = (adrift[t] \/ touched[t])
  BY <1>2 DEF TypeOK
<1>7. ASSUME NEW u \in Tills, u # t
      PROVE  /\ showSuccessModal'[u] = showSuccessModal[u]
             /\ savingOrder'[u] = savingOrder[u] /\ sale'[u] = sale[u]
             /\ orderItems'[u] = orderItems[u] /\ adrift'[u] = adrift[u]
             /\ ordersLocal'[u] = ordersLocal[u]
  BY <1>2, <1>3, <1>7 DEF TypeOK
<1>8. NoSale.stage = "none" /\ NoSale.items = None /\ NoSale.told = None
  BY DEF NoSale
<1> HIDE DEF None
<1> DEFINE old == ordersLocal[t]
           new == <<record>> \o old
<1>9. /\ 1 \in DOMAIN new /\ new[1] = record
      /\ \A k \in DOMAIN old : k + 1 \in DOMAIN new /\ new[k + 1] = old[k]
      /\ \A k \in DOMAIN new :
           \/ k = 1
           \/ k - 1 \in DOMAIN old /\ new[k] = old[k - 1] /\ k \in Int
  BY RecordAdded DEF TypeOK
<1>10. ordersLocal'[t] = new
  BY <1>5
<1> HIDE DEF new
<1>11. /\ sale[t].id \in DOMAIN orders /\ orders[sale[t].id].till = t
       /\ orders[sale[t].id].items = sale[t].items
       /\ \A k \in DOMAIN old : old[k].id < sale[t].id
  BY <1>2 DEF SaleInv, DoneIsOrder
<1>12. savingOrder[t] /\ ~showSuccessModal[t]
  BY <1>2 DEF SaleInv, OneSale
<1>13. StockLedger'
  BY <1>2 DEF SaleInv, StockLedger
<1>14. OneSale'
  BY <1>5, <1>7, <1>8 DEF SaleInv, OneSale
<1>15. ItemsTold'
  <2> SUFFICES ASSUME NEW u \in Tills, NEW p \in DOMAIN orderItems'[u]
               PROVE  orderItems'[u][p].quantity <= orderItems'[u][p].told
    BY DEF ItemsTold
  <2>1. CASE u = t
    BY <2>1, <1>3, <1>5 DEF SaleInv, ItemsTold
  <2>2. CASE u # t
    BY <2>2, <1>7 DEF SaleInv, ItemsTold
  <2> QED BY <2>1, <2>2
<1>16. SaleTold'
  BY <1>5, <1>7, <1>8, NoneType DEF SaleInv, SaleTold
<1>17. SentAsShown'
  BY <1>2, <1>5, <1>7 DEF SaleInv, SentAsShown
<1>18. DoneIsOrder'
  BY <1>2, <1>5, <1>7, <1>8 DEF SaleInv, DoneIsOrder
<1>19. RecordsAreOrders'
  <2> SUFFICES ASSUME NEW u \in Tills, NEW k \in DOMAIN ordersLocal'[u]
               PROVE  /\ ordersLocal'[u][k].id \in DOMAIN orders
                      /\ orders[ordersLocal'[u][k].id].till = u
                      /\ ordersLocal'[u][k].asSent =>
                           ordersLocal'[u][k].items = orders[ordersLocal'[u][k].id].items
                      /\ \A l \in DOMAIN ordersLocal'[u] :
                           ordersLocal'[u][k].id = ordersLocal'[u][l].id => k = l
    BY <1>2 DEF RecordsAreOrders
  <2>1. CASE u # t
    BY <2>1, <1>7 DEF SaleInv, RecordsAreOrders
  <2>2. CASE u = t
    <3>1. /\ record.id \in DOMAIN orders /\ orders[record.id].till = t
          /\ record.asSent => record.items = orders[record.id].items
      BY <1>3, <1>11, <1>12 DEF SaleInv, SentAsShown
    <3>2. \A j \in DOMAIN old :
            /\ old[j].id \in DOMAIN orders
            /\ orders[old[j].id].till = t
            /\ old[j].asSent => old[j].items = orders[old[j].id].items
            /\ \A l \in DOMAIN old : old[j].id = old[l].id => j = l
      BY DEF SaleInv, RecordsAreOrders
    <3>3. \A j \in DOMAIN old : old[j].id # record.id
      <4>1. DOMAIN orders \subseteq Nat
        BY OrdersAre
      <4>2. \A j \in DOMAIN old : old[j].id \in Nat /\ record.id \in Nat
        BY <3>1, <3>2, <4>1
      <4> QED BY <4>2, <1>3, <1>11
    <3>4. /\ new[k].id \in DOMAIN orders
          /\ orders[new[k].id].till = t
          /\ new[k].asSent => new[k].items = orders[new[k].id].items
      BY <3>1, <3>2, <2>2, <1>9, <1>10
    <3>5. ASSUME NEW l \in DOMAIN new, new[k].id = new[l].id PROVE k = l
      <4>1. k \in DOMAIN new
        BY <2>2, <1>10
      <4>2. CASE k = 1
        BY <4>2, <3>3, <3>5, <1>9
      <4>3. CASE l = 1
        BY <4>1, <4>3, <3>3, <3>5, <1>9
      <4>4. CASE k # 1 /\ l # 1
        <5>1. /\ k - 1 \in DOMAIN old /\ new[k] = old[k - 1] /\ k \in Int
              /\ l - 1 \in DOMAIN old /\ new[l] = old[l - 1] /\ l \in Int
          BY <4>1, <4>4, <1>9
        <5>2. k - 1 = l - 1
          BY <5>1, <3>2, <3>5
        <5> QED BY <5>1, <5>2
      <4> QED BY <4>2, <4>3, <4>4
    <3> QED BY <3>4, <3>5, <2>2, <1>10
  <2> QED BY <2>1, <2>2
<1>20. OrdersRecorded'
  <2> SUFFICES ASSUME NEW i \in DOMAIN orders
               PROVE  \/ \E k \in DOMAIN ordersLocal'[orders[i].till] :
                           ordersLocal'[orders[i].till][k].id = i
                      \/ adrift'[orders[i].till]
                      \/ /\ sale'[orders[i].till].stage = "done"
                         /\ sale'[orders[i].till].id = i
    BY <1>2 DEF OrdersRecorded
  <2>1. \/ \E k \in DOMAIN ordersLocal[orders[i].till] :
             ordersLocal[orders[i].till][k].id = i
        \/ adrift[orders[i].till]
        \/ /\ sale[orders[i].till].stage = "done"
           /\ sale[orders[i].till].id = i
    BY DEF SaleInv, OrdersRecorded
  <2>2. orders[i].till \in Tills
    BY OrdersAre
  <2>3. CASE orders[i].till # t
    BY <2>1, <2>2, <2>3, <1>7
  <2>4. CASE orders[i].till = t
    <3>1. CASE \E k \in DOMAIN old : old[k].id = i
      BY <3>1, <2>4, <1>9, <1>10
    <3>2. CASE adrift[t]
      BY <3>2, <2>4, <1>6
    <3>3. CASE sale[t].id = i
      <4>1. 1 \in DOMAIN ordersLocal'[t] /\ ordersLocal'[t][1].id = i
        BY <3>3, <1>3, <1>9, <1>10
      <4> QED BY <4>1, <2>4
    <3> QED BY <3>1, <3>2, <3>3, <2>1, <2>4
  <2> QED BY <2>3, <2>4
<1>21. PiecesKept'
  <2> SUFFICES ASSUME NEW u \in Tills, NEW p \in Products, ~adrift'[u]
               PROVE  rung'[u][p]
                        + (IF sale'[u].stage = "done" THEN Pieces(sale'[u].items, p) ELSE 0)
                      = SoldBy(u, p)'
                        + (IF showSuccessModal'[u] THEN 0
                           ELSE Pieces(Quantities(orderItems'[u]), p))
    BY DEF PiecesKept
  <2>1. SoldBy(u, p)' = SoldBy(u, p) /\ rung'[u][p] = rung[u][p]
    BY <1>2 DEF SoldBy
  <2>2. CASE u # t
    <3>1. ~adrift[u]
      BY <2>2, <1>7
    <3> QED BY <3>1, <2>1, <2>2, <1>7 DEF SaleInv, PiecesKept
  <2>3. CASE u = t
    <3>1. ~adrift[t] /\ ~touched[t]
      BY <2>3, <1>6
    <3>2. rung[t][p] + Pieces(sale[t].items, p)
            = SoldBy(t, p) + Pieces(Quantities(orderItems[t]), p)
      BY <3>1, <1>2, <1>12 DEF SaleInv, PiecesKept
    <3>3. Quantities(orderItems[t]) = sale[t].items
      BY <3>1, <1>12 DEF SaleInv, SentAsShown
    <3>4. rung[t][p] \in Int /\ Pieces(sale[t].items, p) \in Nat
      BY PiecesType DEF TypeOK, SaleCall
    <3>5. SoldBy(t, p) \in Nat
      BY SoldGrows, LenProperties DEF SoldBy, TypeOK
    <3>6. rung[t][p] = SoldBy(t, p)
      BY <3>2, <3>3, <3>4, <3>5
    <3> QED BY <3>4, <3>5, <3>6, <2>1, <2>3, <1>5, <1>8
  <2> QED BY <2>2, <2>3
<1> QED BY <1>13, <1>14, <1>15, <1>16, <1>17, <1>18, <1>19, <1>20, <1>21 DEF SaleInv

LEMMA FailsKeepsSales ==
  ASSUME TypeOK, SaleInv, NEW t \in Tills, SaleFails(t)
  PROVE  SaleInv'
<1>1. /\ sale' = [sale EXCEPT ![t] = NoSale]
      /\ savingOrder' = [savingOrder EXCEPT ![t] = FALSE]
      /\ adrift' = [adrift EXCEPT ![t] = adrift[t] \/ sale[t].stage = "done"]
  BY DEF SaleFails, TypeOK
<1>2. UNCHANGED <<stock, orders, orderItems, showSuccessModal, ordersLocal, rung, touched>>
  BY DEF SaleFails, screens
<1>3. sale'[t] = NoSale /\ savingOrder'[t] = FALSE
  BY <1>1 DEF TypeOK
<1>4. adrift'[t] <=> adrift[t] \/ sale[t].stage = "done"
  BY <1>1 DEF TypeOK
<1>5. ASSUME NEW u \in Tills, u # t
      PROVE  sale'[u] = sale[u] /\ savingOrder'[u] = savingOrder[u] /\ adrift'[u] = adrift[u]
  BY <1>1, <1>5 DEF TypeOK
<1>6. NoSale.stage = "none" /\ NoSale.items = None /\ NoSale.told = None
  BY DEF NoSale
<1> HIDE DEF None
<1>7. StockLedger' /\ ItemsTold' /\ RecordsAreOrders'
  BY <1>2 DEF SaleInv, StockLedger, ItemsTold, RecordsAreOrders
<1>8. OneSale'
  BY <1>2, <1>3, <1>5, <1>6 DEF SaleInv, OneSale
<1>9. SaleTold'
  BY <1>3, <1>5, <1>6, NoneType DEF SaleInv, SaleTold
<1>10. SentAsShown'
  BY <1>2, <1>3, <1>5 DEF SaleInv, SentAsShown
<1>11. DoneIsOrder'
  BY <1>2, <1>3, <1>5, <1>6 DEF SaleInv, DoneIsOrder
<1>12. OrdersRecorded'
  <2>1. \A i \in DOMAIN orders : orders[i].till \in Tills
    BY OrdersAre
  <2> QED BY <2>1, <1>2, <1>4, <1>5 DEF SaleInv, OrdersRecorded
<1>13. PiecesKept'
  <2> SUFFICES ASSUME NEW u \in Tills, NEW p \in Products, ~adrift'[u]
               PROVE  rung'[u][p]
                        + (IF sale'[u].stage = "done" THEN Pieces(sale'[u].items, p) ELSE 0)
                      = SoldBy(u, p)'
                        + (IF showSuccessModal'[u] THEN 0
                           ELSE Pieces(Quantities(orderItems'[u]), p))
    BY DEF PiecesKept
  <2>1. SoldBy(u, p)' = SoldBy(u, p)
    BY <1>2 DEF SoldBy
  <2>2. ~adrift[u]
    BY <1>4, <1>5
  <2>3. (IF sale'[u].stage = "done" THEN Pieces(sale'[u].items, p) ELSE 0)
          = IF sale[u].stage = "done" THEN Pieces(sale[u].items, p) ELSE 0
    BY <1>3, <1>4, <1>5, <1>6
  <2> QED BY <2>1, <2>2, <2>3, <1>2 DEF SaleInv, PiecesKept
<1> QED BY <1>7, <1>8, <1>9, <1>10, <1>11, <1>12, <1>13 DEF SaleInv

LEMMA CloseKeepsSales ==
  ASSUME TypeOK, SaleInv, NEW t \in Tills, CloseSuccessModal(t)
  PROVE  SaleInv'
<1> HIDE DEF None
<1>1. /\ showSuccessModal[t]
      /\ showSuccessModal' = [showSuccessModal EXCEPT ![t] = FALSE]
      /\ orderItems' = [orderItems EXCEPT ![t] = None]
  BY DEF CloseSuccessModal, NewBasket
<1>2. UNCHANGED <<stock, orders, savingOrder, ordersLocal, sale, rung, touched, adrift>>
  BY DEF CloseSuccessModal, calls
<1>3. showSuccessModal'[t] = FALSE /\ orderItems'[t] = None
  BY <1>1 DEF TypeOK
<1>4. ASSUME NEW u \in Tills, u # t
      PROVE  showSuccessModal'[u] = showSuccessModal[u] /\ orderItems'[u] = orderItems[u]
  BY <1>1, <1>4 DEF TypeOK
<1>5. ~savingOrder[t] /\ sale[t].stage = "none"
  BY <1>1 DEF SaleInv, OneSale
<1>6. StockLedger' /\ SaleTold' /\ DoneIsOrder' /\ RecordsAreOrders'
  BY <1>2 DEF SaleInv, StockLedger, SaleTold, DoneIsOrder, RecordsAreOrders
<1>7. OrdersRecorded'
  BY <1>2 DEF SaleInv, OrdersRecorded
<1>8. OneSale'
  BY <1>2, <1>3, <1>4 DEF SaleInv, OneSale
<1>9. ItemsTold'
  BY <1>3, <1>4, NoneType DEF SaleInv, ItemsTold
<1>10. SentAsShown'
  BY <1>2, <1>4, <1>5 DEF SaleInv, SentAsShown
<1>11. PiecesKept'
  <2> SUFFICES ASSUME NEW u \in Tills, NEW p \in Products, ~adrift'[u]
               PROVE  rung'[u][p]
                        + (IF sale'[u].stage = "done" THEN Pieces(sale'[u].items, p) ELSE 0)
                      = SoldBy(u, p)'
                        + (IF showSuccessModal'[u] THEN 0
                           ELSE Pieces(Quantities(orderItems'[u]), p))
    BY DEF PiecesKept
  <2>1. SoldBy(u, p)' = SoldBy(u, p)
    BY <1>2 DEF SoldBy
  <2>2. (IF showSuccessModal'[u] THEN 0 ELSE Pieces(Quantities(orderItems'[u]), p))
          = IF showSuccessModal[u] THEN 0 ELSE Pieces(Quantities(orderItems[u]), p)
    BY <1>1, <1>3, <1>4, NothingIn
  <2> QED BY <2>1, <2>2, <1>2 DEF SaleInv, PiecesKept
<1> QED BY <1>6, <1>7, <1>8, <1>9, <1>10, <1>11 DEF SaleInv

LEMMA UnchangedKeepsSales ==
  ASSUME SaleInv, UNCHANGED vars
  PROVE  SaleInv'
<1>1. Quiet
  BY DEF vars, screens, flags, calls, Quiet
<1> QED BY <1>1, QuietKeepsSales

LEMMA SaleInvCorrect == Spec => []SaleInv
<1>1. TypeOK /\ SharedListed /\ SaleInv /\ [Next]_vars => SaleInv'
  <2> SUFFICES ASSUME TypeOK, SharedListed, SaleInv, [Next]_vars PROVE SaleInv'
    OBVIOUS
  <2>1. ASSUME NEW t \in Tills, LoadStep(t) PROVE SaleInv'
    BY <2>1, LoadsQuiet, QuietKeepsSales
  <2>2. ASSUME NEW t \in Tills, BasketStep(t) PROVE SaleInv'
    BY <2>2, BasketStepChanges, BasketKeepsSales
  <2>3. ASSUME NEW t \in Tills, SaleStep(t) PROVE SaleInv'
    <3>1. CASE SaveOrderLocal(t)
      BY <3>1, SaveEffect, SellingKeepsSales, RefusalKeepsSales
    <3>2. CASE ~SaveOrderLocal(t)
      BY <2>3, <3>2, FinalizeKeepsSales, ConfirmKeepsSales, FailsKeepsSales, CloseKeepsSales
         DEF SaleStep
    <3> QED BY <3>1, <3>2
  <2>4. CASE UNCHANGED vars
    BY <2>4, UnchangedKeepsSales
  <2> QED BY <2>1, <2>2, <2>3, <2>4 DEF Next
<1> QED BY <1>1, InitSales, TypeCorrect, PTL DEF Spec

(* What a cashier rings up is sold once, unless the till lost the answer   *)
(* to a sale made (finalizeOrder of CaisseLocalePage.vue) or changed its   *)
(* basket under it.                                                        *)
THEOREM RungUpSoldOnce == Spec => []PiecesAccounted
<1>1. TypeOK /\ SaleInv => PiecesAccounted
  <2> SUFFICES ASSUME TypeOK, SaleInv, NEW t \in Tills, NEW p \in Products,
                      ~adrift[t], ~touched[t]
               PROVE  rung[t][p] = SoldBy(t, p) +
                        IF sale[t].stage = "done" \/ showSuccessModal[t] THEN 0
                        ELSE Pieces(Quantities(orderItems[t]), p)
    BY DEF PiecesAccounted
  <2>1. rung[t][p]
          + (IF sale[t].stage = "done" THEN Pieces(sale[t].items, p) ELSE 0)
        = SoldBy(t, p)
          + (IF showSuccessModal[t] THEN 0 ELSE Pieces(Quantities(orderItems[t]), p))
    BY DEF SaleInv, PiecesKept
  <2>2. /\ rung[t][p] \in Int /\ Pieces(sale[t].items, p) \in Nat
        /\ Pieces(Quantities(orderItems[t]), p) \in Nat
    BY QuantitiesType, PiecesType DEF TypeOK, SaleCall
  <2>3. SoldBy(t, p) \in Nat
    BY SoldGrows, LenProperties DEF SoldBy, TypeOK
  <2>4. CASE sale[t].stage = "done"
    <3>1. savingOrder[t] /\ ~showSuccessModal[t]
      BY <2>4 DEF SaleInv, OneSale
    <3>2. Quantities(orderItems[t]) = sale[t].items
      BY <3>1 DEF SaleInv, SentAsShown
    <3> QED BY <3>1, <3>2, <2>1, <2>2, <2>3, <2>4
  <2>5. CASE sale[t].stage # "done"
    BY <2>1, <2>2, <2>3, <2>5
  <2> QED BY <2>4, <2>5
<1> QED BY <1>1, TypeCorrect, SaleInvCorrect, PTL

(* Every sale made is in orders_local of its till once, or its answer is   *)
(* on the way or was lost, and the record has what was sold unless the     *)
(* basket was changed meanwhile.                                           *)
THEOREM SalesAlwaysRecorded == Spec => []SalesRecorded
<1>1. TypeOK /\ SaleInv => SalesRecorded
  <2> SUFFICES ASSUME TypeOK, SaleInv PROVE SalesRecorded
    OBVIOUS
  <2>1. ASSUME NEW i \in DOMAIN orders, NEW t, t = orders[i].till
        PROVE  LET n == Cardinality({k \in DOMAIN ordersLocal[t] : ordersLocal[t][k].id = i})
               IN  \/ n = 1
                   \/ n = 0 /\ (adrift[t] \/ (sale[t].stage = "done" /\ sale[t].id = i))
    <3> DEFINE K == {k \in DOMAIN ordersLocal[t] : ordersLocal[t][k].id = i}
    <3>1. t \in Tills
      BY <2>1, OrdersAre
    <3>2. CASE K = {}
      <4>1. Cardinality(K) = 0
        BY <3>2, FS_EmptySet
      <4>2. adrift[t] \/ (sale[t].stage = "done" /\ sale[t].id = i)
        BY <3>2, <2>1 DEF SaleInv, OrdersRecorded
      <4> QED BY <4>1, <4>2
    <3>3. CASE K # {}
      <4>1. PICK k \in K : TRUE
        BY <3>3
      <4>2. \A l \in K : k = l
        BY <4>1, <3>1 DEF SaleInv, RecordsAreOrders
      <4>3. K = {k}
        BY <4>1, <4>2
      <4>4. Cardinality(K) = 1
        BY <4>3, FS_Singleton
      <4> QED BY <4>4
    <3> QED BY <3>2, <3>3
  <2>2. ASSUME NEW t \in Tills, NEW r \in ToSet(ordersLocal[t]), r.asSent
        PROVE  r.items = orders[r.id].items
    <3>1. PICK k \in DOMAIN ordersLocal[t] : r = ordersLocal[t][k]
      BY DEF ToSet
    <3> QED BY <3>1, <2>2 DEF SaleInv, RecordsAreOrders
  <2> QED BY <2>1, <2>2 DEF SalesRecorded
<1> QED BY <1>1, TypeCorrect, SaleInvCorrect, PTL

(* The server refuses a sale (the stock_errors of saveOrderLocal) only     *)
(* when the stock of a product it names moved after the till was shown the *)
(* copy that let its last piece in.                                        *)
THEOREM RefusalsAreDue == Spec => RefusedOnlyIfMoved
<1>1. TypeOK /\ SharedListed /\ SaleInv /\ [Next]_vars =>
        [\A t \in Tills : sale[t].stage = "sent" /\ sale'[t].stage = "refused" =>
           \E p \in DOMAIN sale[t].items : sale[t].told[p] > stock[p]]_vars
  <2> SUFFICES ASSUME TypeOK, SharedListed, SaleInv, [Next]_vars,
                      NEW t \in Tills, sale[t].stage = "sent", sale'[t].stage = "refused"
               PROVE  \E p \in DOMAIN sale[t].items : sale[t].told[p] > stock[p]
    OBVIOUS
  <2>1. sale'[t] # sale[t]
    OBVIOUS
  <2>2. PICK u \in Tills : LoadStep(u) \/ BasketStep(u) \/ SaleStep(u)
    BY <2>1 DEF Next, vars, calls
  <2>3. SaleStep(u)
    BY <2>1, <2>2, LoadsQuiet, BasketStepChanges DEF Quiet, BasketChange
  <2>4. SaveOrderLocal(t)
    <3>1. CASE FinalizeOrder(u)
      <4>1. PICK s \in SaleCall : s.stage = "sent" /\ sale' = [sale EXCEPT ![u] = s]
        BY <3>1, FinalizeEffect
      <4> QED BY <4>1 DEF TypeOK
    <3>2. CASE ReceiveSale(u) \/ SaleFails(u)
      <4>1. sale' = [sale EXCEPT ![u] = NoSale]
        BY <3>2 DEF ReceiveSale, SaleFails
      <4>2. NoSale.stage = "none"
        BY DEF NoSale
      <4> QED BY <4>1, <4>2 DEF TypeOK
    <3>3. CASE CloseSuccessModal(u)
      BY <3>3, <2>1 DEF CloseSuccessModal, calls
    <3>4. CASE SaveOrderLocal(u)
      <4>1. \E s \in SaleCall : sale' = [sale EXCEPT ![u] = s]
        BY <3>4, SaveEffect DEF Sells, Refuses
      <4>2. u = t
        BY <4>1, <2>1 DEF TypeOK
      <4> QED BY <4>2, <3>4
    <3> QED BY <3>1, <3>2, <3>3, <3>4, <2>3 DEF SaleStep
  <2>5. Refuses(t)
    <3>1. CASE Sells(t)
      BY <3>1 DEF Sells, TypeOK
    <3> QED BY <3>1, <2>4, SaveEffect
  <2>6. PICK p \in DOMAIN sale[t].items : stock[p] < sale[t].items[p]
    BY <2>5 DEF Refuses
  <2>7. sale[t].items[p] <= sale[t].told[p] /\ p \in DOMAIN sale[t].told
    BY DEF SaleInv, SaleTold
  <2>8. /\ sale[t].items[p] \in Nat /\ sale[t].told[p] \in Nat
        /\ p \in Products /\ stock[p] \in Nat
    BY <2>6, <2>7, AmountsAre DEF TypeOK, SaleCall
  <2> QED BY <2>6, <2>7, <2>8
<1> QED BY <1>1, TypeCorrect, SaleInvCorrect, PTL DEF Spec, RefusedOnlyIfMoved

-----------------------------------------------------------------------------
(* What the lists show.                                                    *)

LEMMA InitLists == Init => ListInv
BY DEF Init, ListInv, LoadsReadOwnSales, ListsReadOwnSales

(* The list shown and the loads of the other tills are left alone.         *)
LEMMA ListsKept ==
  ASSUME ListInv, UNCHANGED <<orders, ordersLocal, products, load, behind>>
  PROVE  ListInv'
<1>1. LoadsReadOwnSales'
  BY DEF ListInv, LoadsReadOwnSales, AtMostLeft
<1>2. ListsReadOwnSales'
  BY DEF ListInv, ListsReadOwnSales, AtMostLeft
<1> QED BY <1>1, <1>2 DEF ListInv

(* What the stock is at is no more than what any of the sales left.        *)
LEMMA StockAtMostLeft ==
  ASSUME TypeOK, SaleInv, NEW p \in Products, NEW i \in DOMAIN orders
  PROVE  AtMostLeft(stock[p], p, i)
<1>1. i \in Nat /\ i <= Len(orders) /\ Len(orders) \in Nat
  BY OrdersAre
<1>2. /\ Sold(orders, Tills, p, i) \in Nat
      /\ Sold(orders, Tills, p, Len(orders)) \in Nat
      /\ Sold(orders, Tills, p, i) <= Sold(orders, Tills, p, Len(orders))
  BY <1>1, SoldGrows DEF TypeOK
<1>3. stock[p] + Sold(orders, Tills, p, Len(orders)) = InitialStock[p] /\ stock[p] \in Nat
  BY DEF SaleInv, StockLedger, TypeOK
<1> QED BY <1>2, <1>3 DEF AtMostLeft

(* Loads that have brought nothing, or the whole of the shop as it is.     *)
LEMMA LoadMoves ==
  ASSUME TypeOK, SharedListed, SaleInv, ListInv, NEW t \in Tills, NEW c,
         load' = [load EXCEPT ![t] = c],
         c.stage = "done" /\ ~c.crossed =>
           \A p \in DOMAIN c.rows : p \in Products /\ c.rows[p] = stock[p],
         UNCHANGED <<orders, ordersLocal>>
  PROVE  LoadsReadOwnSales'
<1> SUFFICES ASSUME NEW u \in Tills, load'[u].stage = "done", ~load'[u].crossed,
                    NEW k \in DOMAIN ordersLocal[u], NEW p \in DOMAIN load'[u].rows
             PROVE  load'[u].rows[p] + Sold(orders, Tills, p, ordersLocal[u][k].id)
                      <= InitialStock[p]
  BY DEF LoadsReadOwnSales, AtMostLeft
<1>1. CASE u = t
  <2>1. load'[u] = c
    BY <1>1 DEF TypeOK
  <2>2. p \in Products /\ load'[u].rows[p] = stock[p]
    BY <2>1
  <2>3. ordersLocal[u][k].id \in DOMAIN orders
    BY DEF SaleInv, RecordsAreOrders
  <2> QED BY <2>2, <2>3, StockAtMostLeft DEF AtMostLeft
<1>2. CASE u # t
  <2>1. load'[u] = load[u]
    BY <1>2 DEF TypeOK
  <2> QED BY <2>1 DEF ListInv, LoadsReadOwnSales, AtMostLeft
<1> QED BY <1>1, <1>2

LEMMA LoadKeepsLists ==
  ASSUME TypeOK, SharedListed, SaleInv, ListInv, NEW t \in Tills, LoadStep(t)
  PROVE  ListInv'
<1>1. ASSUME ~ReceiveProducts(t) PROVE ListInv'
  <2>1. UNCHANGED <<orders, ordersLocal, products, behind>>
    BY <1>1 DEF LoadStep, FetchProducts, SelectImage, ClearImageSearch, ReadProducts,
                ReceiveImages, LoseProducts, screens, calls
  <2>2. ListsReadOwnSales'
    BY <2>1 DEF ListInv, ListsReadOwnSales, AtMostLeft
  <2>3. CASE load' = load
    BY <2>1, <2>3, ListsKept
  <2>4. CASE load' # load
    <3>1. PICK c : /\ load' = [load EXCEPT ![t] = c]
                   /\ \/ c.stage = "sent"
                      \/ c = NoLoad
                      \/ c = Answered(load[t])
      <4>1. ASSUME NEW append \in BOOLEAN, NEW wanted \in Found,
                   FetchProducts(t, append, wanted)
            PROVE  \E c : load' = [load EXCEPT ![t] = c] /\ c.stage = "sent"
        <5> DEFINE c == [NoLoad EXCEPT !.stage = "sent", !.append = append,
                           !.wanted = wanted]
        <5>1. load' = [load EXCEPT ![t] = c] /\ c.stage = "sent"
          BY <4>1 DEF FetchProducts, NoLoad
        <5> QED BY <5>1
      <4>2. CASE ReadProducts(t)
        BY <2>4, <4>2 DEF ReadProducts
      <4>3. CASE LoseProducts(t)
        BY <2>4, <4>3 DEF LoseProducts
      <4> QED BY <4>1, <4>2, <4>3, <2>4, <1>1
              DEF LoadStep, SelectImage, ClearImageSearch, ReceiveImages, calls
    <3>2. c.stage = "done" /\ ~c.crossed =>
            \A p \in DOMAIN c.rows : p \in Products /\ c.rows[p] = stock[p]
      <4>1. CASE c = Answered(load[t])
        <5>1. c.rows = [p \in load[t].wanted |-> stock[p]] /\ load[t].wanted \subseteq Products
          BY <4>1, AnsweredType DEF TypeOK, LoadCall
        <5> QED BY <5>1
      <4>2. CASE c = NoLoad
        BY <4>2 DEF NoLoad
      <4> QED BY <4>1, <4>2, <3>1
    <3>3. LoadsReadOwnSales'
      BY <2>1, <3>1, <3>2, LoadMoves
    <3> QED BY <2>2, <3>3 DEF ListInv
  <2> QED BY <2>3, <2>4
<1>2. ASSUME ReceiveProducts(t) PROVE ListInv'
  <2>1. PICK kept \in Amounts, newList \in Amounts, basket \in Baskets :
          Brings(t, kept, newList, basket)
    BY <1>2, ReceiveEffect
  <2>2. UNCHANGED <<orders, ordersLocal>>
    BY <1>2 DEF ReceiveProducts
  <2>3. LoadsReadOwnSales'
    <3>1. load' = [load EXCEPT ![t] = NoLoad] /\ NoLoad.stage = "none"
      BY <2>1 DEF Brings, NoLoad
    <3> QED BY <2>2, <3>1, LoadMoves
  <2>4. ListsReadOwnSales'
    <3> SUFFICES ASSUME NEW u \in Tills, NEW k \in DOMAIN ordersLocal[u],
                        NEW p \in DOMAIN products'[u],
                        p \notin behind'[u],
                        p \in DOMAIN orders[ordersLocal[u][k].id].items
                 PROVE  products'[u][p] + Sold(orders, Tills, p, ordersLocal[u][k].id)
                          <= InitialStock[p]
      BY <2>2 DEF ListsReadOwnSales, AtMostLeft
    <3>1. /\ products' = [products EXCEPT ![t] = newList]
          /\ behind' = [behind EXCEPT ![t] = (behind[t] \cap DOMAIN kept) \cup
                          (IF load[t].crossed THEN DOMAIN load[t].rows ELSE {})]
      BY <2>1 DEF Brings, TypeOK
    <3>2. CASE u # t
      <4>1. products'[u] = products[u] /\ behind'[u] = behind[u]
        BY <3>1, <3>2 DEF TypeOK
      <4> QED BY <4>1 DEF ListInv, ListsReadOwnSales, AtMostLeft
    <3>3. CASE u = t
      <4>1. /\ products'[u] = newList
            /\ behind'[u] = (behind[t] \cap DOMAIN kept) \cup
                              (IF load[t].crossed THEN DOMAIN load[t].rows ELSE {})
        BY <3>1, <3>3 DEF TypeOK
      <4>2. CASE p \in DOMAIN kept
        <5>1. kept = products[t]
          BY <4>2, <2>1, NoneType DEF Brings
        <5>2. newList[p] = products[t][p] /\ p \in DOMAIN products[t] /\ p \notin behind[t]
          BY <4>1, <4>2, <5>1, <2>1 DEF Brings
        <5> QED BY <4>1, <5>2, <3>3 DEF ListInv, ListsReadOwnSales, AtMostLeft
      <4>3. CASE p \notin DOMAIN kept
        <5>1. newList[p] = load[t].rows[p] /\ p \in DOMAIN load[t].rows
          BY <4>1, <4>3, <2>1 DEF Brings
        <5>2. ~load[t].crossed /\ load[t].stage = "done"
          BY <4>1, <5>1, <1>2 DEF ReceiveProducts
        <5> QED BY <4>1, <5>1, <5>2, <3>3 DEF ListInv, LoadsReadOwnSales, AtMostLeft
      <4> QED BY <4>2, <4>3
    <3> QED BY <3>2, <3>3
  <2> QED BY <2>3, <2>4 DEF ListInv
<1> QED BY <1>1, <1>2

LEMMA SaveKeepsLists ==
  ASSUME TypeOK, SharedListed, SaleInv, ListInv, NEW t \in Tills, SaveOrderLocal(t)
  PROVE  ListInv'
<1>1. UNCHANGED <<products, ordersLocal, load, behind>>
  BY SaveEffect
<1>2. CASE Refuses(t)
  <2>1. orders' = orders
    BY <1>2 DEF Refuses
  <2> QED BY <1>1, <2>1, ListsKept
<1>3. CASE Sells(t)
  <2>1. ASSUME NEW u \in Tills, NEW k \in DOMAIN ordersLocal[u], NEW p
        PROVE  /\ orders'[ordersLocal[u][k].id] = orders[ordersLocal[u][k].id]
               /\ Sold(orders', Tills, p, ordersLocal[u][k].id)
                    = Sold(orders, Tills, p, ordersLocal[u][k].id)
    <3>1. /\ Len(orders) \in Nat /\ DOMAIN orders = 1..Len(orders)
          /\ \A i \in DOMAIN orders : orders'[i] = orders[i]
          /\ \A S, q : \A n \in 0..Len(orders) : Sold(orders', S, q, n) = Sold(orders, S, q, n)
      BY <1>3, SellsEffect
    <3>2. ordersLocal[u][k].id \in DOMAIN orders
      BY DEF SaleInv, RecordsAreOrders
    <3>3. ordersLocal[u][k].id \in 0..Len(orders)
      BY <3>1, <3>2
    <3> QED BY <3>1, <3>2, <3>3
  <2>2. LoadsReadOwnSales'
    BY <1>1, <2>1 DEF ListInv, LoadsReadOwnSales, AtMostLeft
  <2>3. ListsReadOwnSales'
    BY <1>1, <2>1 DEF ListInv, ListsReadOwnSales, AtMostLeft
  <2> QED BY <2>2, <2>3 DEF ListInv
<1> QED BY <1>2, <1>3, SaveEffect

LEMMA ConfirmKeepsLists ==
  ASSUME TypeOK, SharedListed, SaleInv, ListInv, NEW t \in Tills, ReceiveSale(t)
  PROVE  ListInv'
<1>1. PICK newList \in Amounts, basket \in Baskets, record \in Record :
        Confirms(t, newList, basket, record)
  BY ConfirmEffect
<1>2. PICK c \in LoadCall : /\ load' = [load EXCEPT ![t] = c]
                            /\ c.stage = load[t].stage
                            /\ c.stage # "none" => c.crossed
  BY ConfirmEffect
<1>3. sale[t].stage = "done" /\ UNCHANGED <<orders, behind>>
  BY ConfirmEffect
<1>4. /\ products' = [products EXCEPT ![t] = newList]
      /\ ordersLocal' = [ordersLocal EXCEPT ![t] = <<record>> \o ordersLocal[t]]
      /\ record.id = sale[t].id
      /\ DOMAIN newList = DOMAIN products[t]
      /\ \A p \in DOMAIN newList :
           newList[p] = IF p \in DOMAIN sale[t].newStock THEN sale[t].newStock[p]
                                                         ELSE products[t][p]
  BY <1>1 DEF Confirms, TypeOK
<1>5. ASSUME NEW u \in Tills, u # t
      PROVE  /\ products'[u] = products[u] /\ ordersLocal'[u] = ordersLocal[u]
             /\ load'[u] = load[u]
  BY <1>2, <1>4, <1>5 DEF TypeOK
<1>6. load'[t] = c /\ products'[t] = newList /\ ordersLocal'[t] = <<record>> \o ordersLocal[t]
  BY <1>2, <1>4 DEF TypeOK
<1>7. LoadsReadOwnSales'
  <2> SUFFICES ASSUME NEW u \in Tills, load'[u].stage = "done", ~load'[u].crossed,
                      NEW k \in DOMAIN ordersLocal'[u], NEW p \in DOMAIN load'[u].rows
               PROVE  load'[u].rows[p] + Sold(orders, Tills, p, ordersLocal'[u][k].id)
                        <= InitialStock[p]
    BY <1>3 DEF LoadsReadOwnSales, AtMostLeft
  <2>1. u # t
    BY <1>2, <1>6
  <2> QED BY <2>1, <1>5 DEF ListInv, LoadsReadOwnSales, AtMostLeft
<1>8. ListsReadOwnSales'
  <2> SUFFICES ASSUME NEW u \in Tills, NEW k \in DOMAIN ordersLocal'[u],
                      NEW p \in DOMAIN products'[u],
                      p \notin behind[u],
                      p \in DOMAIN orders[ordersLocal'[u][k].id].items
               PROVE  products'[u][p] + Sold(orders, Tills, p, ordersLocal'[u][k].id)
                        <= InitialStock[p]
    BY <1>3 DEF ListsReadOwnSales, AtMostLeft
  <2>1. CASE u # t
    BY <2>1, <1>5 DEF ListInv, ListsReadOwnSales, AtMostLeft
  <2>2. CASE u = t
    <3> DEFINE old == ordersLocal[t]
               s == sale[t]
    <3>1. /\ s.id \in DOMAIN orders
          /\ orders[s.id].items = s.items
          /\ DOMAIN s.newStock = DOMAIN s.items
          /\ \A q \in DOMAIN s.items :
               s.newStock[q] + Sold(orders, Tills, q, s.id) = InitialStock[q]
          /\ \A j \in DOMAIN old : old[j].id < s.id
      BY <1>3 DEF SaleInv, DoneIsOrder
    <3>2. \/ ordersLocal'[t][k] = record
          \/ \E j \in DOMAIN old : ordersLocal'[t][k] = old[j]
      BY <2>2, <1>6, RecordAdded DEF TypeOK
    <3>3. products'[u][p] = newList[p] /\ p \in DOMAIN products[t] /\ p \in DOMAIN newList
      BY <2>2, <1>4, <1>6
    <3>4. CASE p \in DOMAIN s.newStock
      <4>1. /\ newList[p] = s.newStock[p]
            /\ newList[p] + Sold(orders, Tills, p, s.id) = InitialStock[p]
        BY <3>1, <3>3, <3>4, <1>4
      <4>2. newList[p] \in Nat
        BY <3>3, AmountsAre
      <4>3. ordersLocal'[t][k].id \in DOMAIN orders /\ ordersLocal'[t][k].id <= s.id
        <5>1. CASE ordersLocal'[t][k] = record
          BY <5>1, <1>4, <3>1, OrdersAre
        <5>2. ASSUME NEW j \in DOMAIN old, ordersLocal'[t][k] = old[j]
              PROVE  ordersLocal'[t][k].id \in DOMAIN orders /\ ordersLocal'[t][k].id <= s.id
          <6>1. old[j].id \in DOMAIN orders /\ old[j].id < s.id
            BY <3>1 DEF SaleInv, RecordsAreOrders
          <6>2. old[j].id \in Nat /\ s.id \in Nat
            BY <6>1, <3>1, OrdersAre
          <6> QED BY <5>2, <6>1, <6>2
        <5> QED BY <3>2, <5>1, <5>2
      <4>4. /\ ordersLocal'[t][k].id \in Nat /\ s.id \in Nat /\ s.id <= Len(orders)
        BY <4>3, <3>1, OrdersAre
      <4>5. /\ Sold(orders, Tills, p, ordersLocal'[t][k].id) \in Nat
            /\ Sold(orders, Tills, p, s.id) \in Nat
            /\ Sold(orders, Tills, p, ordersLocal'[t][k].id) <= Sold(orders, Tills, p, s.id)
        BY <4>3, <4>4, SoldGrows DEF TypeOK
      <4>6. newList[p] + Sold(orders, Tills, p, ordersLocal'[t][k].id) <= InitialStock[p]
        BY <4>1, <4>2, <4>5
      <4> QED BY <4>6, <3>3, <2>2
    <3>5. CASE p \notin DOMAIN s.newStock
      <4>1. newList[p] = products[t][p]
        BY <3>3, <3>5, <1>4
      <4>2. ordersLocal'[t][k] # record
        BY <3>1, <3>5, <1>4, <2>2
      <4>3. PICK j \in DOMAIN old : ordersLocal'[t][k] = old[j]
        BY <3>2, <4>2
      <4>4. products[t][p] + Sold(orders, Tills, p, old[j].id) <= InitialStock[p]
        BY <4>3, <2>2, <3>3 DEF ListInv, ListsReadOwnSales, AtMostLeft
      <4> QED BY <4>1, <4>3, <4>4, <3>3, <2>2
    <3> QED BY <3>4, <3>5
  <2> QED BY <2>1, <2>2
<1> QED BY <1>7, <1>8 DEF ListInv

LEMMA ListInvCorrect == Spec => []ListInv
<1>1. TypeOK /\ SharedListed /\ SaleInv /\ ListInv /\ [Next]_vars => ListInv'
  <2> SUFFICES ASSUME TypeOK, SharedListed, SaleInv, ListInv, [Next]_vars PROVE ListInv'
    OBVIOUS
  <2>1. ASSUME NEW t \in Tills, LoadStep(t) PROVE ListInv'
    BY <2>1, LoadKeepsLists
  <2>2. ASSUME NEW t \in Tills, BasketStep(t) PROVE ListInv'
    BY <2>2, BasketStepChanges, ListsKept DEF BasketChange
  <2>3. ASSUME NEW t \in Tills, SaleStep(t) PROVE ListInv'
    <3>1. CASE FinalizeOrder(t) \/ SaleFails(t) \/ CloseSuccessModal(t)
      <4>1. UNCHANGED <<orders, ordersLocal, products, load, behind>>
        BY <3>1 DEF FinalizeOrder, SaleFails, CloseSuccessModal, screens, calls
      <4> QED BY <4>1, ListsKept
    <3>2. CASE SaveOrderLocal(t) \/ ReceiveSale(t)
      BY <3>2, SaveKeepsLists, ConfirmKeepsLists
    <3> QED BY <2>3, <3>1, <3>2 DEF SaleStep
  <2>4. CASE UNCHANGED vars
    BY <2>4, ListsKept DEF vars, screens, calls
  <2> QED BY <2>1, <2>2, <2>3, <2>4 DEF Next
<1> QED BY <1>1, InitLists, TypeCorrect, SaleInvCorrect, PTL DEF Spec

(* A list never shows more of a product than the last sale of it that is   *)
(* in orders_local of its till left (updated_products), unless the load    *)
(* that brought the product crossed that sale.                             *)
THEOREM ListsShowOwnSales == Spec => []ListReadsOwnSales
<1>1. ListInv => ListReadsOwnSales
  <2> SUFFICES ASSUME ListInv, NEW t \in Tills, NEW r \in ToSet(ordersLocal[t]),
                      NEW p \in DOMAIN products[t] \cap DOMAIN orders[r.id].items
               PROVE  \/ p \in behind[t]
                      \/ products[t][p] + Sold(orders, Tills, p, r.id) <= InitialStock[p]
    BY DEF ListReadsOwnSales
  <2>1. PICK k \in DOMAIN ordersLocal[t] : r = ordersLocal[t][k]
    BY DEF ToSet
  <2> QED BY <2>1 DEF ListInv, ListsReadOwnSales, AtMostLeft
<1> QED BY <1>1, ListInvCorrect, PTL

-----------------------------------------------------------------------------
(* Numbers, the highest first, and rows that show them.                    *)

\* The numbers of S, the highest first.
Ranked(S) ==
  [i \in 1..Cardinality(S) |-> CHOOSE o \in S : Cardinality({p \in S : p > o}) = i - 1]

LEMMA RankIsOneToOne ==
  ASSUME NEW S \in SUBSET Nat, IsFiniteSet(S),
         NEW a \in S, NEW b \in S, a < b
  PROVE  Cardinality({p \in S : p > b}) < Cardinality({p \in S : p > a})
<1> DEFINE A == {p \in S : p > a}
           B == {p \in S : p > b}
<1>1. a \in Nat /\ b \in Nat
  OBVIOUS
<1>2. B \in SUBSET A /\ A \in SUBSET S
  <2>1. \A p \in S : p > b => p > a
    BY <1>1
  <2>2. A \subseteq S
    OBVIOUS
  <2>3. B \subseteq A
    BY <2>1
  <2> QED BY <2>2, <2>3
<1>3. b \in A /\ b \notin B
  BY <1>1
<1>4. IsFiniteSet(A) /\ IsFiniteSet(B)
  <2>1. A \in SUBSET S /\ B \in SUBSET S
    BY <1>2
  <2> QED BY <2>1, FS_Subset
<1>5. Cardinality(A) \in Nat /\ Cardinality(B) \in Nat
  BY <1>4, FS_CardinalityType
<1>6. Cardinality(B) <= Cardinality(A) /\ (Cardinality(A) = Cardinality(B) => A = B)
  BY <1>2, <1>4, FS_Subset
<1>7. A # B
  BY <1>3
<1> HIDE DEF A, B
<1>8. Cardinality(B) < Cardinality(A)
  BY <1>5, <1>6, <1>7
<1> QED BY <1>8 DEF A, B

LEMMA RankIsOnto ==
  ASSUME NEW S \in SUBSET Nat, IsFiniteSet(S), NEW i \in 1..Cardinality(S)
  PROVE  \E o \in S : Cardinality({p \in S : p > o}) = i - 1
<1> DEFINE n == Cardinality(S)
           R == [o \in S |-> Cardinality({p \in S : p > o})]
<1>1. n \in Nat
  BY FS_CardinalityType
<1>2. ASSUME NEW o \in S PROVE R[o] \in 0..(n - 1)
  <2> DEFINE A == {p \in S : p > o}
  <2>1. A \in SUBSET S /\ o \notin A
    OBVIOUS
  <2>2. IsFiniteSet(A) /\ Cardinality(A) <= n /\ (n = Cardinality(A) => S = A)
    BY <2>1, FS_Subset
  <2>3. Cardinality(A) \in Nat
    BY <2>2, FS_CardinalityType
  <2>4. S # A
    BY <2>1
  <2>5. R[o] = Cardinality(A)
    OBVIOUS
  <2> HIDE DEF A, R, n
  <2> QED BY <1>1, <2>2, <2>3, <2>4, <2>5
<1>3. ASSUME NEW a \in S, NEW b \in S, R[a] = R[b] PROVE a = b
  <2>1. R[a] \in 0..(n - 1) /\ R[b] \in 0..(n - 1)
    BY <1>2
  <2>2. a < b => R[b] < R[a]
    BY RankIsOneToOne
  <2>3. b < a => R[a] < R[b]
    BY RankIsOneToOne
  <2>4. a \in Nat /\ b \in Nat
    OBVIOUS
  <2> HIDE DEF R, n
  <2> QED BY <1>1, <1>3, <2>1, <2>2, <2>3, <2>4
<1>4. R \in [S -> 0..(n - 1)]
  BY <1>2
<1>5. R \in Injection(S, 0..(n - 1))
  BY <1>3, <1>4 DEF Injection, IsInjective
<1>6. IsFiniteSet(0..(n - 1)) /\ Cardinality(0..(n - 1)) = n
  <2>1. 0 \in Int /\ n - 1 \in Int
    BY <1>1
  <2>2. IsFiniteSet(0..(n - 1)) /\ Cardinality(0..(n - 1)) = IF 0 > n - 1 THEN 0 ELSE n - 1 - 0 + 1
    BY <2>1, FS_Interval
  <2> HIDE DEF n
  <2> QED BY <1>1, <2>2
<1>7. R \in Surjection(S, 0..(n - 1))
  BY <1>5, <1>6, FS_Injection
<1>8. i - 1 \in 0..(n - 1)
  BY <1>1
<1>9. \E o \in S : R[o] = i - 1
  BY <1>7, <1>8 DEF Surjection
<1> QED BY <1>9

LEMMA RankedIsDescending ==
  ASSUME NEW S \in SUBSET Nat, IsFiniteSet(S)
  PROVE  /\ Ranked(S) \in Seq(S)
         /\ Len(Ranked(S)) = Cardinality(S)
         /\ \A i, j \in 1..Cardinality(S) : i < j => Ranked(S)[i] > Ranked(S)[j]
         /\ \A o \in S : \E i \in 1..Cardinality(S) : Ranked(S)[i] = o
<1> DEFINE n == Cardinality(S)
           rank(o) == Cardinality({p \in S : p > o})
<1>1. n \in Nat
  BY FS_CardinalityType
<1>2. ASSUME NEW i \in 1..n PROVE Ranked(S)[i] \in S /\ rank(Ranked(S)[i]) = i - 1
  <2>1. Ranked(S)[i] = CHOOSE o \in S : Cardinality({p \in S : p > o}) = i - 1
    BY DEF Ranked
  <2>2. \E o \in S : Cardinality({p \in S : p > o}) = i - 1
    BY RankIsOnto
  <2> QED BY <2>1, <2>2
<1>3. Ranked(S) \in Seq(S) /\ Len(Ranked(S)) = n
  <2>1. PICK s : s = Ranked(S)
    OBVIOUS
  <2>2. \A i \in 1..n : s[i] \in S
    BY <1>2, <2>1
  <2>3. PICK t : t = [i \in 1..n |-> s[i]]
    OBVIOUS
  <2>4. t \in [1..n -> S]
    BY <2>2, <2>3
  <2>5. s = t
    <3>1. \A i \in 1..n : s[i] = CHOOSE o \in S : Cardinality({p \in S : p > o}) = i - 1
      BY <2>1 DEF Ranked
    <3>2. t = [i \in 1..n |-> CHOOSE o \in S : Cardinality({p \in S : p > o}) = i - 1]
      BY <2>3, <3>1
    <3> QED BY <2>1, <3>2 DEF Ranked
  <2> HIDE DEF n
  <2>6. s \in Seq(S) /\ Len(s) = n
    BY <1>1, <2>4, <2>5
  <2> QED BY <2>1, <2>6
<1>4. ASSUME NEW a \in S, NEW b \in S, a < b PROVE rank(b) < rank(a)
  BY <1>4, RankIsOneToOne
<1>5. ASSUME NEW i \in 1..n, NEW j \in 1..n, i < j PROVE Ranked(S)[i] > Ranked(S)[j]
  <2>1. PICK a, b : a = Ranked(S)[i] /\ b = Ranked(S)[j]
    OBVIOUS
  <2>2. a \in S /\ b \in S /\ rank(a) = i - 1 /\ rank(b) = j - 1
    BY <1>2, <2>1
  <2>3. a \in Nat /\ b \in Nat
    BY <2>2
  <2>4. a < b => rank(b) < rank(a)
    BY <1>4, <2>2
  <2>5. a = b => rank(a) = rank(b)
    OBVIOUS
  <2> HIDE DEF rank, n
  <2>6. ~ (a < b) /\ a # b
    BY <1>1, <1>5, <2>2, <2>4, <2>5
  <2> QED BY <2>1, <2>3, <2>6
<1>6. ASSUME NEW o \in S PROVE \E i \in 1..n : Ranked(S)[i] = o
  <2> DEFINE A == {p \in S : p > o}
  <2>1. A \in SUBSET S /\ o \notin A
    OBVIOUS
  <2>2. IsFiniteSet(A) /\ Cardinality(A) <= n /\ (n = Cardinality(A) => S = A)
    BY <2>1, FS_Subset
  <2>3. Cardinality(A) \in Nat
    BY <2>2, FS_CardinalityType
  <2>4. S # A
    BY <2>1
  <2>5. rank(o) = Cardinality(A)
    OBVIOUS
  <2>6. PICK i : i = rank(o) + 1
    OBVIOUS
  <2> HIDE DEF A, n
  <2>7. i \in 1..n /\ i - 1 = rank(o)
    BY <1>1, <2>2, <2>3, <2>4, <2>5, <2>6
  <2>8. PICK a : a = Ranked(S)[i]
    OBVIOUS
  <2>9. a \in S /\ rank(a) = rank(o)
    BY <1>2, <2>7, <2>8
  <2>10. a < o => rank(o) < rank(a)
    BY <1>4, <2>9
  <2>11. o < a => rank(a) < rank(o)
    BY <1>4, <2>9
  <2>12. a \in Nat /\ o \in Nat
    BY <2>9
  <2>13. rank(o) \in Nat
    BY <2>3, <2>5
  <2> HIDE DEF rank
  <2>14. a = o
    BY <2>9, <2>10, <2>11, <2>12, <2>13
  <2> QED BY <2>7, <2>8, <2>14
<1> QED BY <1>3, <1>5, <1>6

NidsIn(rows, all) ==
  Len(rows) <= Len(all) /\ \A i \in 1..Len(rows) : rows[i].nid = all[i]

SameNids(rows, nids) ==
  Len(rows) = Len(nids) /\ \A i \in 1..Len(rows) : rows[i].nid = nids[i]

LEMMA ProductOfNaturals ==
  ASSUME NEW a \in Nat, NEW b \in Nat
  PROVE  a * b \in Nat /\ (a + 1) * b = a * b + b
OBVIOUS

-----------------------------------------------------------------------------
(* The store of products (ProductStore): types and inductive invariant.    *)

ProductRow == [nid : Nids, version : Nat]

Kinds == {"none", "fetch", "detail", "update", "check", "save", "stock", "cancel"}

CallRecord ==
  [kind : Kinds, stage : {"none", "sent", "answered", "failed"}, append : BOOLEAN,
   filters : Filters, page : Nat, rows : Seq(ProductRow), nid : Nids \cup {0}, answer : Nat]

(* Types of the store, the calls and the server.                           *)
StoreTyped ==
  /\ listed \in SUBSET Nids /\ version \in [Nids -> Nat]
  /\ storeProducts \in Seq(ProductRow)
  /\ currentPage \in Nat /\ hasMore \in BOOLEAN /\ loading \in BOOLEAN
  /\ filter \in Filters /\ listFilter \in Filters /\ tidy \in BOOLEAN
  /\ call \in [Calls -> CallRecord]
  /\ \A k \in Calls : call[k].kind \notin {"none", "fetch"} => call[k].nid \in Nids

(* The nids of a page of the list.                                         *)
PageOfNids(nids, page) ==
  SubSeq(nids, page * ItemsPerPage + 1,
         IF (page + 1) * ItemsPerPage < Len(nids) THEN (page + 1) * ItemsPerPage ELSE Len(nids))

(* On a list that nothing disturbed one load runs at a time.               *)
OneFetch ==
  tidy => \A j, k \in Calls : FetchOf(call[j]) /\ FetchOf(call[k]) => j = k

(* That load asks for the page the store is at, of the filter of the list. *)
FetchesNextPage ==
  \A k \in Calls : tidy /\ FetchOf(call[k]) =>
    /\ call[k].filters = listFilter /\ call[k].page = currentPage /\ hasMore
    /\ call[k].append \/ currentPage = 0
    /\ call[k].stage = "answered" =>
         SameNids(call[k].rows, PageOfNids(Matching(listFilter), currentPage))

(* The pages before that one are in the list, and when nothing more is to  *)
(* be had the whole of the list is.                                        *)
ListComplete ==
  tidy /\ (\A k \in Calls : FetchOf(call[k]) => call[k].append) =>
    /\ NidsIn(storeProducts, Matching(listFilter))
    /\ IF hasMore THEN Len(storeProducts) = currentPage * ItemsPerPage
                  ELSE Len(storeProducts) = Len(Matching(listFilter))

PagesInv == OneFetch /\ FetchesNextPage /\ ListComplete

LEMMA AllIsAFilter == All \in Filters
BY DEF Filters

LEMMA FreeIsACall ==
  Free \in CallRecord /\ Free.kind = "none"
<1>1. <<>> \in Seq(ProductRow)
  OBVIOUS
<1> QED BY <1>1, AllIsAFilter DEF Free, CallRecord, Kinds

LEMMA SentIsACall ==
  ASSUME NEW kind \in Kinds, NEW n \in Nids \cup {0}
  PROVE  /\ Sent(kind, n) \in CallRecord
         /\ Sent(kind, n).kind = kind /\ Sent(kind, n).nid = n
         /\ Sent(kind, n).stage = "sent"
<1>1. PICK c : c = [Free EXCEPT !.kind = kind, !.stage = "sent", !.nid = n]
  OBVIOUS
<1>2. c \in CallRecord /\ c.kind = kind /\ c.nid = n /\ c.stage = "sent"
  BY <1>1, FreeIsACall DEF CallRecord
<1> QED BY <1>1, <1>2 DEF Sent

\* Descending lists a set of products by their nids, each one once.
LEMMA DescendingNids ==
  ASSUME NEW S \in SUBSET Nids
  PROVE  Descending(S) \in Seq(Nids)
<1>1. Nids \in SUBSET Nat /\ IsFiniteSet(Nids)
  BY StoreAssumption
<1>2. S \in SUBSET Nat /\ IsFiniteSet(S)
  <2>1. IsFiniteSet(S)
    BY <1>1, FS_Subset
  <2> QED BY <1>1, <2>1
<1>3. Descending(S) = Ranked(S)
  BY DEF Descending, Ranked
<1>4. Ranked(S) \in Seq(S)
  BY <1>2, RankedIsDescending
<1>5. Ranked(S) \in Seq(Nids)
  BY <1>4, SeqMonotonic
<1> QED BY <1>3, <1>5

LEMMA MatchingNids ==
  ASSUME StoreTyped, NEW f
  PROVE  Matching(f) \in Seq(Nids)
<1>1. {n \in listed : f \in {All, Category[n]}} \in SUBSET Nids
  BY DEF StoreTyped
<1> QED BY <1>1, DescendingNids DEF Matching

\* The nids of s from the m-th on, size of them at most.
LEMMA Slice ==
  ASSUME NEW S, NEW s \in Seq(S), NEW m \in Nat, NEW size \in Nat \ {0}, NEW p,
         p = SubSeq(s, m + 1, IF m + size < Len(s) THEN m + size ELSE Len(s))
  PROVE  /\ p \in Seq(S)
         /\ Len(p) = IF m + size < Len(s) THEN size ELSE IF m < Len(s) THEN Len(s) - m ELSE 0
         /\ \A i \in 1..Len(p) : m + i \in 1..Len(s) /\ p[i] = s[m + i]
<1>1. PICK last : last = IF m + size < Len(s) THEN m + size ELSE Len(s)
  OBVIOUS
<1>2. p = SubSeq(s, m + 1, last)
  BY <1>1
<1>3. last \in Nat /\ last <= Len(s) /\ Len(s) \in Nat
  BY <1>1
<1>4. \A i \in (m + 1)..last : s[i] \in S
  BY <1>3
<1>5. /\ SubSeq(s, m + 1, last) \in Seq(S)
      /\ Len(SubSeq(s, m + 1, last)) = IF m + 1 <= last THEN last - (m + 1) + 1 ELSE 0
      /\ \A i \in 1..(last - (m + 1) + 1) : SubSeq(s, m + 1, last)[i] = s[m + 1 + i - 1]
  <2>1. m + 1 \in Int /\ last \in Int
    BY <1>3
  <2> QED BY <1>4, <2>1, SubSeqProperties
<1>6. PICK n : n = Len(p)
  OBVIOUS
<1>7. n = IF m + 1 <= last THEN last - (m + 1) + 1 ELSE 0
  BY <1>2, <1>5, <1>6
<1>8. n = IF m + size < Len(s) THEN size ELSE IF m < Len(s) THEN Len(s) - m ELSE 0
  BY <1>1, <1>3, <1>7
<1>9. ASSUME NEW i \in 1..n PROVE m + i \in 1..Len(s) /\ p[i] = s[m + i]
  <2>1. i \in 1..(last - (m + 1) + 1) /\ m + i \in 1..Len(s) /\ m + 1 + i - 1 = m + i
    BY <1>3, <1>7
  <2> QED BY <1>2, <1>5, <2>1
<1> QED BY <1>1, <1>2, <1>5, <1>6, <1>8, <1>9

LEMMA ProductsJoined ==
  ASSUME NEW s \in Seq(ProductRow), NEW t \in Seq(ProductRow)
  PROVE  /\ s \o t \in Seq(ProductRow)
         /\ Len(s \o t) = Len(s) + Len(t)
         /\ \A i \in 1..(Len(s) + Len(t)) :
              (s \o t)[i] = IF i <= Len(s) THEN s[i] ELSE t[i - Len(s)]
OBVIOUS

\* A page after the pages shown is the list up to there.
LEMMA PageAfterPages ==
  ASSUME NEW all \in Seq(Nids), NEW rows \in Seq(ProductRow), NEW before \in Seq(ProductRow),
         NEW m \in Nat, NEW size \in Nat \ {0},
         SameNids(rows, SubSeq(all, m + 1, IF m + size < Len(all) THEN m + size ELSE Len(all))),
         NidsIn(before, all), Len(before) = m
  PROVE  /\ NidsIn(before \o rows, all)
         /\ Len(rows) >= size => Len(before \o rows) = m + size
         /\ ~(Len(rows) >= size) => Len(before \o rows) = Len(all)
<1>1. PICK p : p = SubSeq(all, m + 1, IF m + size < Len(all) THEN m + size ELSE Len(all))
  OBVIOUS
<1>2. /\ Len(p) = IF m + size < Len(all) THEN size ELSE IF m < Len(all) THEN Len(all) - m ELSE 0
      /\ \A i \in 1..Len(p) : m + i \in 1..Len(all) /\ p[i] = all[m + i]
  BY <1>1, Slice
<1>3. Len(rows) = Len(p) /\ \A i \in 1..Len(rows) : rows[i].nid = p[i]
  BY <1>1 DEF SameNids
<1>4. PICK s : s = before \o rows
  OBVIOUS
<1>5. /\ Len(s) = m + Len(rows)
      /\ \A i \in 1..(m + Len(rows)) : s[i] = IF i <= m THEN before[i] ELSE rows[i - m]
  BY <1>4, ProductsJoined
<1>6. m <= Len(all) /\ Len(all) \in Nat /\ \A i \in 1..m : before[i].nid = all[i]
  BY DEF NidsIn
<1>7. ASSUME NEW i \in 1..Len(s) PROVE s[i].nid = all[i]
  <2>1. CASE i <= m
    BY <1>5, <1>6, <2>1
  <2>2. CASE i > m
    <3>1. i - m \in 1..Len(rows) /\ m + (i - m) = i
      BY <1>5, <2>2
    <3>2. s[i] = rows[i - m]
      BY <1>5, <2>2
    <3>3. rows[i - m].nid = p[i - m]
      BY <1>3, <3>1
    <3>4. p[i - m] = all[i]
      BY <1>2, <1>3, <3>1
    <3> QED BY <3>2, <3>3, <3>4
  <2> QED BY <2>1, <2>2
<1>8. /\ Len(s) <= Len(all)
      /\ Len(rows) >= size => Len(s) = m + size
      /\ ~(Len(rows) >= size) => Len(s) = Len(all)
  BY <1>2, <1>3, <1>5, <1>6
<1> QED BY <1>4, <1>7, <1>8 DEF NidsIn

-----------------------------------------------------------------------------
(* The store of products: the calls and what they do.                      *)

LEMMA CallChange ==
  ASSUME StoreTyped, NEW k \in Calls, NEW c \in CallRecord, call' = [call EXCEPT ![k] = c]
  PROVE  /\ call' \in [Calls -> CallRecord]
         /\ call'[k] = c
         /\ \A j \in Calls : j # k => call'[j] = call[j]
BY DEF StoreTyped

\* What the steps do, in the words of the proofs.
FetchDropped(k) ==
  /\ call' = [call EXCEPT ![k] = Free]
  /\ UNCHANGED <<storeProducts, currentPage, hasMore, loading, listFilter, tidy>>

FetchReset(k) ==
  \E c \in CallRecord :
    /\ call' = [call EXCEPT ![k] = c]
    /\ c.kind = "fetch" /\ c.stage = "sent" /\ ~c.append /\ c.page = 0
    /\ c.filters = listFilter' /\ listFilter' \in Filters
    /\ currentPage' = 0 /\ hasMore' = TRUE /\ loading' = TRUE
    /\ tidy' = ~OtherFetch(k) /\ storeProducts' = storeProducts

FetchNext(k) ==
  \E c \in CallRecord :
    /\ call' = [call EXCEPT ![k] = c]
    /\ c.kind = "fetch" /\ c.stage = "sent" /\ c.append /\ c.page = currentPage
    /\ hasMore /\ currentPage' = currentPage /\ hasMore' = hasMore /\ loading' = TRUE
    /\ listFilter' = listFilter
    /\ tidy' = (~OtherFetch(k) /\ tidy /\ c.filters = listFilter)
    /\ storeProducts' = storeProducts

LEMMA FetchProductsResets ==
  ASSUME StoreTyped, NEW k \in Calls, NEW f \in Filters, FetchStoreProducts(k, FALSE, f)
  PROVE  FetchDropped(k) \/ FetchReset(k)
<1>1. CASE loading
  BY <1>1 DEF FetchStoreProducts, Refused, FetchDropped, list
<1>2. CASE ~loading
  <2>1. ~Refused(FALSE)
    BY <1>2 DEF Refused
  <2>2. /\ currentPage' = 0 /\ hasMore' = (FALSE => hasMore) /\ loading' = TRUE
        /\ call' = [call EXCEPT ![k] = [Sent("fetch", 0) EXCEPT
                      !.append = FALSE, !.filters = f, !.page = currentPage']]
        /\ listFilter' = f /\ storeProducts' = storeProducts
        /\ tidy' = (~OtherFetch(k) /\ (FALSE => tidy /\ f = listFilter))
    BY <2>1 DEF FetchStoreProducts, PageAsked
  <2>3. PICK b \in BOOLEAN : b = FALSE
    OBVIOUS
  <2>4. "fetch" \in Kinds /\ 0 \in Nids \cup {0}
    BY DEF Kinds
  <2>5. Sent("fetch", 0) \in CallRecord /\ Sent("fetch", 0).kind = "fetch"
        /\ Sent("fetch", 0).stage = "sent"
    BY <2>4, SentIsACall
  <2>6. PICK c : c = [Sent("fetch", 0) EXCEPT !.append = b, !.filters = f, !.page = 0]
    OBVIOUS
  <2>7. /\ c \in CallRecord /\ c.kind = "fetch" /\ c.stage = "sent" /\ c.append = b
        /\ c.filters = f /\ c.page = 0
    BY <2>5, <2>6 DEF CallRecord
  <2>8. call' = [call EXCEPT ![k] = c]
    BY <2>2, <2>3, <2>6
  <2>9. FetchReset(k)
    BY <2>2, <2>3, <2>7, <2>8 DEF FetchReset
  <2> QED BY <2>9
<1> QED BY <1>1, <1>2

LEMMA FetchProductsGoesOn ==
  ASSUME StoreTyped, NEW k \in Calls, ~loading, hasMore, FetchStoreProducts(k, TRUE, filter)
  PROVE  FetchNext(k)
<1>1. ~Refused(TRUE)
  BY DEF Refused
<1>2. /\ currentPage' = currentPage /\ hasMore' = (TRUE => hasMore) /\ loading' = TRUE
      /\ call' = [call EXCEPT ![k] = [Sent("fetch", 0) EXCEPT
                    !.append = TRUE, !.filters = filter, !.page = currentPage']]
      /\ listFilter' = listFilter /\ storeProducts' = storeProducts
      /\ tidy' = (~OtherFetch(k) /\ (TRUE => tidy /\ filter = listFilter))
  BY <1>1 DEF FetchStoreProducts, PageAsked
<1>3. PICK b \in BOOLEAN : b = TRUE
  OBVIOUS
<1>4. "fetch" \in Kinds /\ 0 \in Nids \cup {0}
  BY DEF Kinds
<1>5. Sent("fetch", 0) \in CallRecord /\ Sent("fetch", 0).kind = "fetch"
      /\ Sent("fetch", 0).stage = "sent"
  BY <1>4, SentIsACall
<1>6. filter \in Filters /\ currentPage \in Nat /\ hasMore \in BOOLEAN
  BY DEF StoreTyped
<1>7. PICK c : c = [Sent("fetch", 0) EXCEPT !.append = b, !.filters = filter,
                                     !.page = currentPage]
  OBVIOUS
<1>8. /\ c \in CallRecord /\ c.kind = "fetch" /\ c.stage = "sent" /\ c.append = b
      /\ c.filters = filter /\ c.page = currentPage
  BY <1>5, <1>6, <1>7 DEF CallRecord
<1>9. call' = [call EXCEPT ![k] = c]
  BY <1>2, <1>3, <1>7
<1> QED BY <1>2, <1>3, <1>6, <1>8, <1>9 DEF FetchNext

\* A step of a call other than a fetch.
OtherCall(k) ==
  \E c \in CallRecord :
    /\ call' = [call EXCEPT ![k] = c]
    /\ c.kind # "fetch" /\ call[k].kind # "fetch"
    /\ c.kind # "none" => c.nid \in Nids
    /\ loading' \in BOOLEAN
    /\ UNCHANGED <<listed, version, storeProducts, currentPage, hasMore, filter, listFilter,
                   tidy>>

FetchStep(k) ==
  /\ call[k].kind # "fetch" /\ filter' \in Filters
  /\ UNCHANGED <<listed, version>>
  /\ FetchDropped(k) \/ FetchReset(k) \/ FetchNext(k)

FetchFails(k) ==
  /\ call[k].kind = "fetch" /\ call' = [call EXCEPT ![k] = Free]
  /\ loading' \in BOOLEAN /\ tidy' = (tidy /\ call[k].append)
  /\ UNCHANGED <<listed, version, storeProducts, currentPage, hasMore, filter, listFilter>>

StoreQuiet ==
  UNCHANGED <<listed, version, storeProducts, currentPage, hasMore, loading, filter, call,
              listFilter, tidy>>

LEMMA CallFreed ==
  ASSUME NEW k \in Calls, call[k].kind # "fetch", call' = [call EXCEPT ![k] = Free],
         loading' \in BOOLEAN,
         UNCHANGED <<listed, version, storeProducts, currentPage, hasMore, filter, listFilter,
                     tidy>>
  PROVE  OtherCall(k)
<1>1. PICK c : c = Free
  OBVIOUS
<1>2. c \in CallRecord /\ c.kind = "none"
  BY <1>1, FreeIsACall
<1> QED BY <1>1, <1>2 DEF OtherCall

LEMMA CallSent ==
  ASSUME NEW k \in Calls, call[k].kind # "fetch", NEW kind \in Kinds \ {"fetch"},
         NEW n \in Nids, call' = [call EXCEPT ![k] = Sent(kind, n)],
         loading' \in BOOLEAN,
         UNCHANGED <<listed, version, storeProducts, currentPage, hasMore, filter, listFilter,
                     tidy>>
  PROVE  OtherCall(k)
<1>1. PICK c : c = Sent(kind, n)
  OBVIOUS
<1>2. c \in CallRecord /\ c.kind = kind /\ c.nid = n
  BY <1>1, SentIsACall
<1>3. call' = [call EXCEPT ![k] = c]
  BY <1>1
<1> QED BY <1>2, <1>3 DEF OtherCall

LEMMA UserSteps ==
  ASSUME StoreTyped, NEW k \in Calls, User(k)
  PROVE  FetchStep(k) \/ OtherCall(k)
<1>1. Free.kind # "fetch" /\ All \in Filters /\ filter \in Filters
  BY FreeIsACall, AllIsAFilter DEF StoreTyped
<1>2. CASE OpenList(k)
  <2>1. /\ call[k] = Free /\ FetchStoreProducts(k, FALSE, All)
        /\ filter' = All /\ UNCHANGED <<listed, version>>
    BY <1>2 DEF OpenList, CanCall, server
  <2>2. FetchDropped(k) \/ FetchReset(k)
    BY <1>1, <2>1, FetchProductsResets
  <2> QED BY <1>1, <2>1, <2>2 DEF FetchStep
<1>3. CASE ChangeFilter(k)
  <2>1. PICK f \in Filters :
          /\ call[k] = Free /\ filter' = f /\ FetchStoreProducts(k, FALSE, f)
          /\ UNCHANGED <<listed, version>>
    BY <1>3 DEF ChangeFilter, CanCall, server
  <2>2. FetchDropped(k) \/ FetchReset(k)
    BY <2>1, FetchProductsResets
  <2> QED BY <1>1, <2>1, <2>2 DEF FetchStep
<1>4. CASE LoadMore(k)
  <2>1. /\ call[k] = Free /\ ~loading /\ hasMore
        /\ FetchStoreProducts(k, TRUE, filter)
        /\ filter' = filter /\ UNCHANGED <<listed, version>>
    BY <1>4 DEF LoadMore, CanCall, server
  <2>2. FetchNext(k)
    BY <2>1, FetchProductsGoesOn
  <2> QED BY <1>1, <2>1, <2>2 DEF FetchStep
<1>5. ASSUME NEW n \in Nids, FetchProductDetail(k, n) PROVE OtherCall(k)
  <2>1. "detail" \in Kinds \ {"fetch"}
    BY DEF Kinds
  <2>2. /\ call[k] = Free /\ call' = [call EXCEPT ![k] = Sent("detail", n)]
        /\ loading' = TRUE
        /\ UNCHANGED <<listed, version, storeProducts, currentPage, hasMore, filter, listFilter,
                       tidy>>
    BY <1>5 DEF FetchProductDetail, CanCall, Makes, server, list,
                history
  <2> QED BY <1>1, <2>1, <2>2, CallSent
<1>6. ASSUME NEW n \in Nids, UpdateProduct(k, n) PROVE OtherCall(k)
  <2>1. "update" \in Kinds \ {"fetch"}
    BY DEF Kinds
  <2>2. /\ call[k] = Free /\ call' = [call EXCEPT ![k] = Sent("update", n)]
        /\ loading' = TRUE
        /\ UNCHANGED <<listed, version, storeProducts, currentPage, hasMore, filter, listFilter,
                       tidy>>
    BY <1>6 DEF UpdateProduct, CanCall, Makes, server, list,
                history
  <2> QED BY <1>1, <2>1, <2>2, CallSent
<1>7. ASSUME NEW n \in Nids, CreateProduct(k, n) PROVE OtherCall(k)
  <2>1. "check" \in Kinds \ {"fetch"}
    BY DEF Kinds
  <2>2. /\ call[k] = Free /\ call' = [call EXCEPT ![k] = Sent("check", n)]
        /\ loading' = TRUE
        /\ UNCHANGED <<listed, version, storeProducts, currentPage, hasMore, filter, listFilter,
                       tidy>>
    BY <1>7 DEF CreateProduct, CanCall, Makes, server, list,
                history
  <2> QED BY <1>1, <2>1, <2>2, CallSent
<1>8. ASSUME NEW n \in Nids, CancelOrder(k, n) PROVE OtherCall(k)
  <2>1. "cancel" \in Kinds \ {"fetch"}
    BY DEF Kinds
  <2>2. /\ call[k] = Free /\ call' = [call EXCEPT ![k] = Sent("cancel", n)]
        /\ loading' = loading
        /\ UNCHANGED <<listed, version, storeProducts, currentPage, hasMore, filter, listFilter,
                       tidy>>
    BY <1>8 DEF CancelOrder, CanCall, Makes, server, list,
                history
  <2>3. loading' \in BOOLEAN
    BY <2>2 DEF StoreTyped
  <2> QED BY <1>1, <2>1, <2>2, <2>3, CallSent
<1> QED BY <1>2, <1>3, <1>4, <1>5, <1>6, <1>7, <1>8 DEF User

LEMMA ReceiveSteps ==
  ASSUME StoreTyped, NEW k \in Calls, Receive(k)
  PROVE  \/ FetchStep(k) \/ OtherCall(k) \/ ReceiveRows(k) \/ FetchFails(k)
         \/ call[k].kind \in {"save", "stock"} /\ ShowNew(k)
<1>1. /\ All \in Filters /\ filter \in Filters /\ loading \in BOOLEAN
      /\ call[k] \in CallRecord
  BY AllIsAFilter DEF StoreTyped
<1>2. CASE ReceiveDetail(k)
  BY <1>2, CallFreed DEF ReceiveDetail, StoreAnswered, Done, server, list,
                         history
<1>3. CASE ReceiveUpdate(k)
  <2>1. call[k].kind = "update" /\ UNCHANGED <<listed, version, filter>>
    BY <1>3 DEF ReceiveUpdate, StoreAnswered, server
  <2>2. CASE loading
    BY <1>3, <2>1, <2>2, CallFreed DEF ReceiveUpdate, Done, list
  <2>3. CASE ~loading
    <3>1. FetchStoreProducts(k, FALSE, All)
      BY <1>3, <2>3 DEF ReceiveUpdate
    <3>2. FetchDropped(k) \/ FetchReset(k)
      BY <1>1, <3>1, FetchProductsResets
    <3> QED BY <1>1, <2>1, <3>2 DEF FetchStep
  <2> QED BY <2>2, <2>3
<1>4. CASE ReceiveCheck(k)
  <2>1. /\ call[k].kind = "check"
        /\ UNCHANGED <<listed, version, storeProducts, currentPage, hasMore, filter, listFilter,
                       tidy>>
    BY <1>4 DEF ReceiveCheck, StoreAnswered, server, list, history
  <2>2. CASE loading' = FALSE /\ Done(k)
    BY <2>1, <2>2, CallFreed DEF Done
  <2>3. CASE call' = [call EXCEPT ![k] = AfterCheck(@)] /\ loading' = loading
    <3>1. PICK n : n = call[k].nid
      OBVIOUS
    <3>2. n \in Nids
      BY <2>1, <3>1 DEF StoreTyped
    <3>3. call' = [call EXCEPT ![k] = Sent("save", n)]
      BY <2>3, <3>1 DEF AfterCheck
    <3>4. "save" \in Kinds \ {"fetch"}
      BY DEF Kinds
    <3> QED BY <1>1, <2>1, <2>3, <3>2, <3>3, <3>4, CallSent
  <2> QED BY <1>4, <2>2, <2>3 DEF ReceiveCheck
<1>5. CASE ReceiveSave(k)
  <2>1. call[k].kind = "save"
    BY <1>5 DEF ReceiveSave, StoreAnswered
  <2>2. CASE /\ call' = [call EXCEPT ![k] = Sent("stock", @.nid)]
             /\ UNCHANGED <<server, list, loading, screen, filter, made,
                            history>>
    <3>1. PICK n : n = call[k].nid
      OBVIOUS
    <3>2. n \in Nids
      BY <2>1, <3>1 DEF StoreTyped
    <3>3. call' = [call EXCEPT ![k] = Sent("stock", n)]
      BY <2>2, <3>1
    <3>4. "stock" \in Kinds \ {"fetch"}
      BY DEF Kinds
    <3>5. /\ loading' \in BOOLEAN
          /\ UNCHANGED <<listed, version, storeProducts, currentPage, hasMore, filter, listFilter,
                         tidy>>
      BY <1>1, <2>2 DEF server, list, history
    <3> QED BY <2>1, <3>2, <3>3, <3>4, <3>5, CallSent
  <2> QED BY <1>5, <2>1, <2>2 DEF ReceiveSave
<1>6. CASE ReceiveStock(k)
  BY <1>6 DEF ReceiveStock
<1>7. CASE ReceiveCancel(k)
  <2>1. /\ call[k].kind = "cancel" /\ UNCHANGED <<listed, version, filter>>
        /\ FetchStoreProducts(k, FALSE, All)
    BY <1>7 DEF ReceiveCancel, StoreAnswered, server
  <2>2. FetchDropped(k) \/ FetchReset(k)
    BY <1>1, <2>1, FetchProductsResets
  <2> QED BY <1>1, <2>1, <2>2 DEF FetchStep
<1>8. CASE ReceiveError(k)
  <2>1. /\ loading' \in BOOLEAN /\ call' = [call EXCEPT ![k] = Free]
        /\ tidy' = (tidy /\ (FetchOf(call[k]) => call[k].append))
        /\ UNCHANGED <<listed, version, storeProducts, currentPage, hasMore, filter, listFilter>>
    BY <1>1, <1>8 DEF ReceiveError, LoadingAfterError, Done, server,
                      list
  <2>2. CASE call[k].kind = "fetch"
    BY <1>1, <2>1, <2>2 DEF FetchFails, FetchOf, CallRecord
  <2>3. CASE call[k].kind # "fetch"
    <3>1. tidy' = tidy
      BY <2>1, <2>3 DEF FetchOf, StoreTyped
    <3> QED BY <2>1, <2>3, <3>1, CallFreed
  <2> QED BY <2>2, <2>3
<1> QED BY <1>2, <1>3, <1>4, <1>5, <1>6, <1>7, <1>8 DEF Receive

LEMMA StoreSteps ==
  ASSUME StoreTyped, [StoreNext]_storeVars
  PROVE  \/ StoreQuiet
         \/ \E k \in Calls :
              \/ FetchStep(k) \/ OtherCall(k) \/ ReceiveRows(k) \/ FetchFails(k)
              \/ call[k].kind \in {"save", "stock"} /\ ShowNew(k)
              \/ Handle(k) \/ Lose(k)
<1>1. CASE Leave \/ OpenDetail \/ UNCHANGED storeVars
  BY <1>1 DEF Leave, OpenDetail, storeVars, server, list, history,
              StoreQuiet
<1>2. ASSUME NEW k \in Calls, User(k) PROVE FetchStep(k) \/ OtherCall(k)
  BY <1>2, UserSteps
<1>3. ASSUME NEW k \in Calls, Receive(k)
      PROVE  \/ FetchStep(k) \/ OtherCall(k) \/ ReceiveRows(k) \/ FetchFails(k)
             \/ call[k].kind \in {"save", "stock"} /\ ShowNew(k)
  BY <1>3, ReceiveSteps
<1> QED BY <1>1, <1>2, <1>3 DEF StoreNext

LEMMA PageRowsOf ==
  ASSUME StoreTyped, NEW f, NEW page \in Nat
  PROVE  /\ PageRows(f, page) \in Seq(ProductRow)
         /\ SameNids(PageRows(f, page), PageOfNids(Matching(f), page))
<1>1. PICK nids : nids = Matching(f)
  OBVIOUS
<1>2. nids \in Seq(Nids)
  BY <1>1, MatchingNids
<1>3. PICK p : p = PageOfNids(nids, page)
  OBVIOUS
<1>4. p \in Seq(Nids)
  <2>1. PICK m : m = page * ItemsPerPage
    OBVIOUS
  <2>2. PICK size : size = ItemsPerPage
    OBVIOUS
  <2>3. size \in Nat \ {0} /\ m \in Nat /\ (page + 1) * ItemsPerPage = m + size
    <3>1. ItemsPerPage \in Nat \ {0}
      BY StoreAssumption
    <3> QED BY <2>1, <2>2, <3>1, ProductOfNaturals
  <2>4. p = SubSeq(nids, m + 1, IF m + size < Len(nids) THEN m + size ELSE Len(nids))
    BY <1>3, <2>1, <2>3 DEF PageOfNids
  <2> HIDE <2>1, <2>2
  <2> QED BY <1>2, <2>3, <2>4, Slice
<1>5. PICK n : n = Len(p)
  OBVIOUS
<1>6. n \in Nat /\ DOMAIN p = 1..n /\ \A i \in 1..n : p[i] \in Nids
  BY <1>4, <1>5
<1>7. PICK rows : rows = [i \in 1..n |-> [nid |-> p[i], version |-> version[p[i]]]]
  OBVIOUS
<1>8. PageRows(f, page) = rows
  BY <1>1, <1>3, <1>6, <1>7 DEF PageRows, PageOfNids
<1>9. \A i \in 1..n : rows[i] \in ProductRow /\ rows[i].nid = p[i]
  <2>1. \A i \in 1..n : version[p[i]] \in Nat
    BY <1>6 DEF StoreTyped
  <2> QED BY <1>6, <1>7, <2>1 DEF ProductRow
<1>10. rows \in Seq(ProductRow) /\ Len(rows) = n
  <2>1. rows \in [1..n -> ProductRow]
    <3>1. rows = [i \in 1..n |-> rows[i]]
      BY <1>7
    <3> QED BY <1>9, <3>1
  <2> QED BY <1>6, <2>1
<1>11. SameNids(rows, p)
  BY <1>5, <1>9, <1>10 DEF SameNids
<1> QED BY <1>1, <1>3, <1>8, <1>10, <1>11

\* The server answers call k.
CallAnswered(k) ==
  \E c \in CallRecord :
    /\ call' = [call EXCEPT ![k] = c]
    /\ c.stage = "answered" /\ c.kind = call[k].kind /\ c.append = call[k].append
    /\ c.filters = call[k].filters /\ c.page = call[k].page /\ c.nid = call[k].nid
    /\ FetchOf(c) => c.rows = PageRows(c.filters, c.page)

LEMMA HandleAnswers ==
  ASSUME StoreTyped, NEW k \in Calls, Handle(k)
  PROVE  /\ CallAnswered(k)
         /\ listed' \in SUBSET Nids /\ version' \in [Nids -> Nat]
<1>1. PICK b : b = call[k]
  OBVIOUS
<1>2. b \in CallRecord /\ (b.kind \notin {"none", "fetch"} => b.nid \in Nids)
  BY <1>1 DEF StoreTyped
<1>3. listed' \in SUBSET Nids
  BY <1>1, <1>2 DEF Handle, StoreTyped
<1>4. version' \in [Nids -> Nat]
  <2>1. CASE b.kind \in {"update", "cancel", "stock"}
    <3>1. b.nid \in Nids
      BY <1>2, <2>1
    <3>2. version' = [version EXCEPT ![b.nid] = version[b.nid] + 1]
      BY <1>1, <2>1 DEF Handle
    <3>3. version \in [Nids -> Nat]
      BY DEF StoreTyped
    <3>4. PICK n, v : n = b.nid /\ v = version[b.nid] + 1
      OBVIOUS
    <3>5. version[b.nid] \in Nat
      BY <3>1, <3>3
    <3>6. n \in Nids /\ v \in Nat
      BY <3>1, <3>4, <3>5
    <3>7. version' = [version EXCEPT ![n] = v]
      BY <3>2, <3>4
    <3> QED BY <3>3, <3>6, <3>7
  <2>2. CASE b.kind \notin {"update", "cancel", "stock"}
    BY <1>1, <2>2 DEF Handle, StoreTyped
  <2> QED BY <2>1, <2>2
<1>5. PICK rows : rows = IF FetchOf(b) THEN PageRows(b.filters, b.page) ELSE b.rows
  OBVIOUS
<1>6. rows \in Seq(ProductRow)
  <2>1. b.page \in Nat /\ b.rows \in Seq(ProductRow)
    BY <1>2 DEF CallRecord
  <2>2. PageRows(b.filters, b.page) \in Seq(ProductRow)
    BY <2>1, PageRowsOf
  <2> QED BY <1>5, <2>1, <2>2
<1>7. PICK answer : answer = IF b.nid \in Nids THEN version'[b.nid] ELSE 0
  OBVIOUS
<1>8. answer \in Nat
  BY <1>4, <1>7
<1>9. PICK c : c = [b EXCEPT !.stage = "answered", !.rows = rows, !.answer = answer]
  OBVIOUS
<1>10. /\ c \in CallRecord /\ c.stage = "answered" /\ c.kind = b.kind /\ c.append = b.append
       /\ c.filters = b.filters /\ c.page = b.page /\ c.nid = b.nid /\ c.rows = rows
  BY <1>2, <1>6, <1>8, <1>9 DEF CallRecord
<1>11. call' = [call EXCEPT ![k] = c]
  <2>1. call' = [call EXCEPT ![k].stage = "answered", ![k].rows = rows, ![k].answer = answer]
    BY <1>1, <1>5, <1>7 DEF Handle
  <2>2. call \in [Calls -> CallRecord]
    BY DEF StoreTyped
  <2> QED BY <1>1, <1>9, <2>1, <2>2
<1>12. FetchOf(c) => c.rows = PageRows(c.filters, c.page)
  BY <1>5, <1>10 DEF FetchOf
<1> QED BY <1>1, <1>3, <1>4, <1>10, <1>11, <1>12 DEF CallAnswered

LEMMA LoseFails ==
  ASSUME StoreTyped, NEW k \in Calls, Lose(k)
  PROVE  \E c \in CallRecord :
           /\ call' = [call EXCEPT ![k] = c]
           /\ c.stage = "failed" /\ c.kind = call[k].kind /\ c.append = call[k].append
           /\ c.filters = call[k].filters /\ c.page = call[k].page /\ c.nid = call[k].nid
<1>1. PICK b : b = call[k]
  OBVIOUS
<1>2. b \in CallRecord
  BY <1>1 DEF StoreTyped
<1>3. PICK c : c = [b EXCEPT !.stage = "failed"]
  OBVIOUS
<1>4. /\ c \in CallRecord /\ c.stage = "failed" /\ c.kind = b.kind /\ c.append = b.append
      /\ c.filters = b.filters /\ c.page = b.page /\ c.nid = b.nid
  BY <1>2, <1>3 DEF CallRecord
<1>5. call' = [call EXCEPT ![k] = c]
  BY <1>1, <1>3 DEF Lose, StoreTyped
<1> QED BY <1>1, <1>4, <1>5

-----------------------------------------------------------------------------
(* The store of products: types.                                           *)

LEMMA StoreTypedInit ==
  ASSUME StoreInit
  PROVE  StoreTyped
<1>1. listed \in SUBSET Nids /\ version \in [Nids -> Nat]
  BY StoreAssumption DEF StoreInit
<1>2. \A k \in Calls : call[k] = Free
  BY DEF StoreInit
<1>3. call \in [Calls -> CallRecord]
  BY FreeIsACall DEF StoreInit
<1>4. \A k \in Calls : call[k].kind = "none"
  BY <1>2, FreeIsACall
<1>5. storeProducts \in Seq(ProductRow)
  BY DEF StoreInit
<1>6. /\ currentPage \in Nat /\ hasMore \in BOOLEAN /\ loading \in BOOLEAN
      /\ filter \in Filters /\ listFilter \in Filters /\ tidy \in BOOLEAN
  BY AllIsAFilter DEF StoreInit
<1> QED BY <1>1, <1>3, <1>4, <1>5, <1>6 DEF StoreTyped

\* A call that is replaced by one of the kind of product it is for.
LEMMA CallsTyped ==
  ASSUME StoreTyped, NEW k \in Calls, NEW c \in CallRecord, call' = [call EXCEPT ![k] = c],
         c.kind \notin {"none", "fetch"} => c.nid \in Nids
  PROVE  /\ call' \in [Calls -> CallRecord]
         /\ \A j \in Calls : call'[j].kind \notin {"none", "fetch"} => call'[j].nid \in Nids
<1>1. /\ call' \in [Calls -> CallRecord] /\ call'[k] = c
      /\ \A j \in Calls : j # k => call'[j] = call[j]
  BY CallChange
<1> QED BY <1>1 DEF StoreTyped

LEMMA CallsFreed ==
  ASSUME StoreTyped, NEW k \in Calls, call' = [call EXCEPT ![k] = Free]
  PROVE  /\ call' \in [Calls -> CallRecord] /\ call'[k].kind = "none"
         /\ \A j \in Calls : j # k => call'[j] = call[j]
         /\ \A j \in Calls : call'[j].kind \notin {"none", "fetch"} => call'[j].nid \in Nids
<1>1. PICK c : c = Free
  OBVIOUS
<1>2. c \in CallRecord /\ c.kind = "none"
  BY <1>1, FreeIsACall
<1> QED BY <1>1, <1>2, CallChange, CallsTyped

LEMMA StoreTypedStep ==
  ASSUME StoreTyped, [StoreNext]_storeVars
  PROVE  StoreTyped'
<1>1. CASE StoreQuiet
  BY <1>1 DEF StoreQuiet, StoreTyped
<1>2. ASSUME NEW k \in Calls, FetchStep(k) PROVE StoreTyped'
  <2>1. filter' \in Filters /\ UNCHANGED <<listed, version>>
    BY <1>2 DEF FetchStep
  <2>2. CASE FetchDropped(k)
    <3>1. /\ call' = [call EXCEPT ![k] = Free]
          /\ UNCHANGED <<storeProducts, currentPage, hasMore, loading, listFilter, tidy>>
      BY <2>2 DEF FetchDropped
    <3>2. /\ call' \in [Calls -> CallRecord]
          /\ \A j \in Calls : call'[j].kind \notin {"none", "fetch"} => call'[j].nid \in Nids
      BY <3>1, CallsFreed
    <3> QED BY <2>1, <3>1, <3>2 DEF StoreTyped
  <2>3. CASE FetchReset(k)
    <3>1. PICK c \in CallRecord :
            /\ call' = [call EXCEPT ![k] = c] /\ c.kind = "fetch" /\ listFilter' \in Filters
            /\ currentPage' = 0 /\ hasMore' = TRUE /\ loading' = TRUE
            /\ tidy' \in BOOLEAN /\ storeProducts' = storeProducts
      BY <2>3 DEF FetchReset
    <3>2. /\ call' \in [Calls -> CallRecord]
          /\ \A j \in Calls : call'[j].kind \notin {"none", "fetch"} => call'[j].nid \in Nids
      BY <3>1, CallsTyped
    <3> QED BY <2>1, <3>1, <3>2 DEF StoreTyped
  <2>4. CASE FetchNext(k)
    <3>1. PICK c \in CallRecord :
            /\ call' = [call EXCEPT ![k] = c] /\ c.kind = "fetch" /\ listFilter' = listFilter
            /\ currentPage' = currentPage /\ hasMore' = hasMore /\ loading' = TRUE
            /\ tidy' \in BOOLEAN /\ storeProducts' = storeProducts
      BY <2>4 DEF FetchNext
    <3>2. /\ call' \in [Calls -> CallRecord]
          /\ \A j \in Calls : call'[j].kind \notin {"none", "fetch"} => call'[j].nid \in Nids
      BY <3>1, CallsTyped
    <3> QED BY <2>1, <3>1, <3>2 DEF StoreTyped
  <2> QED BY <1>2, <2>2, <2>3, <2>4 DEF FetchStep
<1>3. ASSUME NEW k \in Calls, OtherCall(k) PROVE StoreTyped'
  <2>1. PICK c \in CallRecord :
          /\ call' = [call EXCEPT ![k] = c]
          /\ c.kind \notin {"none", "fetch"} => c.nid \in Nids
          /\ loading' \in BOOLEAN
          /\ UNCHANGED <<listed, version, storeProducts, currentPage, hasMore, filter, listFilter,
                         tidy>>
    BY <1>3 DEF OtherCall
  <2>2. /\ call' \in [Calls -> CallRecord]
        /\ \A j \in Calls : call'[j].kind \notin {"none", "fetch"} => call'[j].nid \in Nids
    BY <2>1, CallsTyped
  <2> QED BY <2>1, <2>2 DEF StoreTyped
<1>4. ASSUME NEW k \in Calls, ReceiveRows(k) PROVE StoreTyped'
  <2>1. /\ call' \in [Calls -> CallRecord]
        /\ \A j \in Calls : call'[j].kind \notin {"none", "fetch"} => call'[j].nid \in Nids
    BY <1>4, CallsFreed DEF ReceiveRows, Done
  <2>2. storeProducts' \in Seq(ProductRow)
    <3>1. storeProducts \in Seq(ProductRow) /\ call[k].rows \in Seq(ProductRow)
      BY DEF StoreTyped, CallRecord
    <3>2. storeProducts \o call[k].rows \in Seq(ProductRow)
      BY <3>1, ProductsJoined
    <3> QED BY <1>4, <3>1, <3>2 DEF ReceiveRows, ShownRows
  <2>3. currentPage' \in Nat
    BY <1>4 DEF ReceiveRows, PageAfter, StoreTyped
  <2>4. hasMore' \in BOOLEAN /\ loading' \in BOOLEAN
    BY <1>4 DEF ReceiveRows
  <2>5. UNCHANGED <<listed, version, filter, listFilter, tidy>>
    BY <1>4 DEF ReceiveRows, server, history
  <2> QED BY <2>1, <2>2, <2>3, <2>4, <2>5 DEF StoreTyped
<1>5. ASSUME NEW k \in Calls, FetchFails(k) PROVE StoreTyped'
  <2>1. /\ call' \in [Calls -> CallRecord]
        /\ \A j \in Calls : call'[j].kind \notin {"none", "fetch"} => call'[j].nid \in Nids
    BY <1>5, CallsFreed DEF FetchFails
  <2>2. tidy' \in BOOLEAN
    BY <1>5 DEF FetchFails
  <2> QED BY <1>5, <2>1, <2>2 DEF FetchFails, StoreTyped
<1>6. ASSUME NEW k \in Calls, call[k].kind \in {"save", "stock"}, ShowNew(k) PROVE StoreTyped'
  <2>1. /\ call' \in [Calls -> CallRecord]
        /\ \A j \in Calls : call'[j].kind \notin {"none", "fetch"} => call'[j].nid \in Nids
    BY <1>6, CallsFreed DEF ShowNew, Done
  <2>2. call[k].nid \in Nids /\ call[k].answer \in Nat
    BY <1>6 DEF StoreTyped, CallRecord
  <2>3. PICK row : row = [nid |-> call[k].nid, version |-> call[k].answer]
    OBVIOUS
  <2>4. row \in ProductRow
    BY <2>2, <2>3 DEF ProductRow
  <2>5. <<row>> \in Seq(ProductRow) /\ storeProducts \in Seq(ProductRow)
    BY <2>4 DEF StoreTyped
  <2>6. storeProducts' = <<row>> \o storeProducts
    BY <1>6, <2>3 DEF ShowNew
  <2>7. storeProducts' \in Seq(ProductRow)
    BY <2>5, <2>6, ProductsJoined
  <2> QED BY <1>6, <2>1, <2>7 DEF ShowNew, StoreTyped, server
<1>7. ASSUME NEW k \in Calls, Handle(k) PROVE StoreTyped'
  <2>1. CallAnswered(k) /\ listed' \in SUBSET Nids /\ version' \in [Nids -> Nat]
    BY <1>7, HandleAnswers
  <2>2. PICK c \in CallRecord :
          call' = [call EXCEPT ![k] = c] /\ c.kind = call[k].kind /\ c.nid = call[k].nid
    BY <2>1 DEF CallAnswered
  <2>3. c.kind \notin {"none", "fetch"} => c.nid \in Nids
    BY <2>2 DEF StoreTyped
  <2>4. /\ call' \in [Calls -> CallRecord]
        /\ \A j \in Calls : call'[j].kind \notin {"none", "fetch"} => call'[j].nid \in Nids
    BY <2>2, <2>3, CallsTyped
  <2>5. tidy' \in BOOLEAN
    BY <1>7 DEF Handle
  <2> QED BY <1>7, <2>1, <2>4, <2>5 DEF Handle, StoreTyped, list
<1>8. ASSUME NEW k \in Calls, Lose(k) PROVE StoreTyped'
  <2>1. PICK c \in CallRecord :
          call' = [call EXCEPT ![k] = c] /\ c.kind = call[k].kind /\ c.nid = call[k].nid
    BY <1>8, LoseFails
  <2>2. c.kind \notin {"none", "fetch"} => c.nid \in Nids
    BY <2>1 DEF StoreTyped
  <2>3. /\ call' \in [Calls -> CallRecord]
        /\ \A j \in Calls : call'[j].kind \notin {"none", "fetch"} => call'[j].nid \in Nids
    BY <2>1, <2>2, CallsTyped
  <2> QED BY <1>8, <2>3 DEF Lose, StoreTyped, server, list, history
<1> QED BY <1>1, <1>2, <1>3, <1>4, <1>5, <1>6, <1>7, <1>8, StoreSteps

-----------------------------------------------------------------------------
(* The store of products: pages.                                           *)

LEMMA MatchingStays ==
  ASSUME listed' = listed, listFilter' = listFilter
  PROVE  Matching(listFilter)' = Matching(listFilter)
BY DEF Matching

LEMMA PagesInit ==
  ASSUME StoreInit
  PROVE  PagesInv
<1>1. ~tidy
  BY DEF StoreInit
<1> QED BY <1>1 DEF PagesInv, OneFetch, FetchesNextPage, ListComplete

\* What call j asks for stays, and if it is answered in the step, with its page.
SameFetch(j) ==
  /\ FetchOf(call[j])' <=> FetchOf(call[j])
  /\ FetchOf(call[j]) =>
       /\ call'[j].append = call[j].append /\ call'[j].filters = call[j].filters
       /\ call'[j].page = call[j].page
       /\ call'[j].stage = "answered" =>
            \/ call'[j].stage = call[j].stage /\ call'[j].rows = call[j].rows
            \/ SameNids(call'[j].rows, PageOfNids(Matching(call[j].filters), call[j].page))

\* A step that leaves the list and what its fetches ask for keeps the pages in order.
LEMMA PagesKept ==
  ASSUME PagesInv, \A j \in Calls : SameFetch(j),
         tidy' => tidy /\ listed' = listed,
         UNCHANGED <<storeProducts, currentPage, hasMore, listFilter>>
  PROVE  PagesInv'
<1>1. OneFetch'
  <2>1. SUFFICES ASSUME tidy', NEW j \in Calls, NEW k \in Calls,
                        FetchOf(call[j])', FetchOf(call[k])'
                 PROVE  j = k
    BY DEF OneFetch
  <2>2. FetchOf(call[j]) /\ FetchOf(call[k])
    BY <2>1 DEF SameFetch
  <2> QED BY <2>1, <2>2 DEF PagesInv, OneFetch
<1>2. FetchesNextPage'
  <2>1. SUFFICES ASSUME NEW k \in Calls, tidy', FetchOf(call[k])'
                 PROVE  /\ call'[k].filters = listFilter' /\ call'[k].page = currentPage'
                        /\ hasMore'
                        /\ call'[k].append \/ currentPage' = 0
                        /\ call'[k].stage = "answered" =>
                             SameNids(call'[k].rows,
                                      PageOfNids(Matching(listFilter)', currentPage'))
    BY DEF FetchesNextPage, SameNids, PageOfNids
  <2>2. SameFetch(k) /\ tidy /\ FetchOf(call[k])
    BY <2>1 DEF SameFetch
  <2>3. /\ call[k].filters = listFilter /\ call[k].page = currentPage /\ hasMore
        /\ call[k].append \/ currentPage = 0
        /\ call[k].stage = "answered" =>
             SameNids(call[k].rows, PageOfNids(Matching(listFilter), currentPage))
    BY <2>2 DEF PagesInv, FetchesNextPage
  <2>4. PICK all : all = Matching(listFilter)
    OBVIOUS
  <2>5. Matching(listFilter)' = all
    BY <2>1, <2>4, MatchingStays
  <2>6. call'[k].stage = "answered" => SameNids(call'[k].rows, PageOfNids(all, currentPage))
    <3>1. SUFFICES ASSUME call'[k].stage = "answered"
                   PROVE  SameNids(call'[k].rows, PageOfNids(all, currentPage))
      OBVIOUS
    <3>2. CASE call'[k].stage = call[k].stage /\ call'[k].rows = call[k].rows
      BY <2>3, <2>4, <3>1, <3>2
    <3>3. CASE SameNids(call'[k].rows, PageOfNids(Matching(call[k].filters), call[k].page))
      BY <2>3, <2>4, <3>3
    <3> QED BY <2>2, <3>1, <3>2, <3>3 DEF SameFetch
  <2> QED BY <2>2, <2>3, <2>5, <2>6 DEF SameFetch
<1>3. ListComplete'
  <2>1. SUFFICES ASSUME tidy', \A k \in Calls : FetchOf(call[k])' => call'[k].append
                 PROVE  /\ NidsIn(storeProducts', Matching(listFilter)')
                        /\ IF hasMore' THEN Len(storeProducts') = currentPage' * ItemsPerPage
                                       ELSE Len(storeProducts') = Len(Matching(listFilter)')
    BY DEF ListComplete, NidsIn
  <2>2. tidy /\ \A k \in Calls : FetchOf(call[k]) => call[k].append
    BY <2>1 DEF SameFetch
  <2>3. PICK all : all = Matching(listFilter)
    OBVIOUS
  <2>4. Matching(listFilter)' = all
    BY <2>1, <2>3, MatchingStays
  <2>5. /\ NidsIn(storeProducts, all)
        /\ IF hasMore THEN Len(storeProducts) = currentPage * ItemsPerPage
                      ELSE Len(storeProducts) = Len(all)
    BY <2>2, <2>3 DEF PagesInv, ListComplete
  <2> QED BY <2>4, <2>5
<1> QED BY <1>1, <1>2, <1>3 DEF PagesInv

LEMMA SameCall ==
  ASSUME NEW j \in Calls, call'[j] = call[j]
  PROVE  SameFetch(j)
BY DEF SameFetch, FetchOf

\* A call that is no fetch, before and after the step.
LEMMA NoFetch ==
  ASSUME NEW j \in Calls, call[j].kind # "fetch", call'[j].kind # "fetch"
  PROVE  SameFetch(j)
BY DEF SameFetch, FetchOf

LEMMA OthersSame ==
  ASSUME StoreTyped, NEW k \in Calls, NEW c \in CallRecord, call' = [call EXCEPT ![k] = c],
         call[k].kind # "fetch", c.kind # "fetch"
  PROVE  \A j \in Calls : SameFetch(j)
<1>1. call'[k] = c /\ \A j \in Calls : j # k => call'[j] = call[j]
  BY CallChange
<1> QED BY <1>1, SameCall, NoFetch

\* A new fetch is the only one if no other was under way.
LEMMA OnlyFetch ==
  ASSUME NEW k \in Calls, \A j \in Calls : j # k => call'[j] = call[j], ~OtherFetch(k)
  PROVE  \A j \in Calls : FetchOf(call[j])' => j = k
BY DEF OtherFetch, FetchOf

LEMMA PagesAskedFirst ==
  ASSUME StoreTyped, PagesInv, NEW k \in Calls, FetchReset(k)
  PROVE  PagesInv'
<1>1. PICK c \in CallRecord :
        /\ call' = [call EXCEPT ![k] = c]
        /\ c.kind = "fetch" /\ c.stage = "sent" /\ ~c.append /\ c.page = 0
        /\ c.filters = listFilter'
        /\ currentPage' = 0 /\ hasMore' = TRUE
        /\ tidy' = ~OtherFetch(k)
  BY DEF FetchReset
<1>2. call'[k] = c /\ \A j \in Calls : j # k => call'[j] = call[j]
  BY <1>1, CallChange
<1>3. tidy' => \A j \in Calls : FetchOf(call[j])' => j = k
  BY <1>1, <1>2, OnlyFetch
<1>4. OneFetch'
  BY <1>3 DEF OneFetch
<1>5. FetchesNextPage'
  BY <1>1, <1>2, <1>3 DEF FetchesNextPage
<1>6. FetchOf(call[k])' /\ ~call'[k].append
  BY <1>1, <1>2 DEF FetchOf
<1>7. ListComplete'
  BY <1>6 DEF ListComplete
<1> QED BY <1>4, <1>5, <1>7 DEF PagesInv

LEMMA PagesAskedNext ==
  ASSUME StoreTyped, PagesInv, NEW k \in Calls, listed' = listed, call[k].kind # "fetch",
         FetchNext(k)
  PROVE  PagesInv'
<1>1. PICK c \in CallRecord :
        /\ call' = [call EXCEPT ![k] = c]
        /\ c.kind = "fetch" /\ c.stage = "sent" /\ c.append /\ c.page = currentPage
        /\ hasMore /\ currentPage' = currentPage /\ hasMore' = hasMore
        /\ listFilter' = listFilter
        /\ tidy' = (~OtherFetch(k) /\ tidy /\ c.filters = listFilter)
        /\ storeProducts' = storeProducts
  BY DEF FetchNext
<1>2. call'[k] = c /\ \A j \in Calls : j # k => call'[j] = call[j]
  BY <1>1, CallChange
<1>3. tidy' => \A j \in Calls : FetchOf(call[j])' => j = k
  BY <1>1, <1>2, OnlyFetch
<1>4. OneFetch'
  BY <1>3 DEF OneFetch
<1>5. FetchesNextPage'
  BY <1>1, <1>2, <1>3 DEF FetchesNextPage
<1>6. ListComplete'
  <2>1. SUFFICES ASSUME tidy'
                 PROVE  /\ NidsIn(storeProducts', Matching(listFilter)')
                        /\ IF hasMore' THEN Len(storeProducts') = currentPage' * ItemsPerPage
                                       ELSE Len(storeProducts') = Len(Matching(listFilter)')
    BY DEF ListComplete, NidsIn
  <2>2. tidy /\ ~OtherFetch(k)
    BY <1>1, <2>1
  <2>3. \A j \in Calls : ~FetchOf(call[j])
    BY <2>2 DEF OtherFetch, FetchOf
  <2>4. PICK all : all = Matching(listFilter)
    OBVIOUS
  <2>5. Matching(listFilter)' = all
    BY <1>1, <2>4, MatchingStays
  <2>6. /\ NidsIn(storeProducts, all)
        /\ IF hasMore THEN Len(storeProducts) = currentPage * ItemsPerPage
                      ELSE Len(storeProducts) = Len(all)
    BY <2>2, <2>3, <2>4 DEF PagesInv, ListComplete
  <2> QED BY <1>1, <2>5, <2>6
<1> QED BY <1>4, <1>5, <1>6 DEF PagesInv

\* Once call k is freed no fetch is under way, if it was the only one.
LEMMA LastFetchEnds ==
  ASSUME StoreTyped, PagesInv, tidy, NEW k \in Calls, FetchOf(call[k]),
         call' = [call EXCEPT ![k] = Free]
  PROVE  \A j \in Calls : ~FetchOf(call[j])'
<1>1. call'[k].kind = "none" /\ \A j \in Calls : j # k => call'[j] = call[j]
  BY CallsFreed
<1>2. \A j \in Calls : FetchOf(call[j]) => j = k
  BY DEF PagesInv, OneFetch
<1> QED BY <1>1, <1>2 DEF FetchOf

\* The rows received follow the rows of the pages before.
LEMMA RowsReceived ==
  ASSUME StoreTyped, PagesInv, tidy, NEW k \in Calls,
         ReceiveRows(k)
  PROVE  /\ NidsIn(storeProducts', Matching(listFilter))
         /\ IF hasMore' THEN Len(storeProducts') = currentPage' * ItemsPerPage
                        ELSE Len(storeProducts') = Len(Matching(listFilter))
<1>1. PICK rows : rows = call[k].rows
  OBVIOUS
<1>2. PICK all : all = Matching(listFilter)
  OBVIOUS
<1>3. PICK m : m = currentPage * ItemsPerPage
  OBVIOUS
<1>4. PICK size : size = ItemsPerPage
  OBVIOUS
<1>5. rows \in Seq(ProductRow) /\ all \in Seq(Nids) /\ currentPage \in Nat
  BY <1>1, <1>2, MatchingNids DEF StoreTyped, CallRecord
<1>6. size \in Nat \ {0} /\ m \in Nat /\ (currentPage + 1) * ItemsPerPage = m + size
  <2>1. ItemsPerPage \in Nat \ {0}
    BY StoreAssumption
  <2> QED BY <1>3, <1>4, <1>5, <2>1, ProductOfNaturals
<1>7. /\ FetchOf(call[k]) /\ call[k].stage = "answered"
      /\ storeProducts' = ShownRows(call[k])
      /\ hasMore' = (FullPage(rows) /\ hasMore)
      /\ currentPage' = PageAfter(rows)
  BY <1>1 DEF ReceiveRows, StoreAnswered, FetchOf
<1>8. \A j \in Calls : FetchOf(call[j]) => j = k
  BY <1>7 DEF PagesInv, OneFetch
<1>9. /\ hasMore /\ (call[k].append \/ currentPage = 0)
      /\ SameNids(rows, PageOfNids(all, currentPage))
  BY <1>1, <1>2, <1>7 DEF PagesInv, FetchesNextPage
<1>10. SameNids(rows, SubSeq(all, m + 1, IF m + size < Len(all) THEN m + size ELSE Len(all)))
  BY <1>3, <1>6, <1>9 DEF PageOfNids
<1>11. PICK before : before = IF call[k].append THEN storeProducts ELSE <<>>
  OBVIOUS
<1>12. before \in Seq(ProductRow) /\ NidsIn(before, all) /\ Len(before) = m
  <2>1. CASE call[k].append
    <3>1. \A j \in Calls : FetchOf(call[j]) => call[j].append
      BY <1>8, <2>1
    <3>2. NidsIn(storeProducts, all) /\ Len(storeProducts) = currentPage * ItemsPerPage
      BY <1>2, <1>9, <3>1 DEF PagesInv, ListComplete
    <3> QED BY <1>3, <1>11, <2>1, <3>2 DEF StoreTyped
  <2>2. CASE ~call[k].append
    <3>1. currentPage = 0 /\ before = <<>>
      BY <1>9, <1>11, <2>2
    <3>2. m = 0
      <4>1. ItemsPerPage \in Nat
        BY StoreAssumption
      <4> QED BY <1>3, <3>1, <4>1
    <3>3. before \in Seq(ProductRow) /\ Len(before) = 0
      BY <3>1
    <3>4. Len(all) \in Nat
      BY <1>5
    <3> QED BY <3>2, <3>3, <3>4 DEF NidsIn
  <2> QED BY <2>1, <2>2
<1>13. storeProducts' = before \o rows
  <2>1. CASE call[k].append
    BY <1>1, <1>7, <1>11, <2>1 DEF ShownRows
  <2>2. CASE ~call[k].append
    <3>1. <<>> \o rows = rows
      BY <1>5
    <3> QED BY <1>1, <1>7, <1>11, <2>2, <3>1 DEF ShownRows
  <2> QED BY <2>1, <2>2
<1>14. /\ NidsIn(storeProducts', all)
       /\ Len(rows) >= size => Len(storeProducts') = m + size
       /\ ~(Len(rows) >= size) => Len(storeProducts') = Len(all)
  BY <1>5, <1>6, <1>10, <1>12, <1>13, PageAfterPages
<1>15. FullPage(rows) <=> Len(rows) >= size
  BY <1>4 DEF FullPage
<1>16. CASE Len(rows) >= size
  <2>1. hasMore' /\ currentPage' = currentPage + 1
    BY <1>7, <1>9, <1>15, <1>16 DEF PageAfter
  <2> QED BY <1>2, <1>6, <1>14, <1>16, <2>1
<1>17. CASE ~(Len(rows) >= size)
  <2>1. ~hasMore'
    BY <1>7, <1>15, <1>17
  <2> QED BY <1>2, <1>14, <1>17, <2>1
<1> QED BY <1>16, <1>17

LEMMA PagesReceived ==
  ASSUME StoreTyped, PagesInv, NEW k \in Calls, ReceiveRows(k)
  PROVE  PagesInv'
<1>1. /\ FetchOf(call[k]) /\ call' = [call EXCEPT ![k] = Free]
      /\ listed' = listed /\ listFilter' = listFilter /\ tidy' = tidy
  BY DEF ReceiveRows, StoreAnswered, FetchOf, Done, server, history
<1>2. CASE ~tidy
  BY <1>1, <1>2 DEF PagesInv, OneFetch, FetchesNextPage, ListComplete
<1>3. CASE tidy
  <2>1. \A j \in Calls : ~FetchOf(call[j])'
    BY <1>1, <1>3, LastFetchEnds
  <2>2. PICK all : all = Matching(listFilter)
    OBVIOUS
  <2>3. Matching(listFilter)' = all
    BY <1>1, <2>2, MatchingStays
  <2>4. /\ NidsIn(storeProducts', all)
        /\ IF hasMore' THEN Len(storeProducts') = currentPage' * ItemsPerPage
                       ELSE Len(storeProducts') = Len(all)
    BY <1>3, <2>2, RowsReceived
  <2>5. ListComplete'
    BY <2>3, <2>4 DEF ListComplete, NidsIn
  <2> QED BY <2>1, <2>5 DEF PagesInv, OneFetch, FetchesNextPage
<1> QED BY <1>2, <1>3

LEMMA PagesAfterFailure ==
  ASSUME StoreTyped, PagesInv, NEW k \in Calls, FetchFails(k)
  PROVE  PagesInv'
<1>1. /\ FetchOf(call[k]) /\ call' = [call EXCEPT ![k] = Free]
      /\ tidy' = (tidy /\ call[k].append)
      /\ UNCHANGED <<listed, storeProducts, currentPage, hasMore, listFilter>>
  BY DEF FetchFails, FetchOf
<1>2. CASE ~tidy'
  BY <1>2 DEF PagesInv, OneFetch, FetchesNextPage, ListComplete
<1>3. CASE tidy'
  <2>1. tidy /\ call[k].append
    BY <1>1, <1>3
  <2>2. \A j \in Calls : ~FetchOf(call[j])'
    BY <1>1, <2>1, LastFetchEnds
  <2>3. \A j \in Calls : FetchOf(call[j]) => call[j].append
    BY <1>1, <2>1 DEF PagesInv, OneFetch
  <2>4. PICK all : all = Matching(listFilter)
    OBVIOUS
  <2>5. Matching(listFilter)' = all
    BY <1>1, <2>4, MatchingStays
  <2>6. /\ NidsIn(storeProducts, all)
        /\ IF hasMore THEN Len(storeProducts) = currentPage * ItemsPerPage
                      ELSE Len(storeProducts) = Len(all)
    BY <2>1, <2>3, <2>4 DEF PagesInv, ListComplete
  <2>7. ListComplete'
    BY <1>1, <2>5, <2>6 DEF ListComplete, NidsIn
  <2> QED BY <2>2, <2>7 DEF PagesInv, OneFetch, FetchesNextPage
<1> QED BY <1>2, <1>3

LEMMA PagesHandled ==
  ASSUME StoreTyped, PagesInv, NEW k \in Calls, Handle(k)
  PROVE  PagesInv'
<1>1. PICK c \in CallRecord :
        /\ call' = [call EXCEPT ![k] = c]
        /\ c.stage = "answered" /\ c.kind = call[k].kind /\ c.append = call[k].append
        /\ c.filters = call[k].filters /\ c.page = call[k].page
        /\ FetchOf(c) => c.rows = PageRows(c.filters, c.page)
  BY HandleAnswers DEF CallAnswered
<1>2. call'[k] = c /\ \A j \in Calls : j # k => call'[j] = call[j]
  BY <1>1, CallChange
<1>3. /\ UNCHANGED <<storeProducts, currentPage, hasMore, listFilter>>
      /\ tidy' => tidy /\ listed' = listed
  BY DEF Handle, list
<1>4. FetchOf(c) => SameNids(c.rows, PageOfNids(Matching(c.filters), c.page))
  <2>1. c.page \in Nat
    BY DEF CallRecord
  <2> QED BY <1>1, <2>1, PageRowsOf
<1>5. SameFetch(k)
  BY <1>1, <1>2, <1>4 DEF SameFetch, FetchOf
<1>6. \A j \in Calls : SameFetch(j)
  BY <1>2, <1>5, SameCall
<1> QED BY <1>3, <1>6, PagesKept

LEMMA PagesLost ==
  ASSUME StoreTyped, PagesInv, NEW k \in Calls, Lose(k)
  PROVE  PagesInv'
<1>1. PICK c \in CallRecord :
        /\ call' = [call EXCEPT ![k] = c]
        /\ c.stage = "failed" /\ c.kind = call[k].kind /\ c.append = call[k].append
        /\ c.filters = call[k].filters /\ c.page = call[k].page
  BY LoseFails
<1>2. call'[k] = c /\ \A j \in Calls : j # k => call'[j] = call[j]
  BY <1>1, CallChange
<1>3. UNCHANGED <<storeProducts, currentPage, hasMore, listFilter, tidy, listed>>
  BY DEF Lose, server, list, history
<1>4. SameFetch(k)
  BY <1>1, <1>2 DEF SameFetch, FetchOf
<1>5. \A j \in Calls : SameFetch(j)
  BY <1>2, <1>4, SameCall
<1> QED BY <1>3, <1>5, PagesKept

LEMMA PagesStep ==
  ASSUME StoreTyped, PagesInv, [StoreNext]_storeVars
  PROVE  PagesInv'
<1>1. CASE StoreQuiet
  <2>1. \A j \in Calls : SameFetch(j)
    BY <1>1, SameCall DEF StoreQuiet
  <2> QED BY <1>1, <2>1, PagesKept DEF StoreQuiet
<1>2. ASSUME NEW k \in Calls, FetchStep(k) PROVE PagesInv'
  <2>1. call[k].kind # "fetch" /\ listed' = listed
    BY <1>2 DEF FetchStep
  <2>2. CASE FetchDropped(k)
    <3>1. PICK c : c = Free
      OBVIOUS
    <3>2. c \in CallRecord /\ c.kind # "fetch" /\ call' = [call EXCEPT ![k] = c]
      BY <2>2, <3>1, FreeIsACall DEF FetchDropped
    <3>3. \A j \in Calls : SameFetch(j)
      BY <2>1, <3>2, OthersSame
    <3> QED BY <2>1, <2>2, <3>3, PagesKept DEF FetchDropped
  <2>3. CASE FetchReset(k)
    BY <2>3, PagesAskedFirst
  <2>4. CASE FetchNext(k)
    BY <2>1, <2>4, PagesAskedNext
  <2> QED BY <1>2, <2>2, <2>3, <2>4 DEF FetchStep
<1>3. ASSUME NEW k \in Calls, OtherCall(k) PROVE PagesInv'
  <2>1. PICK c \in CallRecord :
          /\ call' = [call EXCEPT ![k] = c] /\ c.kind # "fetch" /\ call[k].kind # "fetch"
          /\ UNCHANGED <<listed, storeProducts, currentPage, hasMore, listFilter, tidy>>
    BY <1>3 DEF OtherCall
  <2>2. \A j \in Calls : SameFetch(j)
    BY <2>1, OthersSame
  <2> QED BY <2>1, <2>2, PagesKept
<1>4. ASSUME NEW k \in Calls, ReceiveRows(k) PROVE PagesInv'
  BY <1>4, PagesReceived
<1>5. ASSUME NEW k \in Calls, FetchFails(k) PROVE PagesInv'
  BY <1>5, PagesAfterFailure
<1>6. ASSUME NEW k \in Calls, ShowNew(k) PROVE PagesInv'
  <2>1. ~tidy'
    BY <1>6 DEF ShowNew
  <2> QED BY <2>1 DEF PagesInv, OneFetch, FetchesNextPage, ListComplete
<1>7. ASSUME NEW k \in Calls, Handle(k) PROVE PagesInv'
  BY <1>7, PagesHandled
<1>8. ASSUME NEW k \in Calls, Lose(k) PROVE PagesInv'
  BY <1>8, PagesLost
<1> QED BY <1>1, <1>2, <1>3, <1>4, <1>5, <1>6, <1>7, <1>8, StoreSteps

StoreInv == StoreTyped /\ PagesInv

LEMMA StoreInvHolds ==
  StoreSpec => []StoreInv
<1>1. StoreInit => StoreInv
  BY StoreTypedInit, PagesInit DEF StoreInv
<1>2. StoreInv /\ [StoreNext]_storeVars => StoreInv'
  BY StoreTypedStep, PagesStep DEF StoreInv
<1> QED BY <1>1, <1>2, PTL DEF StoreSpec

LEMMA PrefixOfNids ==
  ASSUME NEW s \in Seq(Nids), NEW t \in Seq(Nids), Len(s) <= Len(t),
         \A i \in 1..Len(s) : s[i] = t[i]
  PROVE  IsPrefix(s, t)
<1>1. PICK n : n = Len(s)
  OBVIOUS
<1>2. n \in Nat /\ n <= Len(t) /\ Len(t) \in Nat
  BY <1>1
<1>3. SubSeq(s, 1, n) = [i \in 1..n |-> s[i]] /\ SubSeq(t, 1, n) = [i \in 1..n |-> t[i]]
  BY <1>1, <1>2
<1>4. SubSeq(s, 1, n) = SubSeq(t, 1, n)
  BY <1>1, <1>3
<1> QED BY <1>1, <1>4 DEF IsPrefix

(* The rows, the page and the flag of useProductStore.js, and the calls    *)
(* under way, keep their types.                                            *)
THEOREM StoreTypeCorrect ==
  StoreSpec => []StoreTyped
<1>1. StoreInv => StoreTyped
  BY DEF StoreInv
<1> QED BY <1>1, StoreInvHolds, PTL

(* fetchProducts: when no load is under way, the list holds the first      *)
(* pages of its filter, without a gap or a repetition, and the next page   *)
(* to ask for is the first one missing, whatever other actions set or      *)
(* clear `loading', lose their calls or ask for the list again; unless two *)
(* loads ran together, the filter changed under a load, the first page was *)
(* not had, or a product was added.                                        *)
THEOREM StorePagesInOrder ==
  StoreSpec => []PagesInOrder
<1>1. StoreInv => PagesInOrder
  <2>1. SUFFICES ASSUME StoreInv, tidy, ~FetchUnderWay
                 PROVE  /\ IsPrefix(NidsShown, Matching(listFilter))
                        /\ IF hasMore THEN Len(storeProducts) = currentPage * ItemsPerPage
                                      ELSE Len(storeProducts) = Len(Matching(listFilter))
    BY DEF PagesInOrder
  <2>2. \A k \in Calls : ~FetchOf(call[k])
    BY <2>1 DEF FetchUnderWay
  <2>3. PICK all : all = Matching(listFilter)
    OBVIOUS
  <2>4. /\ NidsIn(storeProducts, all)
        /\ IF hasMore THEN Len(storeProducts) = currentPage * ItemsPerPage
                      ELSE Len(storeProducts) = Len(all)
    BY <2>1, <2>2, <2>3 DEF StoreInv, PagesInv, ListComplete
  <2>5. all \in Seq(Nids) /\ storeProducts \in Seq(ProductRow)
    BY <2>1, <2>3, MatchingNids DEF StoreInv, StoreTyped
  <2>6. PICK n : n = Len(storeProducts)
    OBVIOUS
  <2>7. n \in Nat /\ DOMAIN storeProducts = 1..n
    BY <2>5, <2>6
  <2>8. PICK nids : nids = [i \in 1..n |-> storeProducts[i].nid]
    OBVIOUS
  <2>9. \A i \in 1..n : storeProducts[i].nid \in Nids
    <3>1. \A i \in 1..n : storeProducts[i] \in ProductRow
      BY <2>5, <2>7
    <3> QED BY <3>1 DEF ProductRow
  <2>10. nids \in Seq(Nids) /\ Len(nids) = n /\ \A i \in 1..n : nids[i] = storeProducts[i].nid
    BY <2>7, <2>8, <2>9
  <2>11. n <= Len(all) /\ \A i \in 1..n : nids[i] = all[i]
    BY <2>4, <2>6, <2>10 DEF NidsIn
  <2>12. IsPrefix(nids, all)
    BY <2>5, <2>10, <2>11, PrefixOfNids
  <2>13. NidsShown = nids
    BY <2>7, <2>8 DEF NidsShown
  <2> QED BY <2>3, <2>4, <2>12, <2>13
<1> QED BY <1>1, StoreInvHolds, PTL
=============================================================================
