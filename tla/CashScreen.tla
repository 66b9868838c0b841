----------------------------- MODULE CashScreen -----------------------------
(***************************************************************************)
(* The screen of local sales (pages/CaisseLocalePage.vue) at several tills *)
(* that sell from one stock.                                               *)
(*                                                                         *)
(* A till fills a basket against the quantities its copies of the products *)
(* show, sends it, and goes on: the basket can be changed, the list loaded *)
(* again and a photo searched while the sale is being saved.  What the     *)
(* answer finds in the basket is what the till writes to its own record of *)
(* sales (orders_local).  An answer that is lost leaves the basket as it   *)
(* was.                                                                    *)
(*                                                                         *)
(* The server's part of a sale is one step here; LocalSale has its saves   *)
(* one by one.  A till is one visit to the page.  Prices and notes are     *)
(* left out, and so are the pages of the list: a load brings some of the   *)
(* products, in the place of the list or after it.                         *)
(***************************************************************************)
EXTENDS Naturals, Sequences, FiniteSets, SequencesExt

CONSTANTS
  Tills,         \* visits to the page
  Products,      \* products of the shop
  InitialStock,  \* field_quantite_disponible of each at first
  Found,         \* bound: the sets of products a load or a search can find
  MaxSales,      \* bound: sales the tills send
  MaxLoads,      \* bound: loads and photo searches the tills send
  MaxTaps        \* bound: pieces the tills add to their baskets

ASSUME CashScreenAssumption ==
  /\ InitialStock \in [Products -> Nat]
  /\ Found \subseteq SUBSET Products
  /\ MaxSales \in Nat /\ MaxLoads \in Nat /\ MaxTaps \in Nat

VARIABLES
  stock,        \* the database
  orders,       \* the sales made: [till, items]
  products,     \* products.value of each till: the quantity each copy shows
  images,       \* imageSearchResults of each till
  imageActive,  \* imageSearchActive
  orderItems,   \* the basket of each till
  savingOrder, showSuccessModal,
  ordersLocal,  \* orders_local, the record of each till
  sale, load, search,  \* the calls of each till
  sent, loads, taps,   \* counters of the bounds
  rung,         \* history: pieces the cashier has put in the basket, net
  touched,      \* history: the basket changed since it was sent
  adrift,       \* history: tills that never got the answer to a sale made, or
                \* got it to a basket they had changed
  behind        \* history: products shown by a load that crossed a sale

screens == <<products, images, imageActive, orderItems>>
flags == <<savingOrder, showSuccessModal>>
calls == <<sale, load, search>>
counters == <<sent, loads, taps>>
vars == <<stock, orders, screens, flags, ordersLocal, calls, counters,
          rung, adrift, touched, behind>>

-----------------------------------------------------------------------------
(* Partial functions on products: the copies a till has, a basket.         *)

None == << >>

Without(f, p) == [q \in DOMAIN f \ {p} |-> f[q]]

\* An item is [quantity, dispo, shared, told]: its pieces, the stock its copy of
\* the product shows, whether the list has the same copy, which changes with it,
\* and the stock shown when its last piece was let in.
Quantities(basket) == [p \in DOMAIN basket |-> basket[p].quantity]
Pieces(items, p) == IF p \in DOMAIN items THEN items[p] ELSE 0

NoSale == [stage |-> "none", items |-> None, told |-> None, id |-> 0,
           newStock |-> None]
NoLoad == [stage |-> "none", append |-> FALSE, wanted |-> {}, rows |-> None,
           crossed |-> FALSE]

Init ==
  /\ stock = InitialStock
  /\ orders = <<>>
  /\ products = [t \in Tills |-> None]
  /\ images = [t \in Tills |-> None]
  /\ imageActive = [t \in Tills |-> FALSE]
  /\ orderItems = [t \in Tills |-> None]
  /\ savingOrder = [t \in Tills |-> FALSE]
  /\ showSuccessModal = [t \in Tills |-> FALSE]
  /\ ordersLocal = [t \in Tills |-> <<>>]
  /\ sale = [t \in Tills |-> NoSale]
  /\ load = [t \in Tills |-> NoLoad]
  /\ search = [t \in Tills |-> NoLoad]
  /\ sent = 0 /\ loads = 0 /\ taps = 0
  /\ rung = [t \in Tills |-> [p \in Products |-> 0]]
  /\ touched = [t \in Tills |-> FALSE]
  /\ adrift = [t \in Tills |-> FALSE]
  /\ behind = [t \in Tills |-> {}]

-----------------------------------------------------------------------------
(* Loads of the list (fetchProducts) and searches by a photo.              *)

\* filteredProducts: the copies the cashier can tap.
Shown(t) == IF imageActive[t] THEN images[t] ELSE products[t]

Count == loads < MaxLoads /\ loads' = loads + 1

\* The list is not loaded twice at a time, nor continued under the results of
\* a photo; a search that waits for its 500 ms may still replace it then.
FetchProducts(t, append, wanted) ==
  /\ load[t].stage = "none"
  /\ append => /\ ~imageActive[t]
               /\ products[t] # None /\ wanted \cap DOMAIN products[t] = {}
  /\ Count
  /\ load' = [load EXCEPT ![t] = [NoLoad EXCEPT !.stage = "sent",
                !.append = append, !.wanted = wanted]]
  /\ UNCHANGED <<stock, orders, screens, flags, ordersLocal, sale, search,
                 sent, taps, rung, adrift, touched, behind>>

\* A new photo takes the results of the former one away at once; it is
\* searched unless another search is under way.
SelectImage(t, wanted) ==
  /\ ~showSuccessModal[t]
  /\ Count
  /\ images' = [images EXCEPT ![t] = None]
  /\ imageActive' = [imageActive EXCEPT ![t] = FALSE]
  /\ search' = IF search[t].stage # "none" THEN search
               ELSE [search EXCEPT ![t] = [NoLoad EXCEPT !.stage = "sent",
                       !.wanted = wanted]]
  /\ UNCHANGED <<stock, orders, products, orderItems, flags, ordersLocal,
                 sale, load, sent, taps, rung, adrift, touched, behind>>

ClearImageSearch(t) ==
  /\ imageActive[t] /\ ~showSuccessModal[t]
  /\ images' = [images EXCEPT ![t] = None]
  /\ imageActive' = [imageActive EXCEPT ![t] = FALSE]
  /\ UNCHANGED <<stock, orders, products, orderItems, flags, ordersLocal,
                 calls, counters, rung, adrift, touched, behind>>

\* The server reads the products a call asks for.
Answered(c) == [c EXCEPT !.stage = "done",
                  !.rows = [p \in c.wanted |-> stock[p]]]

ReadProducts(t) ==
  /\ \/ /\ load[t].stage = "sent"
        /\ load' = [load EXCEPT ![t] = Answered(@)]
        /\ UNCHANGED search
     \/ /\ search[t].stage = "sent"
        /\ search' = [search EXCEPT ![t] = Answered(@)]
        /\ UNCHANGED load
  /\ UNCHANGED <<stock, orders, screens, flags, ordersLocal, sale, counters,
                 rung, adrift, touched, behind>>

\* Items keep the copies a new list no longer has.
ReceiveProducts(t) ==
  LET rows == load[t].rows
      kept == IF load[t].append THEN products[t] ELSE None
  IN  /\ load[t].stage = "done"
      /\ products' = [products EXCEPT ![t] =
           [p \in DOMAIN kept \cup DOMAIN rows |->
              IF p \in DOMAIN kept THEN kept[p] ELSE rows[p]]]
      /\ orderItems' = IF load[t].append THEN orderItems
           ELSE [orderItems EXCEPT ![t] =
                   [p \in DOMAIN @ |-> [@[p] EXCEPT !.shared = FALSE]]]
      /\ behind' = [behind EXCEPT ![t] =
           (@ \cap DOMAIN kept) \cup (IF load[t].crossed THEN DOMAIN rows ELSE {})]
      /\ load' = [load EXCEPT ![t] = NoLoad]
      /\ UNCHANGED <<stock, orders, images, imageActive, flags, ordersLocal,
                     sale, search, counters, rung, adrift, touched>>

ReceiveImages(t) ==
  /\ search[t].stage = "done"
  /\ images' = [images EXCEPT ![t] = search[t].rows]
  /\ imageActive' = [imageActive EXCEPT ![t] = TRUE]
  /\ search' = [search EXCEPT ![t] = NoLoad]
  /\ UNCHANGED <<stock, orders, products, orderItems, flags, ordersLocal,
                 sale, load, counters, rung, adrift, touched, behind>>

\* An error, before or after the server has read the products: the list
\* stays, the results of a photo do not.
LoseProducts(t) ==
  /\ \/ /\ load[t].stage = "done"
        /\ load' = [load EXCEPT ![t] = NoLoad]
        /\ UNCHANGED <<search, images, imageActive>>
     \/ /\ search[t].stage = "done"
        /\ search' = [search EXCEPT ![t] = NoLoad]
        /\ images' = [images EXCEPT ![t] = None]
        /\ imageActive' = [imageActive EXCEPT ![t] = FALSE]
        /\ UNCHANGED load
  /\ UNCHANGED <<stock, orders, products, orderItems, flags, ordersLocal,
                 sale, counters, rung, adrift, touched, behind>>

-----------------------------------------------------------------------------
(* The basket.  Nothing but the window that confirms a sale is in its way. *)

\* What every change of the basket leaves alone, and notes: n pieces of p more.
Tap(t, p, more, less) ==
  /\ ~showSuccessModal[t]
  /\ rung' = [rung EXCEPT ![t][p] = @ + more - less]
  /\ touched' = [touched EXCEPT ![t] = @ \/ savingOrder[t]]
  /\ UNCHANGED <<stock, orders, products, images, imageActive, flags,
                 ordersLocal, calls, sent, loads, adrift, behind>>

MoreTaps == taps < MaxTaps /\ taps' = taps + 1

\* A mutant: the pieces already in the basket are not looked at.
AnyQuantity(quantity, dispo) == dispo > 0

\* A piece more fits the stock a copy shows.
Fits(quantity, dispo) == quantity < dispo

\* The stock looked at is that of the copy tapped, the item keeps its own.
AddToOrder(t, p) ==
  LET basket == orderItems[t]
      dispo  == Shown(t)[p]
  IN  /\ p \in DOMAIN Shown(t)
      /\ dispo > 0
      /\ Fits(Pieces(Quantities(basket), p), dispo)
      /\ MoreTaps
      /\ orderItems' = [orderItems EXCEPT ![t] =
           [q \in DOMAIN basket \cup {p} |->
              IF q # p THEN basket[q]
              ELSE IF p \in DOMAIN basket
              THEN [basket[p] EXCEPT !.quantity = @ + 1, !.told = dispo]
              ELSE [quantity |-> 1, dispo |-> dispo,
                    shared |-> ~imageActive[t], told |-> dispo]]]
      /\ Tap(t, p, 1, 0)

IncreaseQuantity(t, p) ==
  LET item == orderItems[t][p]
  IN  /\ p \in DOMAIN orderItems[t]
      /\ Fits(item.quantity, item.dispo)
      /\ MoreTaps
      /\ orderItems' = [orderItems EXCEPT ![t][p] =
           [item EXCEPT !.quantity = item.quantity + 1, !.told = item.dispo]]
      /\ Tap(t, p, 1, 0)

DecreaseQuantity(t, p) ==
  LET basket == orderItems[t]
  IN  /\ p \in DOMAIN basket
      /\ orderItems' = [orderItems EXCEPT ![t] =
           IF basket[p].quantity > 1
           THEN [basket EXCEPT ![p].quantity = @ - 1]
           ELSE Without(basket, p)]
      /\ Tap(t, p, 0, 1)
      /\ UNCHANGED taps

RemoveItem(t, p) ==
  /\ p \in DOMAIN orderItems[t]
  /\ orderItems' = [orderItems EXCEPT ![t] = Without(@, p)]
  /\ Tap(t, p, 0, orderItems[t][p].quantity)
  /\ UNCHANGED taps

ClearOrder(t) ==
  /\ orderItems[t] # None
  /\ ~showSuccessModal[t]
  /\ orderItems' = [orderItems EXCEPT ![t] = None]
  /\ rung' = [rung EXCEPT ![t] = [p \in Products |->
                @[p] - Pieces(Quantities(orderItems[t]), p)]]
  /\ touched' = [touched EXCEPT ![t] = @ \/ savingOrder[t]]
  /\ UNCHANGED <<stock, orders, products, images, imageActive, flags,
                 ordersLocal, calls, counters, adrift, behind>>

-----------------------------------------------------------------------------
(* The sale.                                                               *)

MayFinalize(t) == ~savingOrder[t]

FinalizeOrder(t) ==
  /\ orderItems[t] # None
  /\ MayFinalize(t)
  /\ ~showSuccessModal[t]
  /\ sent < MaxSales
  /\ sent' = sent + 1
  /\ savingOrder' = [savingOrder EXCEPT ![t] = TRUE]
  /\ touched' = [touched EXCEPT ![t] = FALSE]
  /\ sale' = [sale EXCEPT ![t] =
       [NoSale EXCEPT !.stage = "sent", !.items = Quantities(orderItems[t]),
          !.told = [p \in DOMAIN orderItems[t] |-> orderItems[t][p].told]]]
  /\ UNCHANGED <<stock, orders, screens, showSuccessModal, ordersLocal, load,
                 search, loads, taps, rung, adrift, behind>>

\* All the items are there, or nothing is sold.
EnoughStock(items) == \A p \in DOMAIN items : stock[p] >= items[p]

\* saveOrderLocal, as a whole.
SaveOrderLocal(t) ==
  LET items == sale[t].items
  IN  /\ sale[t].stage = "sent"
      /\ IF EnoughStock(items)
         THEN /\ stock' = [p \in Products |-> stock[p] - Pieces(items, p)]
              /\ orders' = Append(orders, [till |-> t, items |-> items])
              /\ sale' = [sale EXCEPT ![t] = [@ EXCEPT !.stage = "done",
                   !.id = Len(orders) + 1,
                   !.newStock = [p \in DOMAIN items |-> stock[p] - items[p]]]]
         ELSE /\ sale' = [sale EXCEPT ![t].stage = "refused"]
              /\ UNCHANGED <<stock, orders>>
      /\ UNCHANGED <<screens, flags, ordersLocal, load, search, counters,
                     rung, adrift, touched, behind>>

\* A mutant: the list is left as it was.
ListKept(t) == products[t]

\* updated_products: only the copies of the list are brought up to date.
UpdatedList(t) ==
  LET new == sale[t].newStock
  IN  [p \in DOMAIN products[t] |->
         IF p \in DOMAIN new THEN new[p] ELSE products[t][p]]

\* A mutant: the basket is emptied before the record is made.
EmptiedFirst(t) == None

\* The record is made of the basket as it is when the answer comes.
RecordedItems(t) == Quantities(orderItems[t])

\* The sale is confirmed; the basket stays until the window is closed.
ReceiveSale(t) ==
  LET list == UpdatedList(t)
  IN  /\ sale[t].stage = "done"
      /\ products' = [products EXCEPT ![t] = list]
      /\ orderItems' = [orderItems EXCEPT ![t] =
           [p \in DOMAIN @ |->
              IF @[p].shared THEN [@[p] EXCEPT !.dispo = list[p]] ELSE @[p]]]
      /\ ordersLocal' = [ordersLocal EXCEPT ![t] =
           <<[id |-> sale[t].id, items |-> RecordedItems(t),
              asSent |-> ~touched[t]]>> \o @]
      /\ showSuccessModal' = [showSuccessModal EXCEPT ![t] = TRUE]
      /\ savingOrder' = [savingOrder EXCEPT ![t] = FALSE]
      /\ sale' = [sale EXCEPT ![t] = NoSale]
      /\ load' = [load EXCEPT ![t] =
                    IF @.stage = "none" THEN @ ELSE [@ EXCEPT !.crossed = TRUE]]
      /\ adrift' = [adrift EXCEPT ![t] = @ \/ touched[t]]
      /\ UNCHANGED <<stock, orders, images, imageActive, search, counters,
                     rung, touched, behind>>

\* A refusal, an error or an answer that is lost: the basket stays.
SaleFails(t) ==
  /\ sale[t].stage # "none"
  /\ adrift' = [adrift EXCEPT ![t] = @ \/ sale[t].stage = "done"]
  /\ savingOrder' = [savingOrder EXCEPT ![t] = FALSE]
  /\ sale' = [sale EXCEPT ![t] = NoSale]
  /\ UNCHANGED <<stock, orders, screens, showSuccessModal, ordersLocal, load,
                 search, counters, rung, touched, behind>>

\* A mutant: the confirmed sale stays in the basket.
BasketKept(t) == orderItems[t]

NewBasket(t) == None

\* closeSuccessModal, and goToCommandes when the page is visited again.
CloseSuccessModal(t) ==
  /\ showSuccessModal[t]
  /\ showSuccessModal' = [showSuccessModal EXCEPT ![t] = FALSE]
  /\ orderItems' = [orderItems EXCEPT ![t] = NewBasket(t)]
  /\ UNCHANGED <<stock, orders, products, images, imageActive, savingOrder,
                 ordersLocal, calls, counters, rung, adrift, touched, behind>>

-----------------------------------------------------------------------------

LoadStep(t) ==
  \/ \E append \in BOOLEAN, wanted \in Found :
       FetchProducts(t, append, wanted)
  \/ \E wanted \in Found : SelectImage(t, wanted)
  \/ ClearImageSearch(t)
  \/ ReadProducts(t) \/ ReceiveProducts(t) \/ ReceiveImages(t) \/ LoseProducts(t)

BasketStep(t) ==
  \/ \E p \in Products : \/ AddToOrder(t, p) \/ IncreaseQuantity(t, p)
                         \/ DecreaseQuantity(t, p) \/ RemoveItem(t, p)
  \/ ClearOrder(t)

SaleStep(t) ==
  \/ FinalizeOrder(t) \/ SaveOrderLocal(t) \/ ReceiveSale(t) \/ SaleFails(t)
  \/ CloseSuccessModal(t)

Next == \E t \in Tills : LoadStep(t) \/ BasketStep(t) \/ SaleStep(t)

Spec == Init /\ [][Next]_vars

-----------------------------------------------------------------------------
(* Properties.                                                             *)

\* f[1] + ... + f[n].
SumTo(f, n) ==
  LET sum[k \in Nat] == IF k = 0 THEN 0 ELSE sum[k - 1] + f[k]
  IN  sum[n]

\* Pieces of p that the sales of the tills of S, among the first n of a
\* sequence of sales, took out of the stock.
Sold(sales, S, p, n) ==
  SumTo([k \in DOMAIN sales |->
           IF sales[k].till \in S THEN Pieces(sales[k].items, p) ELSE 0], n)

SoldBy(t, p) == Sold(orders, {t}, p, Len(orders))

\* What a cashier rings up is sold once: all the pieces put in the baskets of
\* a till are pieces it has sold and one basket more.  Exempt is a till that
\* never got the answer to a sale, whose basket would be sent again, or that
\* changed its basket under a sale: the window of confirmation takes what was
\* added away.
PiecesAccounted ==
  \A t \in Tills, p \in Products :
    ~adrift[t] /\ ~touched[t] =>
      rung[t][p] = SoldBy(t, p) +
        IF sale[t].stage = "done" \/ showSuccessModal[t] THEN 0
        ELSE Pieces(Quantities(orderItems[t]), p)

\* Every sale made is in the record of its till once, unless the till does
\* not have its answer, or lost one; and the record has what was sold, unless
\* the basket was changed while the sale was being saved.
SalesRecorded ==
  /\ \A i \in DOMAIN orders :
       LET t == orders[i].till
           n == Cardinality({k \in DOMAIN ordersLocal[t] : ordersLocal[t][k].id = i})
       IN  \/ n = 1
           \/ n = 0 /\ (adrift[t] \/ (sale[t].stage = "done" /\ sale[t].id = i))
  /\ \A t \in Tills : \A r \in ToSet(ordersLocal[t]) :
       r.asSent => r.items = orders[r.id].items

\* The list of a till shows no more of a product than was left by the last
\* sale of it the till was told of, unless it was loaded across that sale.
ListReadsOwnSales ==
  \A t \in Tills : \A r \in ToSet(ordersLocal[t]) :
    \A p \in DOMAIN products[t] \cap DOMAIN orders[r.id].items :
      \/ p \in behind[t]
      \/ products[t][p] + Sold(orders, Tills, p, r.id) <= InitialStock[p]

\* A sale is refused only when the stock of a product it names has changed
\* since the till was shown the copy that let the last piece in.
RefusedOnlyIfMoved ==
  [][\A t \in Tills : sale[t].stage = "sent" /\ sale'[t].stage = "refused" =>
       \E p \in DOMAIN sale[t].items : sale[t].told[p] > stock[p]]_vars
=============================================================================
