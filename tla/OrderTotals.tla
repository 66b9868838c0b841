---------------------------- MODULE OrderTotals ----------------------------
(***************************************************************************)
(* Prices and totals of the sales of the shop: what OrderLocalController   *)
(* writes to field_prix_unitaire and field_total of a line, to field_total *)
(* of its order, and, through the stock movements, to field_prix_vente of  *)
(* the product.  The handlers are those of LocalSale, each followed save   *)
(* by save, here for the prices; how many pieces are in stock is there.    *)
(*                                                                         *)
(* An amount is a natural number.  A product always has a sale price, and  *)
(* a handler that falls back on it reads it when it needs it.              *)
(***************************************************************************)
EXTENDS Integers, FiniteSets, FiniteSetsExt

CONSTANTS
  Products,      \* nids of the products
  Carts,         \* nids the cart nodes will get
  Orders,        \* nids the order_local nodes will get
  Requests,      \* request processes the server runs at the same time
  InitialPrice,  \* field_prix_vente before the first request
  SalePrices,    \* unit prices a client sells at
  EditPrices,    \* unit prices an administrator gives to a line
  MaxQuantity,   \* bound: largest quantity a client asks for
  MaxLines,      \* bound: lines of a new sale
  MaxRequests,   \* bound: requests started in a behaviour
  SharedOrders,  \* orders two requests may work on at a time
  CanFail,       \* whether a request may stop between two saves
  NoProduct, NoOrder, NoCart, NoPrice

ASSUME TotalsAssumption ==
  /\ IsFiniteSet(Carts)
  /\ InitialPrice \in [Products -> Nat \ {0}]
  /\ SalePrices \subseteq Nat /\ EditPrices \subseteq Nat
  /\ {MaxQuantity, MaxLines, MaxRequests} \subseteq Nat
  /\ SharedOrders \subseteq Orders
  /\ CanFail \in BOOLEAN
  /\ NoPrice \notin Nat

VARIABLES
  price,    \* price[p]: field_prix_vente of product p
  cart,     \* cart[c]: the cart node c
  order,    \* order[o]: the order_local node o
  pc,       \* pc[r]: what request r does next
  job,      \* job[r]: what r has read and is writing
  at,       \* at[r]: the line r is at
  todo,     \* todo[r]: the lines r has still to go through
  started,  \* number of requests started so far
  torn      \* history: orders a request of which stopped half-way

vars == <<price, cart, order, pc, job, at, todo, started, torn>>

NoLine == [state |-> "unused", product |-> NoProduct,
           qty |-> 0, unit |-> 0, total |-> 0]

Blank == [saved |-> FALSE, cancelled |-> FALSE, carts |-> {}, total |-> 0]

\* line: the line an edit is about; lines: the carts the request writes.
NoJob == [op |-> "status", nid |-> NoOrder, order |-> Blank, line |-> NoCart,
          lines |-> [c \in Carts |-> NoLine]]

TotalOf(S, lines) == MapThenSumSet(LAMBDA c : lines[c].total, S)

\* A mutant: the total of a line is left as it was.
StalePriced(n, quantity, unit) == [n EXCEPT !.qty = quantity, !.unit = unit]

\* The line n at this quantity and this unit price.
Priced(n, quantity, unit) ==
  [n EXCEPT !.qty = quantity, !.unit = unit, !.total = unit * quantity]

\* The price of a line without one is the sale price of its product.
EffectivePrice(n) == IF n.unit > 0 THEN n.unit ELSE price[n.product]

\* A mutant: the price of the product is stored in the line.
Repriced(n) == Priced(n, n.qty, EffectivePrice(n))

\* What updateCartQuantity makes of every line of the order.
Recomputed(n) == [n EXCEPT !.total = EffectivePrice(n) * n.qty]

-----------------------------------------------------------------------------

Busy(o) == \E r \in Requests : pc[r] # "idle" /\ job[r].nid = o

Addressed(o) == order[o].saved /\ (o \in SharedOrders \/ ~Busy(o))

Begin(r, op, o, node, c, lines, S, first) ==
  /\ pc[r] = "idle"
  /\ started < MaxRequests
  /\ started' = started + 1
  /\ job' = [job EXCEPT ![r] = [op |-> op, nid |-> o, order |-> node,
                                line |-> c, lines |-> lines]]
  /\ pc' = [pc EXCEPT ![r] = first]
  /\ \E d \in IF S = {} THEN {NoCart} ELSE S :
       at' = [at EXCEPT ![r] = d] /\ todo' = [todo EXCEPT ![r] = S \ {d}]
  /\ UNCHANGED <<price, cart, order, torn>>

Only(c, n) == [d \in Carts |-> IF d = c THEN n ELSE NoLine]

End(r) ==
  /\ pc' = [pc EXCEPT ![r] = "idle"]
  /\ job' = [job EXCEPT ![r] = NoJob]
  /\ at' = [at EXCEPT ![r] = NoCart]
  /\ todo' = [todo EXCEPT ![r] = {}]

\* The next line, or the order after the last one.
NextLine(r, step) ==
  IF todo[r] = {}
  THEN pc' = [pc EXCEPT ![r] = "order"] /\ UNCHANGED <<at, todo>>
  ELSE /\ pc' = [pc EXCEPT ![r] = step]
       /\ \E c \in todo[r] :
            at' = [at EXCEPT ![r] = c] /\ todo' = [todo EXCEPT ![r] = @ \ {c}]

\* The sum over the lines the order will have starts from zero.
StartSum(r) ==
  /\ pc' = [pc EXCEPT ![r] = "sum"]
  /\ job' = [job EXCEPT ![r].order.total = 0]
  /\ \E c \in job[r].order.carts :
       /\ at' = [at EXCEPT ![r] = c]
       /\ todo' = [todo EXCEPT ![r] = job[r].order.carts \ {c}]

-----------------------------------------------------------------------------
(* The handlers, up to their first save.                                   *)

SaveOrderLocal(r, o, S, product, quantity, unit) ==
  LET lines == [c \in Carts |-> IF c \in S
                  THEN Priced([NoLine EXCEPT !.state = "saved",
                                             !.product = product[c]],
                              quantity[c], unit[c])
                  ELSE NoLine]
  IN  /\ ~order[o].saved /\ ~Busy(o) /\ S # {}
      /\ \A c \in S : /\ cart[c].state = "unused"
                      /\ \A q \in Requests : c \notin job[q].order.carts
      /\ Begin(r, "sale", o,
               [saved |-> TRUE, cancelled |-> FALSE, carts |-> S,
                total |-> TotalOf(S, lines)],
               NoCart, lines, S, "cart")

\* The order is saved as it was read, with another status.
UpdateStatusLocal(r, o, cancelled) ==
  /\ Addressed(o)
  /\ Begin(r, "status", o, [order[o] EXCEPT !.cancelled = cancelled],
           NoCart, NoJob.lines, {}, "order")

CancelOrderLocal(r, o) ==
  /\ Addressed(o)
  /\ ~order[o].cancelled
  /\ order[o].carts # {}
  /\ Begin(r, "cancel", o, [order[o] EXCEPT !.cancelled = TRUE],
           NoCart, NoJob.lines, order[o].carts, "load")

EditableLine(o, c) ==
  /\ Addressed(o)
  /\ ~order[o].cancelled
  /\ cart[c].state = "saved"
  /\ c \in order[o].carts

UpdateCartPrice(r, o, c, unit) ==
  /\ EditableLine(o, c)
  /\ Begin(r, "price", o, order[o], c,
           Only(c, Priced(cart[c], cart[c].qty, unit)), {c}, "cart")

\* field_price is not modelled; the cart is saved as it was read.
UpdateCartPurchasePrice(r, o, c) ==
  /\ EditableLine(o, c)
  /\ Begin(r, "purchase", o, order[o], c, Only(c, cart[c]), {c}, "cart")

\* given: the unit price the client sends with the quantity, or NoPrice.
UpdateCartQuantity(r, o, c, quantity, given) ==
  LET unit == IF given = NoPrice THEN EffectivePrice(cart[c]) ELSE given
  IN  /\ EditableLine(o, c)
      /\ Begin(r, "quantity", o, order[o], c,
               Only(c, Priced(cart[c], quantity, unit)), {c},
               IF quantity = cart[c].qty THEN "cart" ELSE "move")

DeleteCartLine(r, o, c) ==
  /\ EditableLine(o, c)
  /\ order[o].carts # {c}
  /\ Begin(r, "delete", o, [order[o] EXCEPT !.carts = @ \ {c}], c,
           Only(c, cart[c]), {c}, "move")

-----------------------------------------------------------------------------
(* The steps of a request in progress.                                     *)

\* Cancelling: the line whose price the next movement will carry.
CancelLoad(r) ==
  LET c == at[r]
  IN  /\ pc[r] = "load"
      /\ IF cart[c].state = "saved"
         THEN /\ job' = [job EXCEPT ![r].lines[c] = cart[c]]
              /\ pc' = [pc EXCEPT ![r] = "move"]
              /\ UNCHANGED <<at, todo>>
         ELSE NextLine(r, "load") /\ UNCHANGED job
      /\ UNCHANGED <<price, cart, order, started, torn>>

\* The hook of a stock node leaves the product its price if it has none.
PriceAfter(n) ==
  IF n.unit = 0 THEN price ELSE [price EXCEPT ![n.product] = n.unit]

\* A stock node; its hook copies the price to the product.
SaveMovement(r) ==
  LET n == job[r].lines[at[r]]
  IN  /\ pc[r] = "move"
      /\ price' = PriceAfter(n)
      /\ CASE job[r].op = "sale"     -> NextLine(r, "cart") /\ UNCHANGED job
           [] job[r].op = "cancel"   -> NextLine(r, "load") /\ UNCHANGED job
           [] job[r].op = "quantity" -> pc' = [pc EXCEPT ![r] = "cart"]
                                        /\ UNCHANGED <<job, at, todo>>
           [] job[r].op = "delete"   -> StartSum(r)
      /\ UNCHANGED <<cart, order, started, torn>>

\* A cart is saved whole; one deleted meanwhile stays deleted.
Stored(c, n) ==
  IF cart[c].state = "deleted" THEN cart ELSE [cart EXCEPT ![c] = n]

SaveCart(r) ==
  LET c == at[r]
  IN  /\ pc[r] = "cart"
      /\ cart' = Stored(c, job[r].lines[c])
      /\ CASE job[r].op = "sale"     -> pc' = [pc EXCEPT ![r] = "move"]
                                        /\ UNCHANGED <<job, at, todo>>
           [] job[r].op = "purchase" -> End(r)
           [] OTHER                  -> StartSum(r)
      /\ UNCHANGED <<price, order, started, torn>>

\* A mutant: the totals of the lines are added before they are recomputed.
StoredTotal(r, n) == n.total

\* updateCartQuantity recomputes the total of a line, the others take it.
CountedTotal(r, n) ==
  IF job[r].op = "quantity" THEN Recomputed(n).total ELSE n.total

\* Load a line and count its total; a missing line counts for nothing.
SumLine(r) ==
  LET c == at[r]
      n == cart[c]
  IN  /\ pc[r] = "sum"
      /\ IF n.state = "saved"
         THEN IF job[r].op = "quantity"
              THEN /\ pc' = [pc EXCEPT ![r] = "resave"]
                   /\ job' = [job EXCEPT ![r].lines[c] = Recomputed(n),
                                         ![r].order.total = @ + CountedTotal(r, n)]
                   /\ UNCHANGED <<at, todo>>
              ELSE /\ NextLine(r, "sum")
                   /\ job' = [job EXCEPT ![r].order.total = @ + CountedTotal(r, n)]
         ELSE NextLine(r, "sum") /\ UNCHANGED job
      /\ UNCHANGED <<price, cart, order, started, torn>>

\* The condition that spares the edited line compares a string with an
\* integer: every line is saved again.
ResaveLine(r) ==
  /\ pc[r] = "resave"
  /\ cart' = Stored(at[r], job[r].lines[at[r]])
  /\ NextLine(r, "sum")
  /\ UNCHANGED <<price, order, job, started, torn>>

SaveOrder(r) ==
  /\ pc[r] = "order"
  /\ order' = [order EXCEPT ![job[r].nid] = job[r].order]
  /\ IF job[r].op = "delete"
     THEN pc' = [pc EXCEPT ![r] = "drop"] /\ UNCHANGED <<job, at, todo>>
     ELSE End(r)
  /\ UNCHANGED <<price, cart, started, torn>>

DropCart(r) ==
  /\ pc[r] = "drop"
  /\ cart' = [cart EXCEPT ![job[r].line] = [NoLine EXCEPT !.state = "deleted"]]
  /\ End(r)
  /\ UNCHANGED <<price, order, started, torn>>

Fail(r) ==
  /\ CanFail /\ pc[r] # "idle"
  /\ End(r)
  /\ torn' = torn \cup {job[r].nid}
  /\ UNCHANGED <<price, cart, order, started>>

-----------------------------------------------------------------------------

Init ==
  /\ price = InitialPrice
  /\ cart = [c \in Carts |-> NoLine]
  /\ order = [o \in Orders |-> Blank]
  /\ pc = [r \in Requests |-> "idle"]
  /\ job = [r \in Requests |-> NoJob]
  /\ at = [r \in Requests |-> NoCart]
  /\ todo = [r \in Requests |-> {}]
  /\ started = 0
  /\ torn = {}

Sale(r, o) ==
  \E S \in {T \in SUBSET Carts : Cardinality(T) <= MaxLines} :
    \E product \in [S -> Products], quantity \in [S -> 1..MaxQuantity],
       unit \in [S -> SalePrices] :
      SaveOrderLocal(r, o, S, product, quantity, unit)

Receive(r) ==
  \E o \in Orders :
    \/ Sale(r, o)
    \/ \E cancelled \in BOOLEAN : UpdateStatusLocal(r, o, cancelled)
    \/ CancelOrderLocal(r, o)
    \/ \E c \in Carts :
         \/ \E unit \in EditPrices : UpdateCartPrice(r, o, c, unit)
         \/ UpdateCartPurchasePrice(r, o, c)
         \/ \E q \in 1..MaxQuantity, given \in EditPrices \cup {NoPrice} :
              UpdateCartQuantity(r, o, c, q, given)
         \/ DeleteCartLine(r, o, c)

Step(r) ==
  \/ CancelLoad(r) \/ SaveMovement(r) \/ SaveCart(r) \/ SumLine(r)
  \/ ResaveLine(r) \/ SaveOrder(r) \/ DropCart(r)

Next == \E r \in Requests : Receive(r) \/ Step(r) \/ Fail(r)

Spec == Init /\ [][Next]_vars

-----------------------------------------------------------------------------
(* Properties.                                                             *)

\* The total of an order no request is working on is the sum of the totals
\* of its lines, whatever edits it has gone through.  Two requests on one
\* order can break this.
TotalsAgree ==
  \A o \in Orders \ (SharedOrders \cup torn) : order[o].saved /\ ~Busy(o) =>
    order[o].total = TotalOf(order[o].carts, cart)

\* A line that has a price of its own has the total that goes with its
\* quantity, whatever requests write it at the same time.
LinePriced ==
  \A c \in Carts : cart[c].state = "saved" /\ cart[c].unit > 0 =>
    cart[c].total = cart[c].unit * cart[c].qty

\* An edit recomputes the totals of the other lines of the order; their
\* quantities and unit prices are not its business, nor are other orders.
OtherLinesKept ==
  [][\A r \in Requests, c \in Carts :
       /\ pc[r] # "idle" /\ job[r].op = "quantity" /\ job[r].nid \notin SharedOrders
       /\ <<pc[r], at[r]>>' # <<pc[r], at[r]>> /\ c # job[r].line
       => cart'[c].unit = cart[c].unit /\ cart'[c].qty = cart[c].qty]_vars

=============================================================================
