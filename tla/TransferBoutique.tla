-------------------------- MODULE TransferBoutique --------------------------
(***************************************************************************)
(* Orders of products that are not in stock ("ventes sur commande"), and   *)
(* the transfer of their lines to the shop once the goods have arrived:    *)
(* saveOrderCommande of OrderLocalController and transferCartLinesToBoutique *)
(* of OrderCommandeApiController.                                          *)
(*                                                                         *)
(* A product_commande (Commandes) becomes a product of the shop (Products) *)
(* found by its SKU or created; the pieces enter the shop by a stock node  *)
(* and leave the product_commande, deleted when it has none left, by       *)
(* another; the line loses its pieces, or is deleted with its last ones.   *)
(* An exception in a line is caught and the loop goes on; the order itself *)
(* is saved once, after the loop, as it was read before it.                *)
(***************************************************************************)
EXTENDS Integers, FiniteSets

CONSTANTS
  Products,       \* nids the shop's products will get
  Commandes,      \* nids of the product_commande nodes
  Skus,           \* values of field_sku
  Trimmed,        \* trim() of each
  Carts,          \* nids the cart_commande nodes will get
  Orders,         \* nids the order_commande nodes will get
  Requests,       \* request processes the server runs at the same time
  InitialNodes,   \* the products and product_commande nodes there are
  MaxQuantity,    \* bound: largest quantity of a line
  MaxLines,       \* bound: lines of a new order
  MaxRequests,    \* bound: requests started in a behaviour
  SharedOrders,   \* orders two requests may work on at a time
  CanFail,        \* whether a line may raise, or a request be killed
  NoSku, NoItem, NoOrder, NoCart,
  Unread          \* static entity cache entry of a node not loaded

Items == Products \cup Commandes

ItemNode == [state : {"unused", "saved", "deleted"},
             sku : Skus \cup {NoSku}, qty : Int]

ASSUME TransferAssumption ==
  /\ Products \cap Commandes = {}
  /\ InitialNodes \in [Items -> ItemNode]
  /\ {MaxQuantity, MaxLines, MaxRequests} \subseteq Nat
  /\ SharedOrders \subseteq Orders
  /\ CanFail \in BOOLEAN
  /\ Trimmed \in [Skus \cup {NoSku} -> Skus \cup {NoSku}]
  /\ NoSku \notin Skus /\ NoItem \notin Items /\ Unread \notin Int

VARIABLES
  item,      \* item[x]: the product or product_commande node x
  cart,      \* cart[c]: the cart_commande node c
  order,     \* order[o]: the order_commande node o
  pc,        \* pc[r]: what request r does next
  job,       \* job[r]: what r has read and is writing
  at,        \* at[r]: the line r is at
  todo,      \* todo[r]: the lines r has still to go through
  seen,      \* seen[r][x]: stock of x in the static entity cache of r
  started,   \* number of requests started so far
  ordered,   \* history: pieces the client ordered with line c
  received,  \* history: pieces of line c that entered the shop
  torn       \* history: orders a request of which did not go to its end

vars == <<item, cart, order, pc, job, at, todo, seen, started,
          ordered, received, torn>>

NoLine == [state |-> "unused", pcnid |-> NoItem, qty |-> 0,
           transferred |-> FALSE]
Blank == [saved |-> FALSE, cancelled |-> FALSE, carts |-> {}]

\* ask[c]: the pieces asked of line c, 0 for all; line: the line as loaded;
\* product: the shop's product it goes to; dirty: $order_dirty.
NoJob == [op |-> "transfer", nid |-> NoOrder, order |-> Blank,
          ask |-> [c \in Carts |-> 0], pcs |-> [c \in Carts |-> NoItem],
          line |-> NoLine, product |-> NoItem, dirty |-> FALSE]

-----------------------------------------------------------------------------

Busy(o) == \E r \in Requests : pc[r] # "idle" /\ job[r].nid = o

Addressed(o) == order[o].saved /\ (o \in SharedOrders \/ ~Busy(o))

\* Node::load: the static cache of the request, or else the database.
Loaded(r, x) == IF seen[r][x] = Unread THEN item[x].qty ELSE seen[r][x]

Known(r, x) == item[x].state = "saved" \/ seen[r][x] # Unread

NothingRead == [x \in Items |-> Unread]

Begin(r, op, o, node, ask, pcs, S, first) ==
  /\ pc[r] = "idle"
  /\ started < MaxRequests
  /\ started' = started + 1
  /\ job' = [job EXCEPT ![r] = [NoJob EXCEPT !.op = op, !.nid = o,
                                  !.order = node, !.ask = ask, !.pcs = pcs]]
  /\ pc' = [pc EXCEPT ![r] = first]
  /\ \E c \in S : at' = [at EXCEPT ![r] = c] /\ todo' = [todo EXCEPT ![r] = S \ {c}]
  /\ UNCHANGED <<item, cart, order, seen, ordered, received, torn>>

End(r) ==
  /\ pc' = [pc EXCEPT ![r] = "idle"]
  /\ job' = [job EXCEPT ![r] = NoJob]
  /\ at' = [at EXCEPT ![r] = NoCart]
  /\ todo' = [todo EXCEPT ![r] = {}]
  /\ seen' = [seen EXCEPT ![r] = NothingRead]

\* The next line; after the last one the order is saved if a line changed.
NextLine(r, node, dirty) ==
  IF todo[r] # {}
  THEN /\ pc' = [pc EXCEPT ![r] = "pick"]
       /\ job' = [job EXCEPT ![r].order = node, ![r].dirty = dirty]
       /\ \E c \in todo[r] :
            at' = [at EXCEPT ![r] = c] /\ todo' = [todo EXCEPT ![r] = @ \ {c}]
       /\ UNCHANGED seen
  ELSE IF dirty
  THEN /\ pc' = [pc EXCEPT ![r] = "order"]
       /\ job' = [job EXCEPT ![r].order = node, ![r].dirty = dirty]
       /\ UNCHANGED <<at, todo, seen>>
  ELSE End(r)

-----------------------------------------------------------------------------
(* Requests.                                                               *)

\* A sale on order moves no stock: its lines, then the order.
SaveOrderCommande(r, o, S, pcs, quantity) ==
  /\ ~order[o].saved /\ ~Busy(o) /\ S # {}
  /\ \A c \in S : /\ cart[c].state = "unused"
                  /\ \A q \in Requests : c \notin job[q].order.carts
  /\ \A c \in S : item[pcs[c]].state = "saved"
  /\ Begin(r, "sale", o, [saved |-> TRUE, cancelled |-> FALSE, carts |-> S],
           [c \in Carts |-> IF c \in S THEN quantity[c] ELSE 0],
           [c \in Carts |-> IF c \in S THEN pcs[c] ELSE NoItem], S, "newcart")

\* The lines of S belong to the order as it was read.
TransferCartLines(r, o, S, quantity) ==
  /\ Addressed(o)
  /\ ~order[o].cancelled
  /\ S # {} /\ S \subseteq order[o].carts
  /\ Begin(r, "transfer", o, order[o],
           [c \in Carts |-> IF c \in S THEN quantity[c] ELSE 0],
           NoJob.pcs, S, "pick")

\* The order screen cancels through the generic save of /api_solutions/save.
CancelCommande(o) ==
  /\ Addressed(o)
  /\ ~order[o].cancelled
  /\ order' = [order EXCEPT ![o].cancelled = TRUE]
  /\ UNCHANGED <<item, cart, pc, job, at, todo, seen, started, ordered,
                 received, torn>>

-----------------------------------------------------------------------------
(* The lines of a sale on order.                                           *)

SaveNewCart(r) ==
  LET c == at[r]
      q == job[r].ask[c]
  IN  /\ pc[r] = "newcart"
      /\ cart' = [cart EXCEPT ![c] = [state |-> "saved", pcnid |-> job[r].pcs[c],
                                      qty |-> q, transferred |-> FALSE]]
      /\ ordered' = [ordered EXCEPT ![c] = q]
      /\ IF todo[r] = {}
         THEN pc' = [pc EXCEPT ![r] = "order"] /\ UNCHANGED <<at, todo>>
         ELSE /\ UNCHANGED pc
              /\ \E d \in todo[r] : /\ at' = [at EXCEPT ![r] = d]
                                    /\ todo' = [todo EXCEPT ![r] = @ \ {d}]
      /\ UNCHANGED <<item, order, job, seen, started, received, torn>>

-----------------------------------------------------------------------------
(* The transfer of a line.                                                 *)

\* A mutant: more than what remains can be transferred.
AnyQuantity(n, line) == n > 0

Transferable(n, line) == n > 0 /\ n <= line.qty

\* The pieces to transfer: those asked, or all that remain.
Asked(r, c, line) == IF job[r].ask[c] > 0 THEN job[r].ask[c] ELSE line.qty

\* Load and check the line and its product_commande, or refuse the line.
PickLine(r) ==
  LET c == at[r]
      line == cart[c]
  IN  /\ pc[r] = "pick"
      /\ IF /\ line.state = "saved" /\ ~line.transferred
            /\ line.qty > 0 /\ Transferable(Asked(r, c, line), line)
            /\ Known(r, line.pcnid)
         THEN /\ pc' = [pc EXCEPT ![r] = "find"]
              /\ job' = [job EXCEPT ![r].line = line, ![r].ask[c] = Asked(r, c, line)]
              /\ seen' = [seen EXCEPT ![r][line.pcnid] = Loaded(r, line.pcnid)]
              /\ UNCHANGED <<at, todo>>
         ELSE NextLine(r, job[r].order, job[r].dirty)
      /\ UNCHANGED <<item, cart, order, started, ordered, received, torn>>

\* A mutant: the product is looked up among those in stock.
InStock(sku) == {p \in Products : item[p].state = "saved" /\ item[p].sku = sku
                                  /\ item[p].qty > 0}

WithSku(sku) == {p \in Products : item[p].state = "saved" /\ item[p].sku = sku}

\* A product of the shop with the SKU of the product_commande, if it has one:
\* with the trimmed SKU, although a product is created with the SKU as it is.
FindProduct(r) ==
  LET sku == Trimmed[item[job[r].line.pcnid].sku]
  IN  /\ pc[r] = "find"
      /\ IF sku # NoSku /\ WithSku(sku) # {}
         THEN \E p \in WithSku(sku) :
                /\ job' = [job EXCEPT ![r].product = p]
                /\ seen' = [seen EXCEPT ![r][p] = Loaded(r, p)]
                /\ pc' = [pc EXCEPT ![r] = "in"]
         ELSE pc' = [pc EXCEPT ![r] = "create"] /\ UNCHANGED <<job, seen>>
      /\ UNCHANGED <<item, cart, order, at, todo, started, ordered, received, torn>>

CreateProduct(r) ==
  /\ pc[r] = "create"
  /\ \E p \in Products :
       /\ item[p].state = "unused"
       /\ item' = [item EXCEPT ![p] = [state |-> "saved", qty |-> 0,
                                       sku |-> item[job[r].line.pcnid].sku]]
       /\ job' = [job EXCEPT ![r].product = p]
  /\ pc' = [pc EXCEPT ![r] = "in"]
  /\ UNCHANGED <<cart, order, at, todo, seen, started, ordered, received, torn>>

\* Stock node "in" of the shop's product, with its hook.
StockIn(r) ==
  LET c == at[r]
      p == job[r].product
      n == job[r].ask[c]
  IN  /\ pc[r] = "in"
      /\ item' = [item EXCEPT ![p].qty = Loaded(r, p) + n]
      /\ received' = [received EXCEPT ![c] = @ + n]
      /\ seen' = [seen EXCEPT ![r][p] = Unread]
      /\ pc' = [pc EXCEPT ![r] =
                  IF Loaded(r, job[r].line.pcnid) > 0 THEN "out" ELSE "cart"]
      /\ UNCHANGED <<cart, order, job, at, todo, started, ordered, torn>>

OutQuantity(n, available) == IF n < available THEN n ELSE available

\* Stock node "out" of the product_commande, with its hook.
StockOut(r) ==
  LET x == job[r].line.pcnid
      available == Loaded(r, x)
  IN  /\ pc[r] = "out"
      /\ item' = IF item[x].state = "deleted" THEN item
                 ELSE [item EXCEPT ![x].qty =
                         available - OutQuantity(job[r].ask[at[r]], available)]
      /\ seen' = [seen EXCEPT ![r][x] = Unread]
      /\ pc' = [pc EXCEPT ![r] = "droppc"]
      /\ UNCHANGED <<cart, order, job, at, todo, started, ordered, received, torn>>

\* Loaded again, a product_commande with no pieces left is deleted.
DropCommande(r) ==
  LET x == job[r].line.pcnid
  IN  /\ pc[r] = "droppc"
      /\ IF item[x].state = "saved" /\ item[x].qty <= 0
         THEN /\ item' = [item EXCEPT ![x].state = "deleted"]
              /\ UNCHANGED seen
         ELSE /\ seen' = [seen EXCEPT ![r][x] =
                            IF item[x].state = "saved" THEN item[x].qty ELSE Unread]
              /\ UNCHANGED item
      /\ pc' = [pc EXCEPT ![r] = "cart"]
      /\ UNCHANGED <<cart, order, job, at, todo, started, ordered, received, torn>>

\* A cart is saved whole; one deleted meanwhile stays deleted.
Stored(c, line) ==
  IF cart[c].state = "deleted" THEN cart ELSE [cart EXCEPT ![c] = line]

\* A mutant: the transferred line stays in the order.
StillListed(node, c) == node

\* removeCartFromOrder, on the order the request holds.
RemoveCart(node, c) == [node EXCEPT !.carts = @ \ {c}]

\* The line keeps its remaining pieces, or gets its last status.
SaveLine(r) ==
  LET c == at[r]
      line == job[r].line
      remaining == line.qty - job[r].ask[c]
  IN  /\ pc[r] = "cart"
      /\ IF remaining <= 0
         THEN /\ cart' = Stored(c, [line EXCEPT !.transferred = TRUE])
              /\ job' = [job EXCEPT ![r].order = RemoveCart(@, c)]
              /\ pc' = [pc EXCEPT ![r] = "dropcart"]
              /\ UNCHANGED <<at, todo, seen>>
         ELSE /\ cart' = Stored(c, [line EXCEPT !.qty = remaining])
              /\ NextLine(r, job[r].order, TRUE)
      /\ UNCHANGED <<item, order, started, ordered, received, torn>>

DropLine(r) ==
  /\ pc[r] = "dropcart"
  /\ cart' = [cart EXCEPT ![at[r]].state = "deleted"]
  /\ NextLine(r, job[r].order, TRUE)
  /\ UNCHANGED <<item, order, started, ordered, received, torn>>

SaveOrder(r) ==
  /\ pc[r] = "order"
  /\ order' = [order EXCEPT ![job[r].nid] = job[r].order]
  /\ End(r)
  /\ UNCHANGED <<item, cart, started, ordered, received, torn>>

\* An exception in a line is caught: the next line, and the answer says 207.
LineError(r) ==
  /\ CanFail
  /\ pc[r] \in {"find", "create", "in", "out", "droppc", "cart", "dropcart"}
  /\ NextLine(r, job[r].order, job[r].dirty)
  /\ torn' = torn \cup {job[r].nid}
  /\ UNCHANGED <<item, cart, order, started, ordered, received>>

\* The process is killed.
Crash(r) ==
  /\ CanFail /\ pc[r] # "idle"
  /\ End(r)
  /\ torn' = torn \cup {job[r].nid}
  /\ UNCHANGED <<item, cart, order, started, ordered, received>>

-----------------------------------------------------------------------------

Init ==
  /\ item = InitialNodes
  /\ cart = [c \in Carts |-> NoLine]
  /\ order = [o \in Orders |-> Blank]
  /\ pc = [r \in Requests |-> "idle"]
  /\ job = [r \in Requests |-> NoJob]
  /\ at = [r \in Requests |-> NoCart]
  /\ todo = [r \in Requests |-> {}]
  /\ seen = [r \in Requests |-> NothingRead]
  /\ started = 0
  /\ ordered = [c \in Carts |-> 0]
  /\ received = [c \in Carts |-> 0]
  /\ torn = {}

Sale(r, o) ==
  \E S \in {T \in SUBSET Carts : Cardinality(T) <= MaxLines} :
    \E pcs \in [S -> Commandes], quantity \in [S -> 1..MaxQuantity] :
      SaveOrderCommande(r, o, S, pcs, quantity)

Transfer(r, o) ==
  \E S \in SUBSET order[o].carts : \E quantity \in [S -> 0..MaxQuantity] :
    TransferCartLines(r, o, S, quantity)

Step(r) ==
  \/ SaveNewCart(r) \/ PickLine(r) \/ FindProduct(r) \/ CreateProduct(r)
  \/ StockIn(r) \/ StockOut(r) \/ DropCommande(r) \/ SaveLine(r)
  \/ DropLine(r) \/ SaveOrder(r)

Next ==
  \/ \E r \in Requests, o \in Orders : Sale(r, o) \/ Transfer(r, o)
  \/ \E o \in Orders : CancelCommande(o)
  \/ \E r \in Requests : Step(r) \/ LineError(r) \/ Crash(r)

Spec == Init /\ [][Next]_vars

-----------------------------------------------------------------------------
(* Properties.                                                             *)

\* The pieces of a line that entered the shop and those that remain on it are
\* the pieces ordered, and a line about to be deleted has them all in the shop,
\* once no request works on its order, unless one stopped half-way.  Two
\* requests on one order can break this.
PiecesConserved ==
  /\ \A o \in Orders \ (SharedOrders \cup torn) : order[o].saved /\ ~Busy(o) =>
       \A c \in order[o].carts : received[c] + cart[c].qty = ordered[c]
  /\ \A r \in Requests :
       pc[r] = "dropcart" /\ job[r].nid \notin SharedOrders \cup torn =>
         received[at[r]] = ordered[at[r]]

\* A product is created only for a SKU the shop has none of: the products with
\* one SKU are at most as many as the requests that looked it up together.  With
\* blanks around it, a SKU is never found again.
FewProductsPerSku ==
  \A sku \in {s \in Skus : Trimmed[s] = s} :
    Cardinality({p \in Products : item[p].state = "saved" /\ item[p].sku = sku})
      <= Cardinality(Requests)

\* An order at rest lists the lines that still have pieces to transfer, and
\* no other: a line with its last piece gone is nowhere.
OpenLinesListed ==
  \A o \in Orders \ (SharedOrders \cup torn) : order[o].saved /\ ~Busy(o) =>
    \A c \in order[o].carts : /\ cart[c].state = "saved"
                              /\ ~cart[c].transferred /\ cart[c].qty > 0
=============================================================================
