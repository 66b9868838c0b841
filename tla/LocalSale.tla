----------------------------- MODULE LocalSale -----------------------------
(***************************************************************************)
(* Sales of the shop ("ventes locales") as OrderLocalController performs   *)
(* them.  A request is a PHP process: it validates what it has read, then  *)
(* issues a series of entity saves, each one a database transaction of its *)
(* own, with nothing around them.  Other requests run between two saves,   *)
(* and a request can stop between two saves (an exception, a killed        *)
(* process).  A stock movement and the update of the product it causes     *)
(* (hook_node_insert) are one transaction; the product value the hook adds *)
(* to is the one the request already holds in its static entity cache.     *)
(*                                                                         *)
(* Prices and totals are in OrderTotals; here an order is its lines and    *)
(* its two status fields, a line its product and its quantity.  field_carts *)
(* is a set: a handler goes through the lines in any order.                *)
(***************************************************************************)
EXTENDS Integers, FiniteSets

CONSTANTS
  Products,       \* nids of nodes of bundle product
  Carts,          \* nids the cart nodes will get
  Orders,         \* nids the order_local nodes will get
  Requests,       \* request processes the server runs at the same time
  InitialStock,   \* field_quantite_disponible before the first request
  MaxQuantity,    \* bound: largest quantity a client asks for
  MaxLines,       \* bound: lines of a new sale
  MaxRequests,    \* bound: requests started in a behaviour
  StatusSteps,    \* status changes the clients ask for, as <<from, to>>
  RepeatProducts, \* products one sale may name in two items
  SharedOrders,   \* orders two requests may work on at a time
  CanFail,        \* whether a request may stop between two saves
  NoProduct,      \* product of a line not loaded yet
  NoOrder,        \* order of an idle request
  NoCart,         \* line of a request that is at none
  Unread          \* static entity cache entry of a product not loaded

LocalStatuses == {"sortie", "envoi_livreur", "livre_np", "livre_p", "annuler"}

ASSUME ConstantsAssumption ==
  /\ InitialStock \in [Products -> Nat]
  /\ MaxQuantity \in Nat \ {0}
  /\ MaxLines \in Nat \ {0}
  /\ MaxRequests \in Nat
  /\ StatusSteps \subseteq LocalStatuses \X LocalStatuses
  /\ RepeatProducts \subseteq Products
  /\ SharedOrders \subseteq Orders
  /\ CanFail \in BOOLEAN
  /\ NoProduct \notin Products
  /\ NoOrder \notin Orders
  /\ NoCart \notin Carts
  /\ Unread \notin Int

VARIABLES
  stock,    \* stock[p]: field_quantite_disponible of product p
  moved,    \* moved[p]: sum of the stock nodes of p, "in" minus "out"
  cart,     \* cart[c]: the cart node c
  order,    \* order[o]: the order_local node o
  pc,       \* pc[r]: the save request r does next
  job,      \* job[r]: what r has validated and is writing
  at,       \* at[r]: the line r is at
  todo,     \* todo[r]: the lines r has still to go through
  seen,     \* seen[r][p]: product p in the static entity cache of r
  started,  \* number of requests started so far
  sold,     \* history: pieces movements took out of stock for line c
  torn      \* history: orders a request of which stopped half-way

dbVars == <<stock, moved, cart, order, sold>>
vars == <<stock, moved, cart, order, pc, job, at, todo, seen, started,
          sold, torn>>

-----------------------------------------------------------------------------
(* Entities.                                                               *)

CartNode == [state : {"unused", "saved", "deleted"},
             product : Products \cup {NoProduct}, qty : Nat]

Commande == {"payer_recue", "no_payer", "en_livraison", "annuler", "sortie"}

OrderNode == [saved : BOOLEAN, carts : SUBSET Carts,
              commande : Commande, local : LocalStatuses]

Blank == [saved |-> FALSE, carts |-> {},
          commande |-> "payer_recue", local |-> "sortie"]

FreshCart == [state |-> "unused", product |-> NoProduct, qty |-> 0]

\* A mutant: the status of the screen is stored as it comes.
RawStatus(s) == s

\* field_status_commande that goes with a status of the delivery screen.
CommandeMap(s) ==
  CASE s = "livre_p"       -> "payer_recue"
    [] s = "livre_np"      -> "no_payer"
    [] s = "envoi_livreur" -> "en_livraison"
    [] s = "annuler"       -> "annuler"
    [] s = "sortie"        -> "sortie"

-----------------------------------------------------------------------------
(* Requests.  For each line it is about, a job has the product and the     *)
(* quantity to write to the cart and the pieces to move: positive for an   *)
(* "in" movement, negative for an "out" one.                               *)

Ops == {"sale", "status", "cancel", "price", "purchase", "quantity", "delete"}
Steps == {"idle", "load", "cart", "move", "order", "drop"}

Line == [product : Products \cup {NoProduct}, qty : Nat, move : Int]
NoLine == [product |-> NoProduct, qty |-> 0, move |-> 0]

Job == [op : Ops, nid : Orders \cup {NoOrder}, order : OrderNode,
        lines : [Carts -> Line]]

NoLines == [c \in Carts |-> NoLine]
NoJob == [op |-> "status", nid |-> NoOrder, order |-> Blank, lines |-> NoLines]

NothingRead == [p \in Products |-> Unread]

\* The job about the one line c.
Single(c, p, q, m) ==
  [NoLines EXCEPT ![c] = [product |-> p, qty |-> q, move |-> m]]

\* The job j once the line c is known.
WithLine(j, c, p, q, m) ==
  [j EXCEPT !.lines = [@ EXCEPT ![c] = [product |-> p, qty |-> q, move |-> m]]]

Busy(o) == \E r \in Requests : pc[r] # "idle" /\ job[r].nid = o

\* Whether a client sends a request about the saved order o now.
Addressed(o) == order[o].saved /\ (o \in SharedOrders \/ ~Busy(o))

\* Node::load: the static cache of the request, or else the database.
Loaded(r, p) == IF seen[r][p] = Unread THEN stock[p] ELSE seen[r][p]

\* A mutant: the node just saved stays in the static cache.
KeptInCache(r, p) == [seen EXCEPT ![r][p] = Loaded(r, p)]

\* Saving a node takes it out of the static cache.
ResetCache(r, p) == [seen EXCEPT ![r][p] = Unread]

\* Request r has validated op on order o; it goes through the lines of S,
\* each from the step first on, then saves node.
Begin(r, op, o, node, lines, S, first, read) ==
  /\ pc[r] = "idle"
  /\ started < MaxRequests
  /\ started' = started + 1
  /\ pc' = [pc EXCEPT ![r] = first]
  /\ job' = [job EXCEPT ![r] =
               [op |-> op, nid |-> o, order |-> node, lines |-> lines]]
  /\ \E c \in IF S = {} THEN {NoCart} ELSE S :
       /\ at' = [at EXCEPT ![r] = c]
       /\ todo' = [todo EXCEPT ![r] = S \ {c}]
  /\ seen' = [seen EXCEPT ![r] =
                [p \in Products |-> IF p \in read THEN stock[p] ELSE Unread]]
  /\ UNCHANGED <<dbVars, torn>>

\* The next step; a request that has answered holds nothing any more.
Goto(r, step) ==
  /\ pc' = [pc EXCEPT ![r] = step]
  /\ IF step = "idle"
     THEN /\ job' = [job EXCEPT ![r] = NoJob]
          /\ at' = [at EXCEPT ![r] = NoCart]
          /\ todo' = [todo EXCEPT ![r] = {}]
          /\ seen' = [seen EXCEPT ![r] = NothingRead]
     ELSE UNCHANGED <<job, at, todo, seen>>

\* Another line of the job, or the save of the order after the last one.
NextLine(r, first) ==
  IF todo[r] = {}
  THEN pc' = [pc EXCEPT ![r] = "order"] /\ UNCHANGED <<at, todo>>
  ELSE /\ pc' = [pc EXCEPT ![r] = first]
       /\ \E c \in todo[r] :
            /\ at' = [at EXCEPT ![r] = c]
            /\ todo' = [todo EXCEPT ![r] = @ \ {c}]

-----------------------------------------------------------------------------
(* Validation: what each handler reads and refuses before its first save.  *)

\* Every item is checked on its own against the stock just read.
EnoughStock(S, product, quantity) ==
  \A c \in S : stock[product[c]] >= quantity[c]

\* A mutant: lines are written to carts that exist already.
AnyCarts(S) == \A c \in S : cart[c].state # "deleted"

\* Nids no cart node has and no request in progress has been given.
NewCarts(S) ==
  \A c \in S : /\ cart[c].state = "unused"
              /\ \A q \in Requests : c \notin job[q].order.carts

\* S is the nids the new cart nodes will get, o that of the order.
SaveOrderLocal(r, o, S, product, quantity) ==
  /\ ~order[o].saved /\ ~Busy(o)
  /\ S # {}
  /\ NewCarts(S)
  /\ \A c, d \in S : c # d /\ product[c] = product[d] =>
                       product[c] \in RepeatProducts
  /\ EnoughStock(S, product, quantity)
  /\ Begin(r, "sale", o,
           [saved |-> TRUE, carts |-> S,
            commande |-> "payer_recue", local |-> "sortie"],
           [c \in Carts |-> IF c \in S
              THEN [product |-> product[c], qty |-> quantity[c],
                    move |-> -quantity[c]]
              ELSE NoLine],
           S, "cart", {product[c] : c \in S})

\* No check of the status the order is in: <<from, to>> is the client's choice.
UpdateStatusLocal(r, o, to) ==
  /\ Addressed(o)
  /\ <<order[o].local, to>> \in StatusSteps
  /\ Begin(r, "status", o,
           [order[o] EXCEPT !.local = to, !.commande = CommandeMap(to)],
           NoLines, {}, "order", {})

\* A mutant: the status of the order is not looked at.
AnyStatus(o) == TRUE

\* The status cancellation and the edits of a line refuse.
NotCancelled(o) == order[o].commande # "annuler"

\* A mutant: cancellation sets one of the two status fields.
HalfCancelled(o) == [order[o] EXCEPT !.commande = "annuler"]

Cancelled(o) == [order[o] EXCEPT !.local = "annuler", !.commande = "annuler"]

\* The lines are known by their nid only: CancelLoad reads each in its turn.
CancelOrderLocal(r, o) ==
  /\ Addressed(o)
  /\ NotCancelled(o)
  /\ order[o].carts # {}
  /\ Begin(r, "cancel", o, Cancelled(o), NoLines, order[o].carts, "load", {})

\* Checks shared by the four handlers that edit one line of an order.
EditableLine(o, c) ==
  /\ Addressed(o)
  /\ NotCancelled(o)
  /\ cart[c].state = "saved"
  /\ c \in order[o].carts

\* A price edit saves the whole cart it has loaded, quantity included.
UpdateCartPrice(r, o, c) ==
  /\ EditableLine(o, c)
  /\ Begin(r, "price", o, order[o],
           Single(c, cart[c].product, cart[c].qty, 0), {c}, "cart", {})

UpdateCartPurchasePrice(r, o, c) ==
  /\ EditableLine(o, c)
  /\ Begin(r, "purchase", o, order[o],
           Single(c, cart[c].product, cart[c].qty, 0), {c}, "cart", {})

UpdateCartQuantity(r, o, c, quantity) ==
  LET delta == quantity - cart[c].qty
      p     == cart[c].product
  IN  /\ EditableLine(o, c)
      /\ order[o].local # "annuler"
      /\ p \in Products
      /\ delta > 0 => stock[p] >= delta
      /\ Begin(r, "quantity", o, order[o], Single(c, p, quantity, -delta),
               {c}, IF delta = 0 THEN "cart" ELSE "move", {p})

\* A mutant: field_carts is left as it is.
StillListed(o, c) == order[o]

\* The order without the line c.
RemainingCarts(o, c) == [order[o] EXCEPT !.carts = @ \ {c}]

DeleteCartLine(r, o, c) ==
  LET p == cart[c].product
  IN  /\ EditableLine(o, c)
      /\ order[o].local # "annuler"
      /\ order[o].carts # {c}
      /\ p \in Products
      /\ Begin(r, "delete", o, RemainingCarts(o, c),
               Single(c, p, cart[c].qty, cart[c].qty), {c}, "move", {p})

-----------------------------------------------------------------------------
(* Saves, each one a transaction.                                          *)

\* Cancelling: load the next cart and its product; a missing cart is skipped.
CancelLoad(r) ==
  LET c == at[r]
      p == cart[c].product
      q == cart[c].qty
  IN  /\ pc[r] = "load"
      /\ IF cart[c].state = "saved" /\ p \in Products /\ q > 0
         THEN /\ job' = [job EXCEPT ![r] = WithLine(@, c, p, q, q)]
              /\ seen' = [seen EXCEPT ![r][p] = Loaded(r, p)]
              /\ pc' = [pc EXCEPT ![r] = "move"]
              /\ UNCHANGED <<at, todo>>
         ELSE NextLine(r, "load") /\ UNCHANGED <<job, seen>>
      /\ UNCHANGED <<dbVars, started, torn>>

\* A whole cart is written; saving a node deleted meanwhile does not revive it.
SaveCart(r) ==
  LET c == at[r]
      l == job[r].lines[c]
  IN  /\ pc[r] = "cart"
      /\ cart' = IF cart[c].state = "deleted" THEN cart
                 ELSE [cart EXCEPT ![c] =
                         [state |-> "saved", product |-> l.product, qty |-> l.qty]]
      /\ Goto(r, CASE job[r].op = "sale"     -> "move"
                   [] job[r].op = "purchase" -> "idle"
                   [] OTHER                  -> "order")
      /\ UNCHANGED <<stock, moved, order, sold, started, torn>>

\* Insertion of a stock node and, in its transaction, hook_node_insert.
SaveMovement(r) ==
  LET c == at[r]
      p == job[r].lines[c].product
      m == job[r].lines[c].move
  IN  /\ pc[r] = "move"
      /\ stock' = [stock EXCEPT ![p] = Loaded(r, p) + m]
      /\ moved' = [moved EXCEPT ![p] = @ + m]
      /\ sold' = [sold EXCEPT ![c] = @ - m]
      /\ seen' = ResetCache(r, p)
      /\ CASE job[r].op = "sale"     -> NextLine(r, "cart")
           [] job[r].op = "cancel"   -> NextLine(r, "load")
           [] job[r].op = "quantity" -> pc' = [pc EXCEPT ![r] = "cart"]
                                        /\ UNCHANGED <<at, todo>>
           [] OTHER                  -> pc' = [pc EXCEPT ![r] = "order"]
                                        /\ UNCHANGED <<at, todo>>
      /\ UNCHANGED <<cart, order, job, started, torn>>

\* A new revision of the order carries every field as the request read it.
SaveOrder(r) ==
  /\ pc[r] = "order"
  /\ order' = [order EXCEPT ![job[r].nid] = job[r].order]
  /\ Goto(r, IF job[r].op = "delete" THEN "drop" ELSE "idle")
  /\ UNCHANGED <<stock, moved, cart, sold, started, torn>>

DropCart(r) ==
  /\ pc[r] = "drop"
  /\ cart' = [cart EXCEPT ![at[r]] = [FreshCart EXCEPT !.state = "deleted"]]
  /\ Goto(r, "idle")
  /\ UNCHANGED <<stock, moved, order, sold, started, torn>>

\* An exception or a killed process: what is saved stays, the rest is lost.
Fail(r) ==
  /\ CanFail
  /\ pc[r] # "idle"
  /\ Goto(r, "idle")
  /\ torn' = IF order[job[r].nid].saved THEN torn \cup {job[r].nid} ELSE torn
  /\ UNCHANGED <<dbVars, started>>

-----------------------------------------------------------------------------

Init ==
  /\ stock = InitialStock
  /\ moved = [p \in Products |-> 0]
  /\ cart = [c \in Carts |-> FreshCart]
  /\ order = [o \in Orders |-> Blank]
  /\ pc = [r \in Requests |-> "idle"]
  /\ job = [r \in Requests |-> NoJob]
  /\ at = [r \in Requests |-> NoCart]
  /\ todo = [r \in Requests |-> {}]
  /\ seen = [r \in Requests |-> NothingRead]
  /\ started = 0
  /\ sold = [c \in Carts |-> 0]
  /\ torn = {}

\* A sale has at most MaxLines items.
Sale(r, o) ==
  \E S \in {T \in SUBSET Carts : Cardinality(T) <= MaxLines} :
    \E product \in [S -> Products], quantity \in [S -> 1..MaxQuantity] :
      SaveOrderLocal(r, o, S, product, quantity)

Receive(r) ==
  \E o \in Orders :
    \/ Sale(r, o)
    \/ \E to \in LocalStatuses : UpdateStatusLocal(r, o, to)
    \/ CancelOrderLocal(r, o)
    \/ \E c \in Carts :
         \/ UpdateCartPrice(r, o, c)
         \/ UpdateCartPurchasePrice(r, o, c)
         \/ \E q \in 1..MaxQuantity : UpdateCartQuantity(r, o, c, q)
         \/ DeleteCartLine(r, o, c)

Save(r) ==
  CancelLoad(r) \/ SaveCart(r) \/ SaveMovement(r) \/ SaveOrder(r) \/ DropCart(r)

Next == \E r \in Requests : Receive(r) \/ Save(r) \/ Fail(r)

Spec == Init /\ [][Next]_vars

-----------------------------------------------------------------------------
(* Properties.                                                             *)

\* The entities and the requests stay well formed.
TypeOK ==
  /\ stock \in [Products -> Int]
  /\ moved \in [Products -> Int]
  /\ cart \in [Carts -> CartNode]
  /\ order \in [Orders -> OrderNode]
  /\ pc \in [Requests -> Steps]
  /\ job \in [Requests -> Job]
  /\ at \in [Requests -> Carts \cup {NoCart}]
  /\ todo \in [Requests -> SUBSET Carts]
  /\ seen \in [Requests -> [Products -> Int \cup {Unread}]]
  /\ started \in Nat
  /\ sold \in [Carts -> Int]
  /\ torn \subseteq Orders

\* A running request works on an order, is at a line when its step needs one,
\* and has the product of every line it is about to write or to move.
RequestOK(r) ==
  pc[r] # "idle" =>
    /\ job[r].nid \in Orders
    /\ pc[r] \in {"load", "cart", "move", "drop"} \/ job[r].op = "delete" =>
         at[r] \in Carts
    /\ pc[r] \in {"cart", "move"} => job[r].lines[at[r]].product \in Products
    /\ job[r].op = "sale" =>
         \A c \in todo[r] : job[r].lines[c].product \in Products

SavedCartsOK ==
  \A c \in Carts : cart[c].state = "saved" => cart[c].product \in Products

RequestsOK == SavedCartsOK /\ \A r \in Requests : RequestOK(r)

\* The quantity shown on a product is the initial one plus what its stock
\* nodes say came in and went out: the hook loses no movement.
LedgerAgrees == \A p \in Products : stock[p] = InitialStock[p] + moved[p]

\* No sale and no increase of a line takes more pieces of a product than the
\* shop has, unless a sale may name the product in two items.
NeverOversold == \A p \in Products \ RepeatProducts : stock[p] >= 0

\* An order that no request is working on, and of which no request stopped
\* half-way, has its lines, and each line holds exactly its quantity out of
\* stock, or nothing once the order is cancelled; a line that is about to be
\* deleted holds nothing.  Two requests on one order can break this.
SalesSettled ==
  /\ \A o \in Orders \ (SharedOrders \cup torn) : order[o].saved /\ ~Busy(o) =>
       \A c \in order[o].carts :
         /\ cart[c].state = "saved"
         /\ sold[c] = IF order[o].commande = "annuler" THEN 0 ELSE cart[c].qty
  /\ \A r \in Requests :
       pc[r] = "drop" /\ job[r].nid \notin SharedOrders \cup torn => sold[at[r]] = 0

\* An order never refers to a line that is not there, whatever save a
\* request stops after: lines are saved before and deleted after the order.
LinesExist ==
  \A o \in Orders \ SharedOrders : \A c \in order[o].carts : cart[c].state = "saved"

\* The two status fields agree on cancellation, so that the handlers that
\* check only one of them refuse the same orders as those that check both.
StatusesAgree ==
  \A o \in Orders : order[o].commande = "annuler" <=> order[o].local = "annuler"

\* A line belongs to one order only.
CartsNotShared ==
  \A o1, o2 \in Orders : o1 # o2 => order[o1].carts \cap order[o2].carts = {}

\* What makes CartsNotShared hold: the lines of orders, and of the orders the
\* requests are about to save, are nids that were handed out once.
InUse(c) == cart[c].state # "unused"

JobLinesOK(r) ==
  pc[r] # "idle" =>
    /\ \A c \in job[r].order.carts :
         \/ InUse(c)
         \/ job[r].op = "sale" /\ c \in todo[r]
         \/ job[r].op = "sale" /\ pc[r] = "cart" /\ c = at[r]
    /\ job[r].op = "sale" => pc[r] \in {"cart", "move", "order"}
    /\ job[r].op = "sale" /\ pc[r] = "order" => todo[r] = {}
    /\ \A o \in Orders \ {job[r].nid} :
         job[r].order.carts \cap order[o].carts = {}

LinesOwned ==
  /\ CartsNotShared
  /\ \A o \in Orders : \A c \in order[o].carts : InUse(c)
  /\ \A r \in Requests : JobLinesOK(r)
  /\ \A r, q \in Requests :
       pc[r] # "idle" /\ pc[q] # "idle" /\ job[r].nid # job[q].nid =>
         job[r].order.carts \cap job[q].order.carts = {}

\* What makes LedgerAgrees hold when one request runs at a time: the product
\* a request holds is the one in the database.
CacheFresh ==
  \A r \in Requests, p \in Products : seen[r][p] \in {Unread, stock[p]}

\* What makes NeverOversold hold when one request runs at a time: the pieces
\* a request has still to take are there, line by line.
Owed(r) ==
  IF job[r].op = "sale"
  THEN todo[r] \cup {c \in {at[r]} : pc[r] \in {"cart", "move"}}
  ELSE {c \in {at[r]} : pc[r] = "move"}

Covered(r) ==
  pc[r] # "idle" =>
    /\ at[r] \notin todo[r]
    /\ \A c \in Owed(r) :
         job[r].lines[c].product \notin RepeatProducts =>
           stock[job[r].lines[c].product] + job[r].lines[c].move >= 0
    /\ \A c, d \in Owed(r) :
         c # d /\ job[r].lines[c].product = job[r].lines[d].product =>
           job[r].lines[c].product \in RepeatProducts

RequestsCovered == \A r \in Requests : Covered(r)

\* While an order stays cancelled nothing edits it, its lines or the pieces
\* they hold.
CancelledIsClosed ==
  [][\A o \in Orders : order[o].commande = "annuler" =>
       /\ order'[o].carts = order[o].carts
       /\ \A c \in order[o].carts : cart'[c] = cart[c] /\ sold'[c] = sold[c]]_vars

\* What the sales promise about the stock as a whole: every change of it is
\* one movement of one line of an order, in the book for as much as it takes
\* from the product and as much as the line gets, and takes no more than there
\* is.
Ledger == INSTANCE StockLedger
            WITH Lines <- Carts, Unguarded <- RepeatProducts, held <- sold

KeepsLedger == Ledger!Spec
=============================================================================
