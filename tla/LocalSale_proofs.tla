--------------------------- MODULE LocalSale_proofs ---------------------------
(* Theorems about LocalSale, for every value of its constants.             *)
EXTENDS LocalSale, TLAPS

(* The values the handlers put in a job are jobs.                          *)
LEMMA NoJobType == NoJob \in Job /\ NoLines \in [Carts -> Line]
                   /\ Blank \in OrderNode /\ FreshCart \in CartNode
BY DEF NoJob, NoLines, NoLine, Line, Job, Blank, OrderNode, Ops, Commande,
       LocalStatuses, FreshCart, CartNode

LEMMA SingleType ==
  ASSUME NEW c \in Carts, NEW p \in Products \cup {NoProduct}, NEW q \in Nat,
         NEW m \in Int
  PROVE  Single(c, p, q, m) \in [Carts -> Line]
BY NoJobType DEF Single, Line, NoLines

(* Begin keeps the state well formed when the job it stores is.            *)
LEMMA BeginType ==
  ASSUME TypeOK, NEW r \in Requests, NEW op \in Ops, NEW o \in Orders,
         NEW node \in OrderNode, NEW lines \in [Carts -> Line],
         NEW S \in SUBSET Carts, NEW first \in Steps, NEW read,
         Begin(r, op, o, node, lines, S, first, read)
  PROVE  TypeOK'
<1>1. started' \in Nat
  BY ConstantsAssumption DEF Begin, TypeOK
<1>2. pc' \in [Requests -> Steps]
  BY DEF Begin, TypeOK
<1>3. job' \in [Requests -> Job]
  <2>1. [op |-> op, nid |-> o, order |-> node, lines |-> lines] \in Job
    BY DEF Job
  <2> QED BY <2>1 DEF Begin, TypeOK
<1>4. /\ at' \in [Requests -> Carts \cup {NoCart}]
      /\ todo' \in [Requests -> SUBSET Carts]
  BY DEF Begin, TypeOK
<1>5. seen' \in [Requests -> [Products -> Int \cup {Unread}]]
  BY DEF Begin, TypeOK
<1> QED BY <1>1, <1>2, <1>3, <1>4, <1>5 DEF Begin, TypeOK, dbVars

LEMMA GotoType ==
  ASSUME TypeOK, NEW r \in Requests, NEW step \in Steps, Goto(r, step)
  PROVE  /\ pc' \in [Requests -> Steps]
         /\ job' \in [Requests -> Job]
         /\ at' \in [Requests -> Carts \cup {NoCart}]
         /\ todo' \in [Requests -> SUBSET Carts]
         /\ seen' \in [Requests -> [Products -> Int \cup {Unread}]]
<1>1. CASE step = "idle"
  <2>1. NothingRead \in [Products -> Int \cup {Unread}]
    BY DEF NothingRead
  <2>2. job' \in [Requests -> Job]
    BY <1>1, NoJobType DEF Goto, TypeOK
  <2> QED BY <1>1, <2>1, <2>2 DEF Goto, TypeOK
<1>2. CASE step # "idle"
  BY <1>2 DEF Goto, TypeOK
<1> QED BY <1>1, <1>2

LEMMA NextLineType ==
  ASSUME TypeOK, NEW r \in Requests, NEW step \in Steps, NextLine(r, step)
  PROVE  /\ pc' \in [Requests -> Steps]
         /\ at' \in [Requests -> Carts \cup {NoCart}]
         /\ todo' \in [Requests -> SUBSET Carts]
<1>1. CASE todo[r] = {}
  BY <1>1 DEF NextLine, TypeOK, Steps
<1>2. CASE todo[r] # {}
  <2>1. PICK c \in todo[r] : /\ at' = [at EXCEPT ![r] = c]
                            /\ todo' = [todo EXCEPT ![r] = @ \ {c}]
    BY <1>2 DEF NextLine
  <2>2. c \in Carts /\ todo[r] \subseteq Carts
    BY DEF TypeOK
  <2>3. pc' = [pc EXCEPT ![r] = step]
    BY <1>2 DEF NextLine
  <2> QED BY <2>1, <2>2, <2>3 DEF TypeOK
<1> QED BY <1>1, <1>2

(* Every save of a request keeps the state well formed, provided the line  *)
(* it is at has a product whenever it moves pieces.                        *)
LEMMA SaveCartType ==
  ASSUME TypeOK, NEW r \in Requests, SaveCart(r), at[r] \in Carts
  PROVE  TypeOK'
<1> DEFINE l == job[r].lines[at[r]]
<1>1. job[r] \in Job /\ l \in Line
  BY DEF TypeOK, Job
<1>2. cart' \in [Carts -> CartNode]
  BY <1>1 DEF SaveCart, TypeOK, CartNode, Line
<1>3. PICK step \in Steps : Goto(r, step)
  BY DEF SaveCart, Steps
<1> QED BY <1>2, <1>3, GotoType DEF SaveCart, TypeOK

LEMMA SaveMovementType ==
  ASSUME TypeOK, NEW r \in Requests, SaveMovement(r), at[r] \in Carts,
         job[r].lines[at[r]].product \in Products
  PROVE  TypeOK'
<1> DEFINE l == job[r].lines[at[r]]
<1>1. job[r] \in Job /\ l \in Line
  BY DEF TypeOK, Job
<1>2. Loaded(r, l.product) \in Int
  BY DEF Loaded, TypeOK
<1>3. l.move \in Int
  BY <1>1 DEF Line
<1>4. /\ stock' \in [Products -> Int]
      /\ moved' \in [Products -> Int]
      /\ sold' \in [Carts -> Int]
  BY <1>2, <1>3 DEF SaveMovement, TypeOK
<1>5. seen' \in [Requests -> [Products -> Int \cup {Unread}]]
  BY DEF SaveMovement, TypeOK, ResetCache
<1>6. /\ pc' \in [Requests -> Steps]
      /\ at' \in [Requests -> Carts \cup {NoCart}]
      /\ todo' \in [Requests -> SUBSET Carts]
  <2>1. CASE job[r].op = "sale"
    BY <2>1, NextLineType DEF SaveMovement, Steps
  <2>2. CASE job[r].op = "cancel"
    BY <2>2, NextLineType DEF SaveMovement, Steps
  <2>3. CASE job[r].op \notin {"sale", "cancel"}
    BY <2>3 DEF SaveMovement, TypeOK, Steps
  <2> QED BY <2>1, <2>2, <2>3
<1> QED BY <1>4, <1>5, <1>6 DEF SaveMovement, TypeOK

LEMMA CancelLoadType ==
  ASSUME TypeOK, NEW r \in Requests, CancelLoad(r), at[r] \in Carts
  PROVE  TypeOK'
<1> DEFINE c == at[r]
<1>1. cart[c] \in CartNode
  BY DEF TypeOK
<1>2. CASE cart[c].state = "saved" /\ cart[c].product \in Products /\ cart[c].qty > 0
  <2>1. [product |-> cart[c].product, qty |-> cart[c].qty,
         move |-> cart[c].qty] \in Line
    BY <1>1 DEF Line, CartNode
  <2>2. job[r] \in Job
    BY DEF TypeOK
  <2>3. WithLine(job[r], c, cart[c].product, cart[c].qty, cart[c].qty) \in Job
    BY <2>1, <2>2 DEF Job, WithLine
  <2>4. job' = [job EXCEPT ![r] =
           WithLine(@, c, cart[c].product, cart[c].qty, cart[c].qty)]
    BY <1>2 DEF CancelLoad
  <2>5. job' \in [Requests -> Job]
    BY <2>3, <2>4 DEF TypeOK
  <2>6. Loaded(r, cart[c].product) \in Int \cup {Unread}
    BY <1>2 DEF Loaded, TypeOK
  <2>7. seen' \in [Requests -> [Products -> Int \cup {Unread}]]
    BY <1>2, <2>6 DEF CancelLoad, TypeOK
  <2>8. pc' \in [Requests -> Steps] /\ UNCHANGED <<at, todo, dbVars, started, torn>>
    BY <1>2 DEF CancelLoad, TypeOK, Steps
  <2> QED BY <2>5, <2>7, <2>8 DEF TypeOK, dbVars
<1>3. CASE ~(cart[c].state = "saved" /\ cart[c].product \in Products /\ cart[c].qty > 0)
  <2>1. NextLine(r, "load") /\ UNCHANGED <<job, seen, dbVars, started, torn>>
    BY <1>3 DEF CancelLoad
  <2> QED BY <2>1, NextLineType DEF TypeOK, dbVars, Steps
<1> QED BY <1>2, <1>3

LEMMA SaveOrderType ==
  ASSUME TypeOK, NEW r \in Requests, SaveOrder(r), job[r].nid \in Orders
  PROVE  TypeOK'
<1>1. job[r] \in Job /\ job[r].order \in OrderNode
  BY DEF TypeOK, Job
<1>2. order' \in [Orders -> OrderNode]
  BY <1>1 DEF SaveOrder, TypeOK
<1>3. PICK step \in Steps : Goto(r, step)
  BY DEF SaveOrder, Steps
<1> QED BY <1>2, <1>3, GotoType DEF SaveOrder, TypeOK

LEMMA DropCartType ==
  ASSUME TypeOK, NEW r \in Requests, DropCart(r)
  PROVE  TypeOK'
<1>1. [FreshCart EXCEPT !.state = "deleted"] \in CartNode
  BY DEF FreshCart, CartNode
<1>2. cart' \in [Carts -> CartNode]
  BY <1>1 DEF DropCart, TypeOK
<1>3. Goto(r, "idle") /\ "idle" \in Steps
  BY DEF DropCart, Steps
<1> QED BY <1>2, <1>3, GotoType DEF DropCart, TypeOK

LEMMA FailType ==
  ASSUME TypeOK, NEW r \in Requests, Fail(r), job[r].nid \in Orders
  PROVE  TypeOK'
<1>1. Goto(r, "idle") /\ "idle" \in Steps
  BY DEF Fail, Steps
<1>2. torn' \subseteq Orders
  BY DEF Fail, TypeOK
<1> QED BY <1>1, <1>2, GotoType DEF Fail, TypeOK, dbVars

(* What the validation of a request of operation op guarantees of the job  *)
(* it starts: its form, ...                                                *)
Formed(op, o, node, lines, S, first) ==
  /\ op \in Ops /\ o \in Orders /\ node \in OrderNode
  /\ lines \in [Carts -> Line] /\ S \in SUBSET Carts
  /\ first \in {"load", "cart", "move", "order"}
  /\ first # "order" => S # {}
  /\ first \in {"cart", "move"} =>
       \A c \in S : lines[c].product \in Products
  /\ op = "sale" => first = "cart" /\ node.carts = S
  /\ first = "load" <=> op = "cancel"
  /\ op = "delete" => S # {}

(* ... the statuses it will save, ...                                      *)
StatusesSound(node) ==
  StatusesAgree => (node.commande = "annuler" <=> node.local = "annuler")

(* ... the lines it will save, new ones or those the order has, ...        *)
LinesSound(op, o, node, S) ==
  IF op = "sale"
  THEN \A c \in S : /\ cart[c].state = "unused"
                    /\ \A q \in Requests : c \notin job[q].order.carts
  ELSE node.carts \subseteq order[o].carts

(* ... and the pieces it will take.                                        *)
StockSound(op, lines, S, first) ==
  /\ NeverOversold /\ (op = "sale" \/ first = "move") =>
       \A c \in S : lines[c].product \notin RepeatProducts =>
                     stock[lines[c].product] + lines[c].move >= 0
  /\ op \notin {"cancel", "status"} =>
       \A c, d \in S : c # d /\ lines[c].product = lines[d].product =>
                        lines[c].product \in RepeatProducts

Valid(op, o, node, lines, S, first) ==
  /\ Formed(op, o, node, lines, S, first)
  /\ StatusesSound(node)
  /\ LinesSound(op, o, node, S)
  /\ StockSound(op, lines, S, first)

Starts(r) ==
  \E op, o, node, lines, S, first, read :
    /\ Begin(r, op, o, node, lines, S, first, read)
    /\ Valid(op, o, node, lines, S, first)

LEMMA SaleStarts ==
  ASSUME TypeOK, NEW r \in Requests, NEW o \in Orders, Sale(r, o)
  PROVE  Starts(r)
<1>0. PICK S \in SUBSET Carts :
        \E product \in [S -> Products], quantity \in [S -> 1..MaxQuantity] :
          SaveOrderLocal(r, o, S, product, quantity)
  BY DEF Sale
<1>1. PICK product \in [S -> Products], quantity \in [S -> 1..MaxQuantity] :
        SaveOrderLocal(r, o, S, product, quantity)
  BY <1>0
<1> DEFINE node == [saved |-> TRUE, carts |-> S,
                    commande |-> "payer_recue", local |-> "sortie"]
           lines == [c \in Carts |-> IF c \in S
                       THEN [product |-> product[c], qty |-> quantity[c],
                             move |-> -quantity[c]]
                       ELSE NoLine]
           read == {product[c] : c \in S}
<1>2. Begin(r, "sale", o, node, lines, S, "cart", read) /\ S # {}
  BY <1>1 DEF SaveOrderLocal
<1>3. \A c \in S : quantity[c] \in Nat /\ -quantity[c] \in Int
  BY ConstantsAssumption
<1>4. lines \in [Carts -> Line] /\ node \in OrderNode
  BY <1>3 DEF Line, NoLine, OrderNode, Commande, LocalStatuses
<1>5. \A c \in S : /\ lines[c].product = product[c]
                   /\ lines[c].move = -quantity[c]
                   /\ product[c] \in Products
  OBVIOUS
<1>6. Formed("sale", o, node, lines, S, "cart")
  BY <1>2, <1>4, <1>5 DEF Formed, Ops
<1>7. StatusesSound(node) /\ LinesSound("sale", o, node, S)
  BY <1>1 DEF StatusesSound, LinesSound, SaveOrderLocal, NewCarts
<1>8. StockSound("sale", lines, S, "cart")
  <2>1. \A c \in S : stock[product[c]] >= quantity[c] /\ stock[product[c]] \in Int
    BY <1>1 DEF SaveOrderLocal, EnoughStock, TypeOK
  <2>2. \A c \in S : stock[lines[c].product] + lines[c].move >= 0
    BY <1>3, <1>5, <2>1
  <2>3. \A c, d \in S : c # d /\ lines[c].product = lines[d].product =>
                         lines[c].product \in RepeatProducts
    BY <1>1, <1>5 DEF SaveOrderLocal
  <2> QED BY <2>2, <2>3 DEF StockSound
<1> QED BY <1>2, <1>6, <1>7, <1>8 DEF Valid, Starts

LEMMA StatusStarts ==
  ASSUME TypeOK, NEW r \in Requests, NEW o \in Orders, NEW to \in LocalStatuses,
         UpdateStatusLocal(r, o, to)
  PROVE  Starts(r)
<1> DEFINE node == [order[o] EXCEPT !.local = to, !.commande = CommandeMap(to)]
<1>1. Begin(r, "status", o, node, NoLines, {}, "order", {})
  BY DEF UpdateStatusLocal
<1>2. CommandeMap(to) \in Commande /\ (CommandeMap(to) = "annuler" <=> to = "annuler")
  BY DEF CommandeMap, LocalStatuses, Commande
<1>3. order[o] \in OrderNode
  BY DEF TypeOK
<1>4. node \in OrderNode
  BY <1>2, <1>3 DEF OrderNode
<1>5. Formed("status", o, node, NoLines, {}, "order")
  BY <1>4, NoJobType DEF Formed, Ops
<1>6. StatusesSound(node) /\ LinesSound("status", o, node, {})
  BY <1>2, <1>3 DEF StatusesSound, LinesSound, OrderNode
<1>7. StockSound("status", NoLines, {}, "order")
  BY DEF StockSound
<1> QED BY <1>1, <1>5, <1>6, <1>7 DEF Valid, Starts

LEMMA CancelStarts ==
  ASSUME TypeOK, NEW r \in Requests, NEW o \in Orders, CancelOrderLocal(r, o)
  PROVE  Starts(r)
<1> DEFINE node == Cancelled(o)
<1>1. /\ Begin(r, "cancel", o, node, NoLines, order[o].carts, "load", {})
      /\ order[o].carts # {}
  BY DEF CancelOrderLocal
<1>2. order[o] \in OrderNode
  BY DEF TypeOK
<1>3. node \in OrderNode /\ order[o].carts \in SUBSET Carts
  BY <1>2 DEF OrderNode, LocalStatuses, Commande, Cancelled
<1>4. Formed("cancel", o, node, NoLines, order[o].carts, "load")
  BY <1>1, <1>3, NoJobType DEF Formed, Ops
<1>5. StatusesSound(node) /\ LinesSound("cancel", o, node, order[o].carts)
  BY <1>2 DEF StatusesSound, LinesSound, OrderNode, Cancelled
<1>6. StockSound("cancel", NoLines, order[o].carts, "load")
  BY DEF StockSound
<1> QED BY <1>1, <1>4, <1>5, <1>6 DEF Valid, Starts

LEMMA EditStarts ==
  ASSUME TypeOK, RequestsOK, NEW r \in Requests, NEW o \in Orders, NEW c \in Carts,
         \/ UpdateCartPrice(r, o, c)
         \/ UpdateCartPurchasePrice(r, o, c)
         \/ \E q \in 1..MaxQuantity : UpdateCartQuantity(r, o, c, q)
         \/ DeleteCartLine(r, o, c)
  PROVE  Starts(r)
<1> DEFINE p == cart[c].product
           less == RemainingCarts(o, c)
<1>1. /\ cart[c].qty \in Nat
      /\ order[o] \in OrderNode
      /\ less \in OrderNode
      /\ less.carts = order[o].carts \ {c}
      /\ less.commande = order[o].commande
      /\ less.local = order[o].local
  BY DEF TypeOK, CartNode, OrderNode, RemainingCarts
<1>2. cart[c].state = "saved" /\ p \in Products
  BY DEF RequestsOK, SavedCartsOK, UpdateCartPrice, UpdateCartPurchasePrice,
         UpdateCartQuantity, DeleteCartLine, EditableLine
<1>3. stock[p] \in Int /\ (NeverOversold /\ p \notin RepeatProducts => stock[p] >= 0)
  BY <1>2 DEF NeverOversold, TypeOK
<1>4. ASSUME NEW op \in {"price", "purchase", "quantity", "delete"},
             NEW node \in {order[o], less}, NEW q \in Nat, NEW m \in Int,
             NEW first \in {"cart", "move"}, NEW read,
             NeverOversold /\ p \notin RepeatProducts /\ first = "move" =>
               stock[p] + m >= 0,
             Begin(r, op, o, node, Single(c, p, q, m), {c}, first, read)
      PROVE  Starts(r)
  <2> DEFINE lines == Single(c, p, q, m)
  <2>1. lines \in [Carts -> Line]
    BY <1>2, SingleType
  <2>2. lines[c].product = p /\ lines[c].move = m
    BY DEF Single, NoLines
  <2>3. Formed(op, o, node, lines, {c}, first)
    BY <1>1, <1>2, <2>1, <2>2 DEF Formed, Ops
  <2>4. StatusesSound(node) /\ LinesSound(op, o, node, {c})
    BY <1>1 DEF StatusesSound, LinesSound, StatusesAgree
  <2>5. StockSound(op, lines, {c}, first)
    BY <1>4, <2>2 DEF StockSound
  <2> QED BY <1>4, <2>3, <2>4, <2>5 DEF Valid, Starts
<1>5. CASE UpdateCartPrice(r, o, c)
  <2>1. Begin(r, "price", o, order[o], Single(c, p, cart[c].qty, 0), {c}, "cart", {})
    BY <1>5 DEF UpdateCartPrice
  <2>2. 0 \in Int /\ "cart" # "move"
    OBVIOUS
  <2> QED BY <1>1, <1>4, <2>1, <2>2, Zenon
<1>6. CASE UpdateCartPurchasePrice(r, o, c)
  <2>1. Begin(r, "purchase", o, order[o], Single(c, p, cart[c].qty, 0), {c}, "cart", {})
    BY <1>6 DEF UpdateCartPurchasePrice
  <2>2. 0 \in Int /\ "cart" # "move"
    OBVIOUS
  <2> QED BY <1>1, <1>4, <2>1, <2>2, Zenon
<1>7. CASE \E q \in 1..MaxQuantity : UpdateCartQuantity(r, o, c, q)
  <2>1. PICK q \in 1..MaxQuantity : UpdateCartQuantity(r, o, c, q)
    BY <1>7
  <2>2. q \in Nat /\ -(q - cart[c].qty) \in Int
    BY <1>1, ConstantsAssumption
  <2>3. NeverOversold /\ p \notin RepeatProducts =>
          stock[p] + (-(q - cart[c].qty)) >= 0
    BY <1>1, <1>3, <2>1, <2>2 DEF UpdateCartQuantity
  <2>4. PICK first \in {"cart", "move"} :
          Begin(r, "quantity", o, order[o], Single(c, p, q, -(q - cart[c].qty)),
                {c}, first, {p})
    BY <2>1 DEF UpdateCartQuantity
  <2> QED BY <1>1, <1>4, <2>2, <2>3, <2>4
<1>8. CASE DeleteCartLine(r, o, c)
  <2>1. NeverOversold /\ p \notin RepeatProducts => stock[p] + cart[c].qty >= 0
    BY <1>1, <1>3
  <2>2. Begin(r, "delete", o, less, Single(c, p, cart[c].qty, cart[c].qty),
              {c}, "move", {p})
    BY <1>8 DEF DeleteCartLine
  <2>3. cart[c].qty \in Int
    BY <1>1
  <2> QED BY <1>1, <1>4, <2>1, <2>2, <2>3, Zenon
<1> QED BY <1>5, <1>6, <1>7, <1>8

(* Every request that starts comes from one of the handlers above.         *)
LEMMA ReceiveStarts ==
  ASSUME TypeOK, RequestsOK, NEW r \in Requests, Receive(r)
  PROVE  Starts(r)
<1>1. PICK o \in Orders :
        \/ Sale(r, o)
        \/ \E to \in LocalStatuses : UpdateStatusLocal(r, o, to)
        \/ CancelOrderLocal(r, o)
        \/ \E c \in Carts :
             \/ UpdateCartPrice(r, o, c)
             \/ UpdateCartPurchasePrice(r, o, c)
             \/ \E q \in 1..MaxQuantity : UpdateCartQuantity(r, o, c, q)
             \/ DeleteCartLine(r, o, c)
  BY DEF Receive
<1> QED BY <1>1, SaleStarts, StatusStarts, CancelStarts, EditStarts

(* What the start of a request changes.                                    *)
Started(r, op, o, node, lines, S, first) ==
  /\ Valid(op, o, node, lines, S, first)
  /\ pc[r] = "idle"
  /\ pc'[r] = first
  /\ job'[r] = [op |-> op, nid |-> o, order |-> node, lines |-> lines]
  /\ at'[r] \in (IF S = {} THEN {NoCart} ELSE S)
  /\ todo'[r] = S \ {at'[r]}
  /\ \A p \in Products : seen'[r][p] \in {Unread, stock[p]}
  /\ UNCHANGED <<stock, moved, cart, order, sold, torn>>
  /\ \A q \in Requests \ {r} :
       /\ pc'[q] = pc[q] /\ job'[q] = job[q] /\ seen'[q] = seen[q]
       /\ at'[q] = at[q] /\ todo'[q] = todo[q]

LEMMA StartEffect ==
  ASSUME TypeOK, NEW r \in Requests, Starts(r)
  PROVE  /\ \E op, o, node, lines, S, first :
              Started(r, op, o, node, lines, S, first)
         /\ TypeOK'
<1>1. PICK op, o, node, lines, S, first, read :
        /\ Begin(r, op, o, node, lines, S, first, read)
        /\ Valid(op, o, node, lines, S, first)
  BY DEF Starts
<1>2. PICK c \in (IF S = {} THEN {NoCart} ELSE S) :
        at' = [at EXCEPT ![r] = c] /\ todo' = [todo EXCEPT ![r] = S \ {c}]
  BY <1>1 DEF Begin
<1>3. /\ pc[r] = "idle" /\ pc'[r] = first
      /\ job'[r] = [op |-> op, nid |-> o, order |-> node, lines |-> lines]
      /\ UNCHANGED <<stock, moved, cart, order, sold, torn>>
  BY <1>1 DEF Begin, TypeOK, dbVars
<1>4. \A p \in Products : seen'[r][p] \in {Unread, stock[p]}
  BY <1>1 DEF Begin, TypeOK
<1>5. at'[r] = c /\ todo'[r] = S \ {c}
  BY <1>2 DEF TypeOK
<1>6. \A q \in Requests \ {r} :
        /\ pc'[q] = pc[q] /\ job'[q] = job[q] /\ seen'[q] = seen[q]
        /\ at'[q] = at[q] /\ todo'[q] = todo[q]
  BY <1>1, <1>2 DEF Begin, TypeOK
<1>7. Started(r, op, o, node, lines, S, first)
  BY <1>1, <1>3, <1>4, <1>5, <1>6 DEF Started
<1>8. TypeOK'
  BY <1>1, BeginType DEF Valid, Formed, Steps
<1> QED BY <1>7, <1>8

LEMMA OthersOK ==
  ASSUME RequestsOK, NEW q \in Requests, pc'[q] = pc[q], job'[q] = job[q],
         at'[q] = at[q], todo'[q] = todo[q]
  PROVE  RequestOK(q)'
BY DEF RequestsOK, RequestOK

LEMMA StartKeepsType ==
  ASSUME TypeOK, RequestsOK, NEW r \in Requests, Starts(r)
  PROVE  TypeOK' /\ RequestsOK'
<1>1. PICK op, o, node, lines, S, first : Started(r, op, o, node, lines, S, first)
  BY StartEffect
<1>2. TypeOK'
  BY StartEffect
<1>3. RequestOK(r)'
  BY <1>1 DEF Started, Valid, Formed, RequestOK
<1>4. \A q \in Requests \ {r} : RequestOK(q)'
  BY <1>1, OthersOK DEF Started
<1>5. SavedCartsOK'
  BY <1>1 DEF Started, RequestsOK, SavedCartsOK
<1> QED BY <1>2, <1>3, <1>4, <1>5 DEF RequestsOK

(* What a step of request r does to the requests.                          *)
LEMMA GotoEffect ==
  ASSUME TypeOK, NEW r \in Requests, NEW step, Goto(r, step)
  PROVE  /\ pc'[r] = step
         /\ step # "idle" => UNCHANGED <<job, at, todo, seen>>
         /\ \A q \in Requests \ {r} :
              /\ pc'[q] = pc[q] /\ job'[q] = job[q] /\ seen'[q] = seen[q]
              /\ at'[q] = at[q] /\ todo'[q] = todo[q]
<1>1. CASE step = "idle"
  BY <1>1 DEF Goto, TypeOK
<1>2. CASE step # "idle"
  BY <1>2 DEF Goto, TypeOK
<1> QED BY <1>1, <1>2

LEMMA NextLineEffect ==
  ASSUME TypeOK, NEW r \in Requests, NEW step, NextLine(r, step)
  PROVE  /\ \/ pc'[r] = "order" /\ todo[r] = {} /\ UNCHANGED <<at, todo>>
            \/ /\ pc'[r] = step
               /\ at'[r] \in todo[r]
               /\ todo'[r] = todo[r] \ {at'[r]}
         /\ \A q \in Requests \ {r} :
              pc'[q] = pc[q] /\ at'[q] = at[q] /\ todo'[q] = todo[q]
<1>1. CASE todo[r] = {}
  BY <1>1 DEF NextLine, TypeOK
<1>2. CASE todo[r] # {}
  <2>1. PICK c \in todo[r] : /\ at' = [at EXCEPT ![r] = c]
                            /\ todo' = [todo EXCEPT ![r] = @ \ {c}]
                            /\ pc' = [pc EXCEPT ![r] = step]
    BY <1>2 DEF NextLine
  <2> QED BY <2>1 DEF TypeOK
<1> QED BY <1>1, <1>2

LEMMA SaveMovementEffect ==
  ASSUME TypeOK, NEW r \in Requests, SaveMovement(r)
  PROVE  /\ CASE job[r].op = "sale" -> NextLine(r, "cart")
               [] job[r].op = "cancel" -> NextLine(r, "load")
               [] job[r].op = "quantity" ->
                    pc'[r] = "cart" /\ UNCHANGED <<at, todo>>
               [] OTHER -> pc'[r] = "order" /\ UNCHANGED <<at, todo>>
         /\ UNCHANGED <<cart, order, job, torn>>
         /\ \A q \in Requests \ {r} :
              /\ pc'[q] = pc[q] /\ at'[q] = at[q] /\ todo'[q] = todo[q]
              /\ seen'[q] = seen[q]
<1>1. /\ UNCHANGED <<cart, order, job, torn>>
      /\ \A q \in Requests \ {r} : seen'[q] = seen[q]
  BY DEF SaveMovement, TypeOK, ResetCache
<1>2. CASE job[r].op = "sale"
  BY <1>1, <1>2, NextLineEffect DEF SaveMovement
<1>3. CASE job[r].op = "cancel"
  BY <1>1, <1>3, NextLineEffect DEF SaveMovement
<1>4. CASE job[r].op = "quantity"
  BY <1>1, <1>4 DEF SaveMovement, TypeOK
<1>5. CASE job[r].op \notin {"sale", "cancel", "quantity"}
  BY <1>1, <1>5 DEF SaveMovement, TypeOK
<1> QED BY <1>2, <1>3, <1>4, <1>5

(* A request in progress takes its next step, or stops.                    *)
LEMMA StepKeepsType ==
  ASSUME TypeOK, RequestsOK, NEW r \in Requests, Save(r) \/ Fail(r)
  PROVE  TypeOK' /\ RequestsOK'
<1>1. RequestOK(r) /\ SavedCartsOK
  BY DEF RequestsOK
<1>2. CASE CancelLoad(r)
  <2> DEFINE c == at[r]
  <2>1. c \in Carts /\ pc[r] = "load" /\ job[r].nid \in Orders
    BY <1>1, <1>2 DEF CancelLoad, RequestOK
  <2>2. TypeOK'
    BY <1>2, <2>1, CancelLoadType
  <2>3. SavedCartsOK'
    BY <1>1, <1>2 DEF CancelLoad, dbVars, SavedCartsOK
  <2>4. CASE NextLine(r, "load") /\ UNCHANGED job
    <3>1. \A q \in Requests \ {r} : RequestOK(q)'
      BY <2>4, NextLineEffect, OthersOK
    <3>2. RequestOK(r)'
      BY <1>1, <2>1, <2>4, NextLineEffect DEF RequestOK, TypeOK
    <3> QED BY <2>2, <2>3, <3>1, <3>2 DEF RequestsOK
  <2>5. CASE ~(NextLine(r, "load") /\ UNCHANGED job)
    <3>1. /\ cart[c].product \in Products
          /\ job' = [job EXCEPT ![r] =
               WithLine(@, c, cart[c].product, cart[c].qty, cart[c].qty)]
          /\ pc' = [pc EXCEPT ![r] = "move"]
          /\ UNCHANGED <<at, todo>>
      BY <1>2, <2>5 DEF CancelLoad
    <3>2. \A q \in Requests \ {r} : RequestOK(q)'
      BY <3>1, OthersOK DEF TypeOK
    <3>3. job[r] \in Job
      BY DEF TypeOK
    <3>4. /\ job'[r].lines[c].product = cart[c].product
          /\ job'[r].nid = job[r].nid /\ job'[r].op = job[r].op
          /\ \A d \in Carts \ {c} : job'[r].lines[d] = job[r].lines[d]
      BY <2>1, <3>1, <3>3 DEF WithLine, Job, TypeOK
    <3>5. todo[r] \subseteq Carts
      BY DEF TypeOK
    <3>6. RequestOK(r)'
      BY <1>1, <2>1, <3>1, <3>4, <3>5 DEF RequestOK, TypeOK
    <3> QED BY <2>2, <2>3, <3>2, <3>6 DEF RequestsOK
  <2> QED BY <2>4, <2>5
<1>3. CASE SaveCart(r)
  <2>1. at[r] \in Carts /\ job[r].lines[at[r]].product \in Products
    BY <1>1, <1>3 DEF SaveCart, RequestOK
  <2>2. TypeOK'
    BY <1>3, <2>1, SaveCartType
  <2>3. PICK step \in {"move", "idle", "order"} : Goto(r, step)
    BY <1>3 DEF SaveCart
  <2>4. SavedCartsOK'
    BY <1>1, <1>3, <2>1 DEF SaveCart, SavedCartsOK, TypeOK
  <2>5. RequestOK(r)'
    BY <1>1, <1>3, <2>1, <2>3, GotoEffect DEF RequestOK, SaveCart
  <2>6. \A q \in Requests \ {r} : RequestOK(q)'
    BY <2>3, GotoEffect, OthersOK
  <2> QED BY <2>2, <2>4, <2>5, <2>6 DEF RequestsOK
<1>4. CASE SaveMovement(r)
  <2>1. at[r] \in Carts /\ job[r].lines[at[r]].product \in Products
    BY <1>1, <1>4 DEF SaveMovement, RequestOK
  <2>2. TypeOK'
    BY <1>4, <2>1, SaveMovementType
  <2>3. UNCHANGED <<cart, job>> /\ pc[r] = "move"
    BY <1>4 DEF SaveMovement
  <2>4. /\ pc'[r] \in {"cart", "load", "order"}
        /\ \/ at'[r] = at[r] /\ todo'[r] = todo[r]
           \/ /\ job[r].op \in {"sale", "cancel"}
              /\ pc'[r] = "cart" => job[r].op = "sale"
              /\ at'[r] \in todo[r]
              /\ todo'[r] = todo[r] \ {at'[r]}
    BY <1>4, SaveMovementEffect, NextLineEffect
  <2>5. todo[r] \subseteq Carts
    BY DEF TypeOK
  <2>6. RequestOK(r)'
    BY <1>1, <2>1, <2>3, <2>4, <2>5 DEF RequestOK
  <2>7. \A q \in Requests \ {r} : RequestOK(q)'
    BY <1>4, SaveMovementEffect, OthersOK
  <2>8. SavedCartsOK'
    BY <1>1, <2>3 DEF SavedCartsOK
  <2> QED BY <2>2, <2>6, <2>7, <2>8 DEF RequestsOK
<1>5. CASE SaveOrder(r)
  <2>1. job[r].nid \in Orders /\ UNCHANGED cart
    BY <1>1, <1>5 DEF SaveOrder, RequestOK
  <2>2. TypeOK'
    BY <2>1, <1>5, SaveOrderType
  <2>3. PICK step \in {"drop", "idle"} :
          Goto(r, step) /\ (step = "drop" => job[r].op = "delete")
    BY <1>5 DEF SaveOrder
  <2>4. RequestOK(r)'
    BY <1>1, <1>5, <2>3, GotoEffect DEF RequestOK, SaveOrder
  <2>5. \A q \in Requests \ {r} : RequestOK(q)'
    BY <2>3, GotoEffect, OthersOK
  <2>6. SavedCartsOK'
    BY <1>1, <2>1 DEF SavedCartsOK
  <2> QED BY <2>2, <2>4, <2>5, <2>6 DEF RequestsOK
<1>6. CASE DropCart(r)
  <2>1. Goto(r, "idle") /\ SavedCartsOK'
    BY <1>1, <1>6 DEF DropCart, FreshCart, SavedCartsOK, TypeOK
  <2>2. TypeOK'
    BY <1>6, DropCartType
  <2>3. RequestOK(r)'
    BY <2>1, GotoEffect DEF RequestOK
  <2>4. \A q \in Requests \ {r} : RequestOK(q)'
    BY <2>1, GotoEffect, OthersOK
  <2> QED BY <2>1, <2>2, <2>3, <2>4 DEF RequestsOK
<1>7. CASE Fail(r)
  <2>1. Goto(r, "idle") /\ SavedCartsOK'
    BY <1>1, <1>7 DEF Fail, dbVars, SavedCartsOK
  <2>2. TypeOK'
    BY <1>1, <1>7, FailType DEF Fail, RequestOK
  <2>3. RequestOK(r)'
    BY <2>1, GotoEffect DEF RequestOK
  <2>4. \A q \in Requests \ {r} : RequestOK(q)'
    BY <2>1, GotoEffect, OthersOK
  <2> QED BY <2>1, <2>2, <2>3, <2>4 DEF RequestsOK
<1> QED BY <1>2, <1>3, <1>4, <1>5, <1>6, <1>7 DEF Save

(* The entities and the requests are well formed in every behaviour, for   *)
(* any number of requests at a time, failures included.                    *)
THEOREM TypeCorrect == Spec => [](TypeOK /\ RequestsOK)
<1>1. Init => TypeOK /\ RequestsOK
  <2> SUFFICES ASSUME Init PROVE TypeOK /\ RequestsOK
    OBVIOUS
  <2>1. TypeOK
    BY NoJobType, ConstantsAssumption DEF Init, TypeOK, NothingRead, Steps
  <2>2. RequestsOK
    BY DEF Init, RequestsOK, RequestOK, SavedCartsOK, FreshCart
  <2> QED BY <2>1, <2>2
<1>2. TypeOK /\ RequestsOK /\ [Next]_vars => TypeOK' /\ RequestsOK'
  <2> SUFFICES ASSUME TypeOK, RequestsOK, [Next]_vars
               PROVE  TypeOK' /\ RequestsOK'
    OBVIOUS
  <2>1. ASSUME NEW r \in Requests, Receive(r)
        PROVE  TypeOK' /\ RequestsOK'
    BY <2>1, ReceiveStarts, StartKeepsType
  <2>2. ASSUME NEW r \in Requests, Save(r) \/ Fail(r)
        PROVE  TypeOK' /\ RequestsOK'
    BY <2>2, StepKeepsType
  <2>3. CASE UNCHANGED vars
    BY <2>3 DEF vars, TypeOK, RequestsOK, RequestOK, SavedCartsOK
  <2> QED BY <2>1, <2>2, <2>3 DEF Next
<1> QED BY <1>1, <1>2, PTL DEF Spec

-----------------------------------------------------------------------------
(* What a step of a request in progress does to the orders and the jobs.   *)
LEMMA StepEffect ==
  ASSUME TypeOK, RequestsOK, NEW r \in Requests, Save(r) \/ Fail(r)
  PROVE  /\ pc[r] # "idle"
         /\ pc'[r] # "idle" =>
              /\ job'[r].op = job[r].op /\ job'[r].nid = job[r].nid
              /\ job'[r].order = job[r].order
         /\ \A q \in Requests \ {r} :
              /\ pc'[q] = pc[q] /\ job'[q] = job[q] /\ seen'[q] = seen[q]
              /\ at'[q] = at[q] /\ todo'[q] = todo[q]
         /\ IF SaveOrder(r)
            THEN order' = [order EXCEPT ![job[r].nid] = job[r].order]
            ELSE UNCHANGED order
         /\ \A c \in Carts : cart[c].state # "unused" => cart'[c].state # "unused"
<1>1. CASE CancelLoad(r)
  <2> DEFINE c == at[r]
  <2>1. /\ pc[r] = "load" /\ ~SaveOrder(r)
        /\ UNCHANGED <<order, cart>>
    BY <1>1 DEF CancelLoad, SaveOrder, dbVars
  <2>2. job[r] \in Job
    BY DEF TypeOK
  <2>3. /\ job'[r].op = job[r].op /\ job'[r].nid = job[r].nid
        /\ job'[r].order = job[r].order
        /\ \A q \in Requests \ {r} : job'[q] = job[q] /\ seen'[q] = seen[q]
    <3>1. CASE UNCHANGED <<job, seen>>
      BY <3>1
    <3>2. CASE ~ UNCHANGED <<job, seen>>
      <4>1. /\ job' = [job EXCEPT ![r] =
                 WithLine(@, c, cart[c].product, cart[c].qty, cart[c].qty)]
            /\ seen' = [seen EXCEPT ![r][cart[c].product] = Loaded(r, cart[c].product)]
        BY <1>1, <3>2 DEF CancelLoad
      <4> QED BY <2>2, <4>1 DEF WithLine, Job, TypeOK
    <3> QED BY <3>1, <3>2
  <2>4. \A q \in Requests \ {r} :
          pc'[q] = pc[q] /\ at'[q] = at[q] /\ todo'[q] = todo[q]
    <3>1. CASE NextLine(r, "load")
      BY <3>1, NextLineEffect
    <3>2. CASE ~NextLine(r, "load")
      <4>1. pc' = [pc EXCEPT ![r] = "move"] /\ UNCHANGED <<at, todo>>
        BY <1>1, <3>2 DEF CancelLoad
      <4> QED BY <4>1 DEF TypeOK
    <3> QED BY <3>1, <3>2
  <2> QED BY <2>1, <2>3, <2>4
<1>2. CASE SaveCart(r)
  <2>1. PICK step : Goto(r, step)
    BY <1>2 DEF SaveCart
  <2>2. pc[r] = "cart" /\ ~SaveOrder(r) /\ UNCHANGED order
    BY <1>2 DEF SaveCart, SaveOrder
  <2>3. \A c \in Carts : cart[c].state # "unused" => cart'[c].state # "unused"
    BY <1>2 DEF SaveCart, TypeOK
  <2> QED BY <2>1, <2>2, <2>3, GotoEffect
<1>3. CASE SaveMovement(r)
  BY <1>3, SaveMovementEffect DEF SaveMovement, SaveOrder
<1>4. CASE SaveOrder(r)
  <2>1. PICK step : Goto(r, step)
    BY <1>4 DEF SaveOrder
  <2>2. pc[r] = "order" /\ UNCHANGED cart
    BY <1>4 DEF SaveOrder
  <2>3. order' = [order EXCEPT ![job[r].nid] = job[r].order]
    BY <1>4 DEF SaveOrder
  <2> QED BY <1>4, <2>1, <2>2, <2>3, GotoEffect
<1>5. CASE DropCart(r)
  <2>1. Goto(r, "idle") /\ pc[r] = "drop" /\ ~SaveOrder(r) /\ UNCHANGED order
    BY <1>5 DEF DropCart, SaveOrder
  <2>2. \A c \in Carts : cart[c].state # "unused" => cart'[c].state # "unused"
    BY <1>5 DEF DropCart, TypeOK, FreshCart
  <2> QED BY <2>1, <2>2, GotoEffect
<1>6. CASE Fail(r)
  <2>1. Goto(r, "idle") /\ pc[r] # "idle" /\ UNCHANGED <<order, cart>>
    BY <1>6 DEF Fail, dbVars
  <2>2. SaveOrder(r) => order' = [order EXCEPT ![job[r].nid] = job[r].order]
    BY DEF SaveOrder
  <2> QED BY <2>1, <2>2, GotoEffect
<1> QED BY <1>1, <1>2, <1>3, <1>4, <1>5, <1>6 DEF Save

(* What makes StatusesAgree hold: every order about to be saved agrees too.*)
JobStatusesAgree ==
  \A r \in Requests : pc[r] # "idle" =>
    (job[r].order.commande = "annuler" <=> job[r].order.local = "annuler")

(* The two status fields of an order say together that it is cancelled,    *)
(* whatever requests run at a time and wherever they stop.                 *)
THEOREM StatusesAgreeAlways == Spec => []StatusesAgree
<1> DEFINE IInv == StatusesAgree /\ JobStatusesAgree
<1>1. Init => IInv
  BY DEF Init, StatusesAgree, JobStatusesAgree, Blank
<1>2. TypeOK /\ RequestsOK /\ IInv /\ [Next]_vars => IInv'
  <2> SUFFICES ASSUME TypeOK, RequestsOK, IInv, [Next]_vars
               PROVE  StatusesAgree' /\ JobStatusesAgree'
    OBVIOUS
  <2>1. ASSUME NEW r \in Requests, Receive(r)
        PROVE  StatusesAgree' /\ JobStatusesAgree'
    <3>1. PICK op, o, node, lines, S, first :
            Started(r, op, o, node, lines, S, first)
      BY <2>1, ReceiveStarts, StartEffect
    <3>2. StatusesAgree'
      BY <3>1 DEF Started, StatusesAgree
    <3>3. job'[r].order = node /\ StatusesSound(node)
      BY <3>1 DEF Started, Valid
    <3>4. \A q \in Requests \ {r} : pc'[q] = pc[q] /\ job'[q] = job[q]
      BY <3>1 DEF Started
    <3> QED BY <3>2, <3>3, <3>4 DEF JobStatusesAgree, StatusesSound
  <2>2. ASSUME NEW r \in Requests, Save(r) \/ Fail(r)
        PROVE  StatusesAgree' /\ JobStatusesAgree'
    <3>1. JobStatusesAgree'
      BY <2>2, StepEffect DEF JobStatusesAgree
    <3>2. StatusesAgree'
      <4>1. \A o \in Orders : order'[o] \in {order[o], job[r].order}
        BY <2>2, StepEffect DEF TypeOK
      <4>2. job[r].order.commande = "annuler" <=> job[r].order.local = "annuler"
        BY <2>2, StepEffect DEF JobStatusesAgree
      <4> QED BY <4>1, <4>2 DEF StatusesAgree
    <3> QED BY <3>1, <3>2
  <2>3. CASE UNCHANGED vars
    BY <2>3 DEF vars, StatusesAgree, JobStatusesAgree
  <2> QED BY <2>1, <2>2, <2>3 DEF Next
<1> QED BY <1>1, <1>2, TypeCorrect, PTL DEF Spec

(* A sale goes from the cart of a line to its movement, then to the next   *)
(* line, and to its order when there is none.                              *)
LEMMA SaleStep ==
  ASSUME TypeOK, RequestsOK, NEW r \in Requests, Save(r) \/ Fail(r),
         JobLinesOK(r), job[r].op = "sale", pc'[r] # "idle"
  PROVE  \/ /\ pc[r] = "cart" /\ pc'[r] = "move"
            /\ UNCHANGED <<at, todo>>
            /\ InUse(at[r])'
         \/ /\ pc[r] = "move" /\ pc'[r] = "order" /\ todo[r] = {}
            /\ UNCHANGED <<at, todo>>
         \/ /\ pc[r] = "move" /\ pc'[r] = "cart"
            /\ at'[r] \in todo[r] /\ todo'[r] = todo[r] \ {at'[r]}
<1>1. pc[r] # "idle"
  BY StepEffect
<1>2. pc[r] \in {"cart", "move", "order"}
  BY <1>1 DEF JobLinesOK
<1>3. ~Fail(r)
  BY GotoEffect DEF Fail
<1>4. CASE pc[r] = "cart"
  <2>1. SaveCart(r) /\ Goto(r, "move") /\ at[r] \in Carts
    BY <1>3, <1>4 DEF Save, CancelLoad, SaveCart, SaveMovement, SaveOrder,
                      DropCart, RequestsOK, RequestOK
  <2>2. UNCHANGED <<at, todo>> /\ pc'[r] = "move"
    BY <2>1, GotoEffect
  <2>3. InUse(at[r])'
    BY <2>1, <2>2 DEF SaveCart, InUse, TypeOK
  <2> QED BY <1>4, <2>2, <2>3
<1>5. CASE pc[r] = "move"
  <2>1. SaveMovement(r)
    BY <1>3, <1>5 DEF Save, CancelLoad, SaveCart, SaveMovement, SaveOrder, DropCart
  <2>2. NextLine(r, "cart")
    BY <2>1, SaveMovementEffect
  <2> QED BY <1>5, <2>2, NextLineEffect
<1>6. CASE pc[r] = "order"
  <2>1. SaveOrder(r) /\ Goto(r, "idle")
    BY <1>3, <1>6 DEF Save, CancelLoad, SaveCart, SaveMovement, SaveOrder, DropCart
  <2> QED BY <2>1, GotoEffect
<1> QED BY <1>2, <1>4, <1>5, <1>6

(* A request starts: its lines are those of its order, or nids nobody has. *)
LEMMA StartKeepsLines ==
  ASSUME TypeOK, RequestsOK, LinesOwned, NEW r \in Requests, Starts(r)
  PROVE  LinesOwned'
<1>1. PICK op, o, node, lines, S, first : Started(r, op, o, node, lines, S, first)
  BY StartEffect
<1>2. UNCHANGED <<cart, order>>
  BY <1>1 DEF Started
<1>3. /\ \A o1 \in Orders : \A c \in order[o1].carts : InUse(c)
      /\ CartsNotShared
      /\ \A q \in Requests : JobLinesOK(q)
  BY DEF LinesOwned
<1>4. /\ job'[r].nid = o /\ job'[r].order = node /\ job'[r].op = op
      /\ o \in Orders /\ pc'[r] = first
  BY <1>1 DEF Started, Valid, Formed
<1>5. \A q \in Requests \ {r} :
        /\ pc'[q] = pc[q] /\ job'[q] = job[q]
        /\ at'[q] = at[q] /\ todo'[q] = todo[q]
  BY <1>1 DEF Started
<1>6. CASE op = "sale"
  <2>1. /\ node.carts = S /\ first = "cart" /\ S # {}
        /\ at'[r] \in S /\ todo'[r] = S \ {at'[r]}
        /\ \A c \in S : ~InUse(c)
        /\ \A q \in Requests : S \cap job[q].order.carts = {}
    BY <1>1, <1>6 DEF Started, Valid, Formed, LinesSound, InUse
  <2>2. \A o1 \in Orders : S \cap order[o1].carts = {}
    BY <1>3, <2>1
  <2> QED BY <1>2, <1>3, <1>4, <1>5, <1>6, <2>1, <2>2
          DEF LinesOwned, CartsNotShared, JobLinesOK, InUse
<1>7. CASE op # "sale"
  <2>1. node.carts \subseteq order[o].carts
    BY <1>1, <1>7 DEF Started, Valid, LinesSound
  <2>2. JobLinesOK(r)'
    BY <1>2, <1>3, <1>4, <1>7, <2>1 DEF JobLinesOK, InUse, CartsNotShared
  <2>3. \A q \in Requests \ {r} : JobLinesOK(q)'
    BY <1>2, <1>3, <1>5 DEF JobLinesOK, InUse
  <2>4. \A q \in Requests \ {r} : pc[q] # "idle" /\ job[q].nid # o =>
          node.carts \cap job[q].order.carts = {}
    BY <1>3, <1>4, <2>1 DEF JobLinesOK
  <2>5. \A q1, q2 \in Requests :
          pc'[q1] # "idle" /\ pc'[q2] # "idle" /\ job'[q1].nid # job'[q2].nid =>
            job'[q1].order.carts \cap job'[q2].order.carts = {}
    BY <1>4, <1>5, <2>4 DEF LinesOwned
  <2> QED BY <1>2, <1>3, <2>2, <2>3, <2>5 DEF LinesOwned, CartsNotShared, InUse
<1> QED BY <1>6, <1>7

(* A request goes on: it leaves the lines of the orders as they are, or    *)
(* saves its order, whose lines are all in use by then.                    *)
LEMMA StepKeepsLines ==
  ASSUME TypeOK, RequestsOK, LinesOwned, NEW r \in Requests, Save(r) \/ Fail(r)
  PROVE  LinesOwned'
<1> DEFINE j == job[r]
<1>1. /\ \A o1 \in Orders : \A c \in order[o1].carts : InUse(c)
      /\ CartsNotShared
      /\ \A q \in Requests : JobLinesOK(q)
  BY DEF LinesOwned
<1>2. \A q \in Requests \ {r} :
        /\ pc'[q] = pc[q] /\ job'[q] = job[q]
        /\ at'[q] = at[q] /\ todo'[q] = todo[q]
  BY StepEffect
<1>3. /\ pc[r] # "idle"
      /\ pc'[r] # "idle" => /\ job'[r].op = j.op /\ job'[r].nid = j.nid
                            /\ job'[r].order = j.order
  BY StepEffect
<1>4. \A c \in Carts : InUse(c) => InUse(c)'
  BY StepEffect DEF InUse
<1>5. j.nid \in Orders
  BY <1>3 DEF RequestsOK, RequestOK
<1>6. /\ \A q \in Requests : job[q].order.carts \subseteq Carts
      /\ \A o1 \in Orders : order[o1].carts \subseteq Carts
  BY DEF TypeOK, Job, OrderNode
<1>7. /\ \A o1 \in Orders \ {j.nid} : order'[o1] = order[o1]
      /\ order'[j.nid] = order[j.nid]
           \/ (order'[j.nid] = j.order /\ pc[r] = "order")
  BY <1>5, StepEffect DEF TypeOK, SaveOrder
<1>8. pc[r] = "order" => \A c \in j.order.carts : InUse(c)
  BY <1>1 DEF JobLinesOK
<1>9. \A o1 \in Orders : \A c \in order'[o1].carts : InUse(c)'
  BY <1>1, <1>4, <1>6, <1>7, <1>8
<1>10. CartsNotShared'
  BY <1>1, <1>3, <1>5, <1>7 DEF CartsNotShared, JobLinesOK
<1>11. \A q1, q2 \in Requests :
         pc'[q1] # "idle" /\ pc'[q2] # "idle" /\ job'[q1].nid # job'[q2].nid =>
           job'[q1].order.carts \cap job'[q2].order.carts = {}
  BY <1>2, <1>3 DEF LinesOwned
<1>12. \A q \in Requests \ {r} : JobLinesOK(q)'
  <2> SUFFICES ASSUME NEW q \in Requests \ {r}, pc'[q] # "idle"
               PROVE  JobLinesOK(q)'
    BY DEF JobLinesOK
  <2>1. pc[q] # "idle" /\ JobLinesOK(q)
    BY <1>1, <1>2
  <2>2. \A o1 \in Orders \ {job[q].nid} : job[q].order.carts \cap order'[o1].carts = {}
    <3>1. j.nid # job[q].nid => job[q].order.carts \cap j.order.carts = {}
      BY <1>3, <2>1 DEF LinesOwned
    <3> QED BY <1>7, <2>1, <3>1 DEF JobLinesOK
  <2> QED BY <1>2, <1>4, <1>6, <2>1, <2>2 DEF JobLinesOK
<1>13. JobLinesOK(r)'
  <2> SUFFICES ASSUME pc'[r] # "idle"
               PROVE  JobLinesOK(r)'
    BY DEF JobLinesOK
  <2>1. /\ JobLinesOK(r) /\ j.op = job'[r].op /\ j.nid = job'[r].nid
        /\ j.order = job'[r].order
    BY <1>1, <1>3
  <2>2. \A o1 \in Orders \ {j.nid} : j.order.carts \cap order'[o1].carts = {}
    BY <1>3, <1>7, <2>1 DEF JobLinesOK
  <2>3. CASE j.op # "sale"
    BY <1>3, <1>4, <1>6, <2>1, <2>2, <2>3 DEF JobLinesOK
  <2>4. CASE j.op = "sale"
    BY <1>3, <1>4, <1>6, <2>1, <2>2, <2>4, SaleStep DEF JobLinesOK
  <2> QED BY <2>3, <2>4
<1> QED BY <1>9, <1>10, <1>11, <1>12, <1>13 DEF LinesOwned

(* New lines get nids that no order and no request has, and a request      *)
(* saves no line its order did not have.                                   *)
LEMMA LinesStayOwned == Spec => []LinesOwned
<1>1. Init => LinesOwned
  BY DEF Init, LinesOwned, CartsNotShared, JobLinesOK, Blank
<1>2. TypeOK /\ RequestsOK /\ LinesOwned /\ [Next]_vars => LinesOwned'
  <2> SUFFICES ASSUME TypeOK, RequestsOK, LinesOwned, [Next]_vars
               PROVE  LinesOwned'
    OBVIOUS
  <2>1. ASSUME NEW r \in Requests, Receive(r)
        PROVE  LinesOwned'
    BY <2>1, ReceiveStarts, StartKeepsLines
  <2>2. ASSUME NEW r \in Requests, Save(r) \/ Fail(r)
        PROVE  LinesOwned'
    BY <2>2, StepKeepsLines
  <2>3. CASE UNCHANGED vars
    BY <2>3 DEF vars, LinesOwned, CartsNotShared, JobLinesOK, InUse
  <2> QED BY <2>1, <2>2, <2>3 DEF Next
<1> QED BY <1>1, <1>2, TypeCorrect, PTL DEF Spec

(* A line belongs to one order, whatever requests run at a time and        *)
(* wherever they stop.                                                     *)
THEOREM CartsNeverShared == Spec => []CartsNotShared
<1>1. LinesOwned => CartsNotShared
  BY DEF LinesOwned
<1> QED BY <1>1, LinesStayOwned, PTL

-----------------------------------------------------------------------------
(* The stock, when one request runs at a time.                             *)
Serial == \A r, q \in Requests : r = q

(* What a movement does to the stock: with a fresh cache nothing is lost.  *)
LEMMA MovementEffect ==
  ASSUME TypeOK, RequestsOK, CacheFresh, NEW r \in Requests, SaveMovement(r)
  PROVE  LET p == job[r].lines[at[r]].product
             m == job[r].lines[at[r]].move
         IN  /\ pc[r] = "move" /\ p \in Products /\ m \in Int /\ at[r] \in Carts
             /\ stock'[p] = stock[p] + m /\ moved'[p] = moved[p] + m
             /\ seen'[r][p] = Unread
             /\ \A o \in Products \ {p} :
                  /\ stock'[o] = stock[o] /\ moved'[o] = moved[o]
                  /\ seen'[r][o] = seen[r][o]
<1> DEFINE p == job[r].lines[at[r]].product
           m == job[r].lines[at[r]].move
<1>1. pc[r] = "move" /\ p \in Products /\ at[r] \in Carts
  BY DEF SaveMovement, RequestsOK, RequestOK
<1>2. job[r].lines[at[r]] \in Line
  BY <1>1 DEF TypeOK, Job
<1>3. m \in Int
  BY <1>2 DEF Line
<1>4. Loaded(r, p) = stock[p]
  BY <1>1 DEF Loaded, CacheFresh
<1>5. /\ stock' = [stock EXCEPT ![p] = stock[p] + m]
      /\ moved' = [moved EXCEPT ![p] = @ + m]
      /\ seen' = [seen EXCEPT ![r][p] = Unread]
  BY <1>4 DEF SaveMovement, ResetCache
<1> QED BY <1>1, <1>3, <1>5 DEF TypeOK

(* Any other step leaves the stock alone and caches what it reads.         *)
LEMMA OtherStepEffect ==
  ASSUME TypeOK, RequestsOK, CacheFresh, NEW r \in Requests, Save(r) \/ Fail(r),
         ~SaveMovement(r)
  PROVE  /\ UNCHANGED <<stock, moved>>
         /\ \A p \in Products : seen'[r][p] \in {Unread, stock[p]}
<1>1. ASSUME NEW step, Goto(r, step)
      PROVE  \A p \in Products : seen'[r][p] \in {Unread, stock[p]}
  <2>1. CASE step = "idle"
    BY <1>1, <2>1 DEF Goto, TypeOK, NothingRead
  <2>2. CASE step # "idle"
    BY <1>1, <2>2 DEF Goto, CacheFresh
  <2> QED BY <2>1, <2>2
<1>2. CASE CancelLoad(r)
  <2> DEFINE p == cart[at[r]].product
  <2>1. CASE UNCHANGED seen
    BY <1>2, <2>1 DEF CancelLoad, dbVars, CacheFresh
  <2>2. CASE ~ UNCHANGED seen
    <3>1. seen' = [seen EXCEPT ![r][p] = Loaded(r, p)] /\ p \in Products
      BY <1>2, <2>2 DEF CancelLoad
    <3>2. Loaded(r, p) = stock[p]
      BY <3>1 DEF Loaded, CacheFresh
    <3> QED BY <1>2, <3>1, <3>2 DEF CancelLoad, dbVars, CacheFresh, TypeOK
  <2> QED BY <2>1, <2>2
<1>3. CASE SaveCart(r)
  BY <1>1, <1>3 DEF SaveCart
<1>4. CASE SaveOrder(r)
  BY <1>1, <1>4 DEF SaveOrder
<1>5. CASE DropCart(r)
  BY <1>1, <1>5 DEF DropCart
<1>6. CASE Fail(r)
  BY <1>1, <1>6 DEF Fail, dbVars
<1> QED BY <1>2, <1>3, <1>4, <1>5, <1>6 DEF Save

LEMMA CacheStaysFresh ==
  ASSUME Serial, TypeOK, RequestsOK, CacheFresh, [Next]_vars
  PROVE  CacheFresh'
<1>1. ASSUME NEW r \in Requests, Receive(r)
      PROVE  CacheFresh'
  <2>1. PICK op, o, node, lines, S, first :
          Started(r, op, o, node, lines, S, first)
    BY <1>1, ReceiveStarts, StartEffect
  <2>2. UNCHANGED stock /\ \A p \in Products : seen'[r][p] \in {Unread, stock[p]}
    BY <2>1 DEF Started
  <2> QED BY <2>2 DEF CacheFresh, Serial
<1>2. ASSUME NEW r \in Requests, Save(r) \/ Fail(r)
      PROVE  CacheFresh'
  <2>1. CASE SaveMovement(r)
    BY <2>1, MovementEffect DEF CacheFresh, Serial
  <2>2. CASE ~SaveMovement(r)
    BY <1>2, <2>2, OtherStepEffect DEF CacheFresh, Serial
  <2> QED BY <2>1, <2>2
<1>3. CASE UNCHANGED vars
  BY <1>3 DEF vars, CacheFresh
<1> QED BY <1>1, <1>2, <1>3 DEF Next

(* The quantity of a product is the initial one and the sum of its stock   *)
(* nodes, wherever requests stop, as long as they run one at a time.       *)
THEOREM LedgerAgreesSerially ==
  ASSUME Serial
  PROVE  Spec => []LedgerAgrees
<1> DEFINE IInv == CacheFresh /\ LedgerAgrees
<1>1. Init => IInv
  BY ConstantsAssumption DEF Init, CacheFresh, LedgerAgrees, NothingRead
<1>2. TypeOK /\ RequestsOK /\ IInv /\ [Next]_vars => IInv'
  <2> SUFFICES ASSUME TypeOK, RequestsOK, IInv, [Next]_vars
               PROVE  CacheFresh' /\ LedgerAgrees'
    OBVIOUS
  <2>1. CacheFresh'
    BY CacheStaysFresh
  <2>2. ASSUME NEW r \in Requests, Receive(r)
        PROVE  LedgerAgrees'
    BY <2>2, ReceiveStarts, StartEffect DEF Started, LedgerAgrees
  <2>3. ASSUME NEW r \in Requests, Save(r) \/ Fail(r)
        PROVE  LedgerAgrees'
    <3>1. CASE SaveMovement(r)
      <4>1. \A p \in Products : /\ stock[p] \in Int /\ moved[p] \in Int
                               /\ InitialStock[p] \in Int
        BY ConstantsAssumption DEF TypeOK
      <4> QED BY <3>1, <4>1, MovementEffect DEF LedgerAgrees
    <3>2. CASE ~SaveMovement(r)
      BY <2>3, <3>2, OtherStepEffect DEF LedgerAgrees
    <3> QED BY <3>1, <3>2
  <2>4. CASE UNCHANGED vars
    BY <2>1, <2>4 DEF vars, LedgerAgrees
  <2> QED BY <2>1, <2>2, <2>3, <2>4 DEF Next
<1> QED BY <1>1, <1>2, TypeCorrect, PTL DEF Spec

(* Validation has seen enough stock for every line a request starts with.  *)
LEMMA StartKeepsCover ==
  ASSUME Serial, TypeOK, RequestsOK, NeverOversold,
         NEW r \in Requests, Starts(r)
  PROVE  NeverOversold' /\ RequestsCovered'
<1>1. PICK op, o, node, lines, S, first : Started(r, op, o, node, lines, S, first)
  BY StartEffect
<1>2. /\ UNCHANGED stock
      /\ pc'[r] = first /\ job'[r].op = op /\ job'[r].lines = lines
      /\ at'[r] \in (IF S = {} THEN {NoCart} ELSE S)
      /\ todo'[r] = S \ {at'[r]}
  BY <1>1 DEF Started
<1>3. /\ first # "order" => S # {}
      /\ op = "sale" => first = "cart"
      /\ first = "load" <=> op = "cancel"
      /\ op = "sale" \/ first = "move" =>
           \A c \in S : lines[c].product \notin RepeatProducts =>
                         stock[lines[c].product] + lines[c].move >= 0
      /\ op = "sale" =>
           \A c, d \in S : c # d /\ lines[c].product = lines[d].product =>
                            lines[c].product \in RepeatProducts
  BY <1>1 DEF Started, Valid, Formed, StockSound
<1>4. Covered(r)'
  <2>1. Owed(r)' \subseteq S
    BY <1>2, <1>3 DEF Owed
  <2>2. Owed(r)' # {} => op = "sale" \/ first = "move"
    BY <1>2, <1>3 DEF Owed
  <2>3. op # "sale" => \A c, d \in Owed(r)' : c = d
    BY <1>2, <1>3 DEF Owed
  <2> QED BY <1>2, <1>3, <2>1, <2>2, <2>3 DEF Covered
<1>5. NeverOversold'
  BY <1>2 DEF NeverOversold
<1> QED BY <1>4, <1>5 DEF RequestsCovered, Serial

(* Each movement takes what was seen, and leaves the other lines' products.*)
LEMMA StepKeepsCover ==
  ASSUME Serial, TypeOK, RequestsOK, LinesOwned, CacheFresh, NeverOversold,
         RequestsCovered, NEW r \in Requests, Save(r) \/ Fail(r)
  PROVE  NeverOversold' /\ RequestsCovered'
<1>1. Covered(r) /\ RequestOK(r) /\ pc[r] # "idle"
      /\ (job[r].op = "sale" => pc[r] \in {"cart", "move", "order"})
  BY StepEffect DEF RequestsCovered, RequestsOK, LinesOwned, JobLinesOK
<1>2. at[r] \notin todo[r]
  BY <1>1 DEF Covered
<1>3. ASSUME NEW step \in {"idle", "order", "drop"}, Goto(r, step), UNCHANGED stock,
             step # "idle" => job[r].op # "sale"
      PROVE  NeverOversold' /\ Covered(r)'
  <2>1. NeverOversold'
    BY <1>3 DEF NeverOversold
  <2>2. CASE step = "idle"
    BY <2>1, <2>2, <1>3, GotoEffect DEF Covered
  <2>3. CASE step # "idle"
    <3>1. pc'[r] = step /\ UNCHANGED <<job, at, todo>>
      BY <1>3, <2>3, GotoEffect
    <3>2. Owed(r)' = {}
      BY <1>3, <2>3, <3>1 DEF Owed
    <3> QED BY <1>2, <2>1, <3>1, <3>2 DEF Covered
  <2> QED BY <2>2, <2>3
<1>4. CASE CancelLoad(r)
  <2> DEFINE c == at[r]
             p == cart[c].product
             q == cart[c].qty
  <2>1. UNCHANGED stock /\ pc[r] = "load" /\ job[r].op # "sale"
    BY <1>1, <1>4 DEF CancelLoad, dbVars
  <2>2. NeverOversold'
    BY <2>1 DEF NeverOversold
  <2>3. CASE NextLine(r, "load") /\ UNCHANGED job
    <3>1. pc'[r] \in {"order", "load"} /\ at'[r] \notin todo'[r]
      BY <1>2, <2>3, NextLineEffect
    <3>2. Owed(r)' = {}
      BY <2>1, <2>3, <3>1 DEF Owed
    <3>3. Covered(r)'
      BY <3>1, <3>2 DEF Covered
    <3> QED BY <2>2, <3>3 DEF RequestsCovered, Serial
  <2>4. CASE ~(NextLine(r, "load") /\ UNCHANGED job)
    <3>1. /\ p \in Products /\ c \in Carts
          /\ job' = [job EXCEPT ![r] = WithLine(@, c, p, q, q)]
          /\ pc' = [pc EXCEPT ![r] = "move"]
          /\ UNCHANGED <<at, todo>>
      BY <1>1, <1>4, <2>4 DEF CancelLoad, RequestOK
    <3>2. job[r] \in Job /\ cart[c] \in CartNode
      BY <3>1 DEF TypeOK
    <3>3. /\ job'[r].op = job[r].op
          /\ job'[r].lines[c].product = p /\ job'[r].lines[c].move = q
      BY <3>1, <3>2 DEF WithLine, Job, TypeOK
    <3>4. pc'[r] = "move" /\ Owed(r)' = {c}
      BY <2>1, <3>1, <3>3 DEF Owed, TypeOK
    <3>5. (p \notin RepeatProducts => stock[p] >= 0) /\ stock[p] \in Int /\ q \in Nat
      BY <3>1, <3>2 DEF NeverOversold, TypeOK, CartNode
    <3>6. /\ p \notin RepeatProducts =>
               stock'[job'[r].lines[c].product] + job'[r].lines[c].move >= 0
          /\ at'[r] \notin todo'[r]
      BY <1>2, <2>1, <3>1, <3>3, <3>5
    <3>7. Covered(r)'
      BY <3>3, <3>4, <3>6 DEF Covered
    <3> QED BY <2>2, <3>7 DEF RequestsCovered, Serial
  <2> QED BY <2>3, <2>4
<1>5. CASE SaveCart(r)
  <2>1. CASE job[r].op = "sale"
    <3>1. pc[r] = "cart" /\ UNCHANGED stock /\ Goto(r, "move")
      BY <1>5, <2>1 DEF SaveCart
    <3>2. pc'[r] = "move" /\ UNCHANGED <<job, at, todo>>
      BY <3>1, GotoEffect
    <3>3. Owed(r)' = Owed(r)
      BY <2>1, <3>1, <3>2 DEF Owed
    <3>4. NeverOversold' /\ Covered(r)'
      BY <1>1, <3>1, <3>2, <3>3 DEF Covered, NeverOversold
    <3> QED BY <3>4 DEF RequestsCovered, Serial
  <2>2. CASE job[r].op # "sale"
    <3>1. UNCHANGED stock /\ \E step \in {"idle", "order"} : Goto(r, step)
      BY <1>5, <2>2 DEF SaveCart
    <3> QED BY <1>3, <2>2, <3>1 DEF RequestsCovered, Serial
  <2> QED BY <2>1, <2>2
<1>6. CASE SaveMovement(r)
  <2> DEFINE c == at[r]
             p == job[r].lines[c].product
             m == job[r].lines[c].move
  <2>1. /\ pc[r] = "move" /\ p \in Products /\ m \in Int
        /\ stock'[p] = stock[p] + m
        /\ \A o \in Products \ {p} : stock'[o] = stock[o]
    BY <1>6, MovementEffect
  <2>2. c \in Owed(r)
    BY <2>1 DEF Owed
  <2>3. p \notin RepeatProducts => stock[p] + m >= 0
    BY <1>1, <2>2 DEF Covered
  <2>4. NeverOversold'
    BY <2>1, <2>3 DEF NeverOversold
  <2>5. UNCHANGED job
    BY <1>6 DEF SaveMovement
  <2>6. CASE job[r].op = "sale"
    <3>1. NextLine(r, "cart")
      BY <1>6, <2>6, SaveMovementEffect
    <3>2. /\ at'[r] \notin todo'[r]
          /\ Owed(r)' \subseteq todo[r]
      BY <1>2, <2>5, <2>6, <3>1, NextLineEffect DEF Owed
    <3>3. todo[r] \subseteq Owed(r) /\ todo[r] \subseteq Carts
      BY <2>6 DEF Owed, TypeOK
    <3>4. \A d \in todo[r] : /\ \/ job[r].lines[d].product # p
                                \/ job[r].lines[d].product \in RepeatProducts
                             /\ job[r].lines[d].product \in Products
      BY <1>1, <1>2, <2>2, <2>6, <3>3 DEF Covered, RequestOK
    <3>5. \A d \in Owed(r)' :
            job[r].lines[d].product \notin RepeatProducts =>
              stock'[job[r].lines[d].product] + job[r].lines[d].move >= 0
      BY <1>1, <2>1, <3>2, <3>3, <3>4 DEF Covered
    <3>6. \A d, e \in Owed(r)' :
            d # e /\ job[r].lines[d].product = job[r].lines[e].product =>
              job[r].lines[d].product \in RepeatProducts
      BY <1>1, <3>2, <3>3 DEF Covered
    <3> QED BY <2>4, <2>5, <3>2, <3>5, <3>6 DEF Covered, RequestsCovered, Serial
  <2>7. CASE job[r].op # "sale"
    <3>1. /\ pc'[r] \in {"load", "cart", "order"}
          /\ at'[r] \notin todo'[r]
      BY <1>2, <1>6, <2>7, SaveMovementEffect, NextLineEffect
    <3>2. Owed(r)' = {}
      BY <2>5, <2>7, <3>1 DEF Owed
    <3> QED BY <2>4, <3>1, <3>2 DEF Covered, RequestsCovered, Serial
  <2> QED BY <2>6, <2>7
<1>7. CASE SaveOrder(r)
  <2>1. /\ UNCHANGED stock
        /\ \E step \in {"idle", "drop"} :
             Goto(r, step) /\ (step = "drop" => job[r].op = "delete")
    BY <1>7 DEF SaveOrder
  <2> QED BY <1>3, <2>1 DEF RequestsCovered, Serial
<1>8. CASE DropCart(r)
  <2>1. UNCHANGED stock /\ Goto(r, "idle")
    BY <1>8 DEF DropCart
  <2> QED BY <1>3, <2>1 DEF RequestsCovered, Serial
<1>9. CASE Fail(r)
  <2>1. UNCHANGED stock /\ Goto(r, "idle")
    BY <1>9 DEF Fail, dbVars
  <2> QED BY <1>3, <2>1 DEF RequestsCovered, Serial
<1> QED BY <1>4, <1>5, <1>6, <1>7, <1>8, <1>9 DEF Save

(* The shop never sells what it does not have of a product that no sale    *)
(* names twice, wherever requests stop, as long as they run one at a time. *)
THEOREM NeverOversoldSerially ==
  ASSUME Serial
  PROVE  Spec => []NeverOversold
<1> DEFINE IInv == CacheFresh /\ NeverOversold /\ RequestsCovered
<1>1. Init => IInv
  BY ConstantsAssumption
     DEF Init, CacheFresh, NeverOversold, RequestsCovered, Covered, NothingRead
<1>2. TypeOK /\ RequestsOK /\ LinesOwned /\ IInv /\ [Next]_vars => IInv'
  <2> SUFFICES ASSUME TypeOK, RequestsOK, LinesOwned, IInv, [Next]_vars
               PROVE  CacheFresh' /\ NeverOversold' /\ RequestsCovered'
    OBVIOUS
  <2>1. CacheFresh'
    BY CacheStaysFresh
  <2>2. ASSUME NEW r \in Requests, Receive(r)
        PROVE  NeverOversold' /\ RequestsCovered'
    BY <2>2, ReceiveStarts, StartKeepsCover
  <2>3. ASSUME NEW r \in Requests, Save(r) \/ Fail(r)
        PROVE  NeverOversold' /\ RequestsCovered'
    BY <2>3, StepKeepsCover
  <2>4. CASE UNCHANGED vars
    BY <2>1, <2>4 DEF vars, NeverOversold, RequestsCovered, Covered, Owed
  <2> QED BY <2>1, <2>2, <2>3, <2>4 DEF Next
<1> QED BY <1>1, <1>2, TypeCorrect, LinesStayOwned, PTL DEF Spec

-----------------------------------------------------------------------------
(* The refinement: what a step does to the stock is a step of StockLedger. *)

LEMMA CacheAlwaysFresh ==
  ASSUME Serial
  PROVE  Spec => []CacheFresh
<1>1. Init => CacheFresh
  BY DEF Init, CacheFresh, NothingRead
<1>2. TypeOK /\ RequestsOK /\ CacheFresh /\ [Next]_vars => CacheFresh'
  BY CacheStaysFresh
<1> QED BY <1>1, <1>2, TypeCorrect, PTL DEF Spec

(* Steps that move nothing leave the pieces of the lines alone, too.       *)
LEMMA OtherStepHolds ==
  ASSUME NEW r \in Requests, Save(r) \/ Fail(r), ~SaveMovement(r)
  PROVE  UNCHANGED sold
BY DEF Save, Fail, CancelLoad, SaveCart, SaveOrder, DropCart, dbVars

(* A movement is a move of the ledger, by as much as the job says.         *)
LEMMA MovementIsMove ==
  ASSUME TypeOK, RequestsOK, CacheFresh, NeverOversold', NEW r \in Requests,
         SaveMovement(r)
  PROVE  Ledger!Next
<1> DEFINE c == at[r]
           p == job[r].lines[c].product
           m == job[r].lines[c].move
<1>1. /\ p \in Products /\ m \in Int /\ c \in Carts
      /\ stock'[p] = stock[p] + m /\ moved'[p] = moved[p] + m
  BY MovementEffect
<1>2. stock' = [stock EXCEPT ![p] = @ + m]
  <2>1. Loaded(r, p) = stock[p]
    BY <1>1 DEF Loaded, CacheFresh
  <2> QED BY <2>1 DEF SaveMovement
<1>3. /\ moved' = [moved EXCEPT ![p] = @ + m]
      /\ sold' = [sold EXCEPT ![c] = @ - m]
  BY DEF SaveMovement
<1>4. Ledger!Amount(p) = m
  BY <1>1 DEF Ledger!Amount, TypeOK
<1>5. p \notin RepeatProducts => stock[p] + m >= 0
  BY <1>1 DEF NeverOversold
<1> HIDE DEF c, p, m
<1>6. Ledger!Move(c, p)
  BY <1>2, <1>3, <1>4, <1>5 DEF Ledger!Move
<1> QED BY <1>1, <1>6 DEF Ledger!Next

(* The sales of the shop implement StockLedger, wherever requests stop, as *)
(* long as they run one at a time.                                         *)
THEOREM LedgerKeptSerially ==
  ASSUME Serial
  PROVE  Spec => KeepsLedger
<1>1. Init => Ledger!Init
  BY DEF Init, Ledger!Init
<1>2. TypeOK /\ RequestsOK /\ CacheFresh /\ NeverOversold' /\ [Next]_vars
        => [Ledger!Next]_<<stock, moved, sold>>
  <2> SUFFICES ASSUME TypeOK, RequestsOK, CacheFresh, NeverOversold', [Next]_vars
               PROVE  Ledger!Next \/ UNCHANGED <<stock, moved, sold>>
    OBVIOUS
  <2>1. ASSUME NEW r \in Requests, Receive(r)
        PROVE  UNCHANGED <<stock, moved, sold>>
    BY <2>1, ReceiveStarts, StartEffect DEF Started
  <2>2. ASSUME NEW r \in Requests, Save(r) \/ Fail(r), ~SaveMovement(r)
        PROVE  UNCHANGED <<stock, moved, sold>>
    BY <2>2, OtherStepEffect, OtherStepHolds
  <2>3. ASSUME NEW r \in Requests, SaveMovement(r)
        PROVE  Ledger!Next
    BY <2>3, MovementIsMove
  <2>4. CASE UNCHANGED vars
    BY <2>4 DEF vars, dbVars
  <2> QED BY <2>1, <2>2, <2>3, <2>4 DEF Next
<1> QED BY <1>1, <1>2, TypeCorrect, CacheAlwaysFresh, NeverOversoldSerially, PTL
        DEF Spec, KeepsLedger, Ledger!Spec

-----------------------------------------------------------------------------
(* That the lines of an order are there and hold their pieces, for every   *)
(* number of sales, lines and requests at a time, wherever these stop.     *)

LineOps == {"price", "purchase", "quantity", "delete"}

Running(r) == pc[r] # "idle"

\* The steps of an operation.
StepsOf(op) ==
  CASE op = "sale"     -> {"cart", "move", "order"}
    [] op = "status"   -> {"order"}
    [] op = "cancel"   -> {"load", "move", "order"}
    [] op = "price"    -> {"cart", "order"}
    [] op = "purchase" -> {"cart"}
    [] op = "quantity" -> {"move", "cart", "order"}
    [] op = "delete"   -> {"move", "order", "drop"}

\* A line of a sale that has no cart node yet.
Pending(r, c) ==
  /\ job[r].op = "sale"
  /\ c \in todo[r] \/ (pc[r] = "cart" /\ c = at[r])

\* The lines a request may write.
Mine(r) == (job[r].order.carts \cup {at[r]}) \cap Carts

Shape(r) ==
  /\ pc[r] \in StepsOf(job[r].op)
  /\ job[r].order.saved
  /\ at[r] \notin todo[r] /\ todo[r] \subseteq job[r].order.carts
  /\ pc[r] = "order" \/ job[r].op \notin {"sale", "cancel"} => todo[r] = {}
  /\ job[r].op \notin {"status", "delete"} => at[r] \in job[r].order.carts
  /\ job[r].op = "delete" => at[r] \in Carts \ job[r].order.carts
  /\ job[r].op = "sale" => job[r].order.commande # "annuler"
  /\ job[r].op = "cancel" => job[r].order.commande = "annuler"

\* The lines of a request are those of its order only.
Own(r) ==
  /\ \A c \in Mine(r) : InUse(c) <=> ~Pending(r, c)
  /\ \A o \in Orders \ {job[r].nid} : Mine(r) \cap order[o].carts = {}
  /\ job[r].op = "sale" => order[job[r].nid] = Blank

\* Two requests are at different orders, or at one that is shared.
Apart(r, q) ==
  /\ job[r].nid # job[q].nid => Mine(r) \cap Mine(q) = {}
  /\ job[r].nid = job[q].nid => /\ job[r].nid \in SharedOrders
                                /\ job[r].op # "sale" /\ job[q].op # "sale"

OrderOK(o) ==
  /\ order[o].saved \/ order[o] = Blank
  /\ o \notin SharedOrders => \A c \in order[o].carts : cart[c].state = "saved"

\* At an order that is not shared, the order a request has read is still the
\* one in the database.
Follows(r) ==
  /\ job[r].op = "sale" =>
       \A c \in job[r].order.carts : Pending(r, c) \/ cart[c].state = "saved"
  /\ job[r].op # "sale" => order[job[r].nid].saved
  /\ job[r].op # "status" => order[job[r].nid].commande # "annuler"
  /\ job[r].op \in {"status", "cancel"} =>
       order[job[r].nid].carts = job[r].order.carts
  /\ job[r].op \in {"price", "purchase", "quantity"} =>
       order[job[r].nid] = job[r].order
  /\ job[r].op = "delete" =>
       /\ order[job[r].nid].commande = job[r].order.commande
       /\ pc[r] = "drop" => order[job[r].nid].carts = job[r].order.carts
       /\ pc[r] # "drop" => /\ at[r] \in order[job[r].nid].carts
                            /\ job[r].order.carts = order[job[r].nid].carts \ {at[r]}

RunningOK(r) ==
  Running(r) => /\ Shape(r) /\ Own(r)
                /\ job[r].nid \notin SharedOrders => Follows(r)

LinesInv ==
  /\ \A o \in Orders : OrderOK(o)
  /\ \A r \in Requests : RunningOK(r)
  /\ \A r, q \in Requests : r # q /\ Running(r) /\ Running(q) => Apart(r, q)

-----------------------------------------------------------------------------
(* A request starts.                                                       *)

\* What the handler of op checks and reads of the order o and its lines.
Fits(op, o, node, lines, S, first) ==
  /\ op \in Ops /\ o \in Orders
  /\ node.saved /\ first \in StepsOf(op) \ {"drop"}
  /\ op = "sale" =>
       /\ ~order[o].saved /\ ~Busy(o)
       /\ S # {} /\ S \subseteq Carts /\ node.carts = S /\ first = "cart"
       /\ node.commande # "annuler"
       /\ \A c \in S : /\ cart[c].state = "unused"
                       /\ \A q \in Requests : c \notin job[q].order.carts
                       /\ lines[c].move = -lines[c].qty
  /\ op # "sale" => order[o].saved /\ (o \in SharedOrders \/ ~Busy(o))
  /\ op # "status" => order[o].commande # "annuler"
  /\ op = "status" =>
       /\ S = {} /\ node.carts = order[o].carts
       /\ \E to : <<order[o].local, to>> \in StatusSteps /\ node.commande = CommandeMap(to)
  /\ op = "cancel" =>
       /\ S # {} /\ S = order[o].carts /\ node.carts = S
       /\ node.commande = "annuler" /\ first = "load"
  /\ op \in LineOps => \E c \in order[o].carts :
       /\ S = {c} /\ c \in Carts /\ cart[c].state = "saved"
       /\ op # "delete" => node = order[o]
       /\ op = "delete" => /\ node.carts = order[o].carts \ {c} /\ first = "move"
                           /\ node.commande = order[o].commande
                           /\ lines[c].move = cart[c].qty
       /\ op \in {"price", "purchase"} => first = "cart" /\ lines[c].qty = cart[c].qty
       /\ op = "quantity" =>
            IF first = "move" THEN lines[c].move = cart[c].qty - lines[c].qty
            ELSE lines[c].qty = cart[c].qty

\* What the start of such a request changes.
Opened(r, op, o, node, lines, S, first) ==
  /\ Fits(op, o, node, lines, S, first)
  /\ pc[r] = "idle" /\ pc'[r] = first
  /\ job'[r] = [op |-> op, nid |-> o, order |-> node, lines |-> lines]
  /\ at'[r] \in (IF S = {} THEN {NoCart} ELSE S)
  /\ todo'[r] = S \ {at'[r]}
  /\ UNCHANGED <<cart, order, sold, torn>>
  /\ \A q \in Requests \ {r} :
       /\ pc'[q] = pc[q] /\ job'[q] = job[q]
       /\ at'[q] = at[q] /\ todo'[q] = todo[q]

Opens(r) == \E op, o, node, lines, S, first : Opened(r, op, o, node, lines, S, first)

(* What the handler has checked is all that the start of the request needs.*)
LEMMA BeginOpens ==
  ASSUME TypeOK, NEW r \in Requests, NEW op, NEW o, NEW node, NEW lines, NEW S,
         NEW first, NEW read, Begin(r, op, o, node, lines, S, first, read),
         Fits(op, o, node, lines, S, first)
  PROVE  Opens(r)
<1>1. PICK c \in (IF S = {} THEN {NoCart} ELSE S) :
        at' = [at EXCEPT ![r] = c] /\ todo' = [todo EXCEPT ![r] = S \ {c}]
  BY DEF Begin
<1>2. /\ pc[r] = "idle" /\ pc'[r] = first
      /\ job'[r] = [op |-> op, nid |-> o, order |-> node, lines |-> lines]
      /\ UNCHANGED <<cart, order, sold, torn>>
  BY DEF Begin, TypeOK, dbVars
<1>3. at'[r] = c /\ todo'[r] = S \ {c}
  BY <1>1 DEF TypeOK
<1>4. \A q \in Requests \ {r} :
        /\ pc'[q] = pc[q] /\ job'[q] = job[q]
        /\ at'[q] = at[q] /\ todo'[q] = todo[q]
  BY <1>1 DEF Begin, TypeOK
<1>5. Opened(r, op, o, node, lines, S, first)
  BY <1>1, <1>2, <1>3, <1>4 DEF Opened
<1> QED BY <1>5 DEF Opens

(* The handlers, one by one: each checks what its operation needs.         *)
LEMMA SaleOpens ==
  ASSUME TypeOK, NEW r \in Requests, NEW o \in Orders, OrderOK(o), Sale(r, o)
  PROVE  Opens(r)
<1>0. PICK S \in SUBSET Carts :
        \E product \in [S -> Products], quantity \in [S -> 1..MaxQuantity] :
          SaveOrderLocal(r, o, S, product, quantity)
  BY DEF Sale
<1>1. PICK product \in [S -> Products], quantity \in [S -> 1..MaxQuantity] :
        SaveOrderLocal(r, o, S, product, quantity)
  BY <1>0
<1> DEFINE node == [saved |-> TRUE, carts |-> S,
                    commande |-> "payer_recue", local |-> "sortie"]
           lines == [c \in Carts |-> IF c \in S
                       THEN [product |-> product[c], qty |-> quantity[c],
                             move |-> -quantity[c]]
                       ELSE NoLine]
           read == {product[c] : c \in S}
<1>2. Begin(r, "sale", o, node, lines, S, "cart", read)
  BY <1>1 DEF SaveOrderLocal
<1>3. \A c \in S : lines[c].move = -lines[c].qty
  OBVIOUS
<1>4. /\ ~order[o].saved /\ ~Busy(o) /\ S # {}
      /\ \A c \in S : /\ cart[c].state = "unused"
                      /\ \A q \in Requests : c \notin job[q].order.carts
  BY <1>1 DEF SaveOrderLocal, NewCarts
<1>5. order[o].commande # "annuler"
  BY <1>4 DEF OrderOK, Blank
<1>6. node.saved /\ node.carts = S /\ node.commande = "payer_recue"
  OBVIOUS
<1> HIDE DEF node, lines, read
<1>7. Fits("sale", o, node, lines, S, "cart")
  BY <1>3, <1>4, <1>5, <1>6 DEF Fits, Ops, StepsOf, LineOps
<1> QED BY <1>2, <1>7, BeginOpens

LEMMA StatusOpens ==
  ASSUME TypeOK, NEW r \in Requests, NEW o \in Orders, NEW to \in LocalStatuses,
         UpdateStatusLocal(r, o, to)
  PROVE  Opens(r)
<1> DEFINE node == [order[o] EXCEPT !.local = to, !.commande = CommandeMap(to)]
<1>1. /\ Begin(r, "status", o, node, NoLines, {}, "order", {})
      /\ order[o].saved /\ (o \in SharedOrders \/ ~Busy(o))
      /\ <<order[o].local, to>> \in StatusSteps
  BY DEF UpdateStatusLocal, Addressed
<1>2. node.saved = order[o].saved /\ node.carts = order[o].carts
      /\ node.commande = CommandeMap(to)
  BY DEF TypeOK, OrderNode
<1> HIDE DEF node
<1>3. Fits("status", o, node, NoLines, {}, "order")
  BY <1>1, <1>2 DEF Fits, Ops, StepsOf, LineOps
<1> QED BY <1>1, <1>3, BeginOpens

LEMMA CancelOpens ==
  ASSUME TypeOK, NEW r \in Requests, NEW o \in Orders, CancelOrderLocal(r, o)
  PROVE  Opens(r)
<1> DEFINE node == Cancelled(o)
<1>1. /\ Begin(r, "cancel", o, node, NoLines, order[o].carts, "load", {})
      /\ order[o].saved /\ (o \in SharedOrders \/ ~Busy(o))
      /\ order[o].carts # {} /\ order[o].commande # "annuler"
  BY DEF CancelOrderLocal, Addressed, NotCancelled
<1>2. node.saved = order[o].saved /\ node.carts = order[o].carts
      /\ node.commande = "annuler"
  BY DEF TypeOK, OrderNode, Cancelled
<1> HIDE DEF node
<1>3. Fits("cancel", o, node, NoLines, order[o].carts, "load")
  BY <1>1, <1>2 DEF Fits, Ops, StepsOf, LineOps
<1> QED BY <1>1, <1>3, BeginOpens

LEMMA EditOpens ==
  ASSUME TypeOK, NEW r \in Requests, NEW o \in Orders, NEW c \in Carts,
         \/ UpdateCartPrice(r, o, c)
         \/ UpdateCartPurchasePrice(r, o, c)
         \/ \E q \in 1..MaxQuantity : UpdateCartQuantity(r, o, c, q)
         \/ DeleteCartLine(r, o, c)
  PROVE  Opens(r)
<1> DEFINE p == cart[c].product
           less == RemainingCarts(o, c)
<1>1. /\ cart[c].qty \in Nat
      /\ less.carts = order[o].carts \ {c}
      /\ less.commande = order[o].commande /\ less.saved = order[o].saved
  BY DEF TypeOK, CartNode, OrderNode, RemainingCarts
<1>2. /\ cart[c].state = "saved" /\ c \in order[o].carts
      /\ order[o].saved /\ (o \in SharedOrders \/ ~Busy(o))
      /\ order[o].commande # "annuler"
  BY DEF UpdateCartPrice, UpdateCartPurchasePrice, UpdateCartQuantity, DeleteCartLine,
         EditableLine, Addressed, NotCancelled
<1>3. ASSUME NEW q, NEW m
      PROVE  Single(c, p, q, m)[c].qty = q /\ Single(c, p, q, m)[c].move = m
  BY DEF Single, NoLines
<1>4. CASE \/ UpdateCartPrice(r, o, c)
           \/ UpdateCartPurchasePrice(r, o, c)
  <2> DEFINE lines == Single(c, p, cart[c].qty, 0)
  <2>1. PICK op \in {"price", "purchase"} :
          Begin(r, op, o, order[o], lines, {c}, "cart", {})
    BY <1>4 DEF UpdateCartPrice, UpdateCartPurchasePrice
  <2>2. lines[c].qty = cart[c].qty
    BY <1>3
  <2> HIDE DEF lines
  <2>3. Fits(op, o, order[o], lines, {c}, "cart")
    BY <1>2, <2>2 DEF Fits, Ops, StepsOf, LineOps
  <2> QED BY <2>1, <2>3, BeginOpens
<1>5. CASE \E q \in 1..MaxQuantity : UpdateCartQuantity(r, o, c, q)
  <2>1. PICK q \in 1..MaxQuantity : UpdateCartQuantity(r, o, c, q)
    BY <1>5
  <2> DEFINE delta == q - cart[c].qty
             lines == Single(c, p, q, -delta)
             first == IF delta = 0 THEN "cart" ELSE "move"
  <2>2. Begin(r, "quantity", o, order[o], lines, {c}, first, {p})
    BY <2>1 DEF UpdateCartQuantity
  <2>3. lines[c].qty = q /\ lines[c].move = -delta
    BY <1>3
  <2>4. q \in Nat
    BY ConstantsAssumption
  <2>5. IF first = "move" THEN lines[c].move = cart[c].qty - lines[c].qty
        ELSE lines[c].qty = cart[c].qty
    BY <1>1, <2>3, <2>4
  <2>6. first \in {"cart", "move"}
    OBVIOUS
  <2> HIDE DEF lines, first
  <2>7. Fits("quantity", o, order[o], lines, {c}, first)
    BY <1>2, <2>5, <2>6 DEF Fits, Ops, StepsOf, LineOps
  <2> QED BY <2>2, <2>7, BeginOpens
<1>6. CASE DeleteCartLine(r, o, c)
  <2> DEFINE lines == Single(c, p, cart[c].qty, cart[c].qty)
  <2>1. Begin(r, "delete", o, less, lines, {c}, "move", {p})
    BY <1>6 DEF DeleteCartLine
  <2>2. lines[c].move = cart[c].qty
    BY <1>3
  <2> HIDE DEF lines, less
  <2>3. Fits("delete", o, less, lines, {c}, "move")
    BY <1>1, <1>2, <2>2 DEF Fits, Ops, StepsOf, LineOps
  <2> QED BY <2>1, <2>3, BeginOpens
<1> QED BY <1>4, <1>5, <1>6

(* Every request that starts is one of these.                              *)
LEMMA ReceiveOpens ==
  ASSUME TypeOK, \A o \in Orders : OrderOK(o), NEW r \in Requests, Receive(r)
  PROVE  Opens(r)
<1>1. PICK o \in Orders :
        \/ Sale(r, o)
        \/ \E to \in LocalStatuses : UpdateStatusLocal(r, o, to)
        \/ CancelOrderLocal(r, o)
        \/ \E c \in Carts :
             \/ UpdateCartPrice(r, o, c)
             \/ UpdateCartPurchasePrice(r, o, c)
             \/ \E q \in 1..MaxQuantity : UpdateCartQuantity(r, o, c, q)
             \/ DeleteCartLine(r, o, c)
  BY DEF Receive
<1> QED BY <1>1, SaleOpens, StatusOpens, CancelOpens, EditOpens

(* A request that takes no step keeps what is said of it.                  *)
LEMMA OthersSame ==
  ASSUME NEW q \in Requests, pc'[q] = pc[q], job'[q] = job[q],
         at'[q] = at[q], todo'[q] = todo[q]
  PROVE  /\ Running(q)' <=> Running(q)
         /\ Shape(q)' <=> Shape(q)
         /\ Mine(q)' = Mine(q)
         /\ \A c : Pending(q, c)' <=> Pending(q, c)
BY DEF Running, Shape, Mine, Pending

(* A request starts with lines of its order, or with new ones.             *)
LEMMA OpenShape ==
  ASSUME TypeOK, LinesOwned, LinesInv, NEW r \in Requests,
         NEW op, NEW o, NEW node, NEW lines, NEW S, NEW first,
         Opened(r, op, o, node, lines, S, first)
  PROVE  /\ Shape(r)' /\ Running(r)'
         /\ op = "sale" => Mine(r)' = S /\ \A c \in S : Pending(r, c)'
         /\ op # "sale" => Mine(r)' \subseteq order[o].carts /\ \A c : ~Pending(r, c)'
<1>0. Fits(op, o, node, lines, S, first)
  BY DEF Opened
<1>1. /\ pc'[r] = first /\ job'[r].op = op /\ job'[r].nid = o /\ job'[r].order = node
      /\ at'[r] \in (IF S = {} THEN {NoCart} ELSE S) /\ todo'[r] = S \ {at'[r]}
  BY DEF Opened
<1>2. NoCart \notin Carts /\ order[o].carts \subseteq Carts
  BY <1>0, ConstantsAssumption DEF TypeOK, OrderNode, Fits
<1>3. first \in {"load", "cart", "move", "order"} /\ Running(r)'
  BY <1>0, <1>1 DEF Fits, StepsOf, Ops, Running
<1>4. CASE op = "sale"
  <2>1. S # {} /\ S \subseteq Carts /\ node.carts = S /\ first = "cart"
        /\ node.saved /\ node.commande # "annuler"
    BY <1>0, <1>4 DEF Fits
  <2>2. Shape(r)'
    BY <1>1, <1>4, <2>1 DEF Shape, StepsOf
  <2>3. Mine(r)' = S
    BY <1>1, <2>1 DEF Mine
  <2>4. \A c \in S : Pending(r, c)'
    BY <1>1, <1>4, <2>1 DEF Pending
  <2> QED BY <1>3, <1>4, <2>2, <2>3, <2>4
<1>5. CASE op = "status"
  <2>1. S = {} /\ node.carts = order[o].carts /\ node.saved /\ first = "order"
    BY <1>0, <1>5 DEF Fits, StepsOf
  <2>2. Shape(r)'
    BY <1>1, <1>5, <2>1 DEF Shape, StepsOf
  <2>3. Mine(r)' \subseteq order[o].carts
    BY <1>1, <1>2, <2>1 DEF Mine
  <2> QED BY <1>1, <1>3, <1>5, <2>2, <2>3 DEF Pending
<1>6. CASE op = "cancel"
  <2>1. /\ S # {} /\ S = order[o].carts /\ node.carts = S /\ node.saved
        /\ node.commande = "annuler" /\ first = "load"
    BY <1>0, <1>6 DEF Fits
  <2>2. Shape(r)'
    BY <1>1, <1>6, <2>1 DEF Shape, StepsOf
  <2>3. Mine(r)' \subseteq order[o].carts
    BY <1>1, <2>1 DEF Mine
  <2> QED BY <1>1, <1>3, <1>6, <2>2, <2>3 DEF Pending
<1>7. CASE op \in LineOps
  <2>1. PICK c \in order[o].carts :
          /\ S = {c} /\ c \in Carts /\ node.saved
          /\ op # "delete" => node = order[o]
          /\ op = "delete" => node.carts = order[o].carts \ {c} /\ first = "move"
    BY <1>0, <1>7 DEF Fits
  <2>2. at'[r] = c /\ todo'[r] = {}
    BY <1>1, <2>1
  <2>3. first \in StepsOf(op)
    BY <1>0 DEF Fits
  <2>4. Shape(r)'
    BY <1>1, <1>7, <2>1, <2>2, <2>3 DEF Shape, StepsOf, LineOps
  <2>5. Mine(r)' \subseteq order[o].carts
    BY <1>1, <2>1, <2>2 DEF Mine
  <2> QED BY <1>1, <1>3, <1>7, <2>4, <2>5 DEF Pending, LineOps
<1> QED BY <1>0, <1>4, <1>5, <1>6, <1>7 DEF Fits, Ops, LineOps

(* Its lines are its own, or those of an order nobody else is working on.  *)
LEMMA OpenKeepsLines ==
  ASSUME TypeOK, LinesOwned, LinesInv, NEW r \in Requests, Opens(r)
  PROVE  LinesInv'
<1>0. PICK op, o, node, lines, S, first : Opened(r, op, o, node, lines, S, first)
  BY DEF Opens
<1>1. Fits(op, o, node, lines, S, first)
  BY <1>0 DEF Opened
<1>2. /\ pc'[r] = first /\ job'[r].op = op /\ job'[r].nid = o /\ job'[r].order = node
      /\ at'[r] \in (IF S = {} THEN {NoCart} ELSE S)
      /\ UNCHANGED <<cart, order>>
      /\ \A q \in Requests \ {r} :
           /\ pc'[q] = pc[q] /\ job'[q] = job[q]
           /\ at'[q] = at[q] /\ todo'[q] = todo[q]
  BY <1>0 DEF Opened
<1>3. /\ Shape(r)' /\ Running(r)'
      /\ op = "sale" => Mine(r)' = S /\ \A c \in S : Pending(r, c)'
      /\ op # "sale" => Mine(r)' \subseteq order[o].carts /\ \A c : ~Pending(r, c)'
  BY <1>0, OpenShape
<1>4. o \in Orders /\ \A a \in Orders : order[a].carts \subseteq Carts
  BY <1>1 DEF Fits, TypeOK, OrderNode
<1>5. \A a \in Orders : OrderOK(a)'
  BY <1>2 DEF LinesInv, OrderOK
<1>6. \A q \in Requests \ {r} : RunningOK(q)'
  <2> SUFFICES ASSUME NEW q \in Requests \ {r}, RunningOK(q)
               PROVE  RunningOK(q)'
    BY DEF LinesInv
  <2>1. /\ Running(q)' <=> Running(q)
        /\ Shape(q)' <=> Shape(q)
        /\ Mine(q)' = Mine(q)
        /\ \A c : Pending(q, c)' <=> Pending(q, c)
    BY <1>2, OthersSame
  <2>2. Own(q) => Own(q)'
    BY <1>2, <2>1 DEF Own, InUse
  <2>3. Follows(q) => Follows(q)'
    BY <1>2, <2>1 DEF Follows
  <2> QED BY <1>2, <2>1, <2>2, <2>3 DEF RunningOK
<1>7. Own(r)'
  <2>1. CASE op = "sale"
    <3>1. /\ ~order[o].saved /\ \A c \in S : ~InUse(c)
      BY <1>1, <2>1 DEF Fits, InUse
    <3>2. order[o] = Blank
      BY <1>4, <3>1 DEF LinesInv, OrderOK
    <3>3. \A a \in Orders : S \cap order[a].carts = {}
      BY <3>1 DEF LinesOwned
    <3> QED BY <1>2, <1>3, <2>1, <3>1, <3>2, <3>3 DEF Own, InUse
  <2>2. CASE op # "sale"
    <3>1. \A c \in order[o].carts : InUse(c)
      BY <1>4 DEF LinesOwned
    <3>2. \A a \in Orders \ {o} : order[o].carts \cap order[a].carts = {}
      BY <1>4 DEF LinesOwned, CartsNotShared
    <3> QED BY <1>2, <1>3, <2>2, <3>1, <3>2 DEF Own, InUse
  <2> QED BY <2>1, <2>2
<1>8. o \notin SharedOrders => Follows(r)'
  <2> SUFFICES ASSUME o \notin SharedOrders PROVE Follows(r)'
    OBVIOUS
  <2>1. op # "status" => order[o].commande # "annuler"
    BY <1>1 DEF Fits
  <2>2. op # "sale" => order[o].saved
    BY <1>1 DEF Fits
  <2>3. CASE op = "sale"
    BY <1>1, <1>2, <1>3, <2>1, <2>3 DEF Follows, Fits
  <2>4. CASE op \in {"status", "cancel"}
    BY <1>1, <1>2, <2>1, <2>2, <2>4 DEF Follows, Fits
  <2>5. CASE op \in LineOps
    <3>1. PICK c \in order[o].carts :
            /\ S = {c}
            /\ op # "delete" => node = order[o]
            /\ op = "delete" => /\ node.carts = order[o].carts \ {c} /\ first = "move"
                                /\ node.commande = order[o].commande
      BY <1>1, <2>5 DEF Fits
    <3>2. at'[r] = c
      BY <1>2, <3>1
    <3> QED BY <1>2, <2>1, <2>2, <2>5, <3>1, <3>2 DEF Follows, LineOps
  <2> QED BY <1>1, <2>3, <2>4, <2>5 DEF Fits, Ops, LineOps
<1>9. ASSUME NEW q \in Requests \ {r}, Running(q)
      PROVE  /\ o # job[q].nid => Mine(r)' \cap Mine(q) = {}
             /\ o = job[q].nid => /\ o \in SharedOrders
                                  /\ op # "sale" /\ job[q].op # "sale"
  <2>1. Shape(q) /\ Own(q)
    BY <1>9 DEF LinesInv, RunningOK
  <2>2. o = job[q].nid => Busy(o)
    BY <1>9 DEF Busy, Running
  <2>3. CASE op = "sale"
    <3>1. /\ ~Busy(o) /\ \A c \in S : ~InUse(c) /\ c \notin job[q].order.carts
      BY <1>1, <2>3 DEF Fits, InUse
    <3>2. at[q] \notin S
      <4>1. SUFFICES ASSUME at[q] \in S PROVE FALSE
        OBVIOUS
      <4>2. at[q] \in Mine(q) /\ ~InUse(at[q])
        BY <1>1, <2>3, <3>1, <4>1 DEF Mine, Fits
      <4>3. Pending(q, at[q])
        BY <2>1, <4>2 DEF Own
      <4> QED BY <2>1, <3>1, <4>1, <4>3 DEF Pending, Shape
    <3>3. S \cap Mine(q) = {}
      BY <3>1, <3>2 DEF Mine
    <3> QED BY <1>3, <2>2, <2>3, <3>1, <3>3
  <2>4. CASE op # "sale"
    <3>1. order[o].saved /\ (o \in SharedOrders \/ ~Busy(o))
      BY <1>1, <2>4 DEF Fits
    <3>2. o = job[q].nid => job[q].op # "sale"
      BY <2>1, <3>1 DEF Own, Blank
    <3>3. o # job[q].nid => order[o].carts \cap Mine(q) = {}
      BY <1>4, <2>1 DEF Own
    <3> QED BY <1>3, <2>2, <2>4, <3>1, <3>2, <3>3
  <2> QED BY <2>3, <2>4
<1>10. \A q1, q2 \in Requests : q1 # q2 /\ Running(q1)' /\ Running(q2)' => Apart(q1, q2)'
  <2> SUFFICES ASSUME NEW q1 \in Requests, NEW q2 \in Requests, q1 # q2,
                      Running(q1)', Running(q2)'
               PROVE  Apart(q1, q2)'
    OBVIOUS
  <2>1. \A q \in Requests \ {r} : (Running(q)' <=> Running(q)) /\ Mine(q)' = Mine(q)
    BY <1>2, OthersSame
  <2>2. CASE q1 # r /\ q2 # r
    <3>1. Apart(q1, q2)
      BY <2>1, <2>2 DEF LinesInv
    <3> QED BY <1>2, <2>1, <2>2, <3>1 DEF Apart
  <2>3. CASE q1 = r
    BY <1>2, <1>9, <2>1, <2>3 DEF Apart
  <2>4. CASE q2 = r
    BY <1>2, <1>9, <2>1, <2>4 DEF Apart
  <2> QED BY <2>2, <2>3, <2>4
<1>11. RunningOK(r)'
  BY <1>2, <1>3, <1>7, <1>8 DEF RunningOK
<1> QED BY <1>5, <1>6, <1>10, <1>11 DEF LinesInv

-----------------------------------------------------------------------------
(* A request goes on.                                                      *)

\* From one step to the next, at the same line or at another one.
Stays(r) ==
  /\ at'[r] = at[r] /\ todo'[r] = todo[r]
  /\ <<job[r].op, pc[r], pc'[r]>> \in
       {<<"cancel", "load", "move">>, <<"sale", "cart", "move">>,
        <<"price", "cart", "order">>, <<"quantity", "move", "cart">>,
        <<"quantity", "cart", "order">>, <<"delete", "move", "order">>,
        <<"delete", "order", "drop">>}

MovesOn(r) ==
  /\ \/ job[r].op = "sale" /\ pc[r] = "move"
     \/ job[r].op = "cancel" /\ pc[r] \in {"load", "move"}
  /\ \/ pc'[r] = "order" /\ todo[r] = {} /\ at'[r] = at[r] /\ todo'[r] = todo[r]
     \/ /\ pc'[r] = IF job[r].op = "sale" THEN "cart" ELSE "load"
        /\ at'[r] \in todo[r] /\ todo'[r] = todo[r] \ {at'[r]}

(* A request that does not end takes one of these steps.                   *)
LEMMA SelfAdvances ==
  ASSUME TypeOK, RequestsOK, NEW r \in Requests, Save(r) \/ Fail(r), Shape(r),
         pc'[r] # "idle"
  PROVE  Stays(r) \/ MovesOn(r)
<1>1. ~Fail(r) /\ ~DropCart(r)
  BY GotoEffect DEF Fail, DropCart
<1>2. pc[r] \in StepsOf(job[r].op) /\ job[r].op \in Ops
  <2>1. job[r] \in Job
    BY DEF TypeOK
  <2> QED BY <2>1 DEF Shape, Job
<1>3. CASE CancelLoad(r)
  <2>1. pc[r] = "load" /\ job[r].op = "cancel"
    BY <1>2, <1>3 DEF CancelLoad, StepsOf, Ops
  <2>2. CASE NextLine(r, "load")
    BY <2>1, <2>2, NextLineEffect DEF MovesOn
  <2>3. CASE ~NextLine(r, "load")
    <3>1. pc' = [pc EXCEPT ![r] = "move"] /\ UNCHANGED <<at, todo>>
      BY <1>3, <2>3 DEF CancelLoad
    <3> QED BY <2>1, <3>1 DEF Stays, TypeOK
  <2> QED BY <2>2, <2>3
<1>4. CASE SaveCart(r)
  <2>1. pc[r] = "cart" /\ job[r].op \in {"sale", "price", "purchase", "quantity"}
    BY <1>2, <1>4 DEF SaveCart, StepsOf, Ops
  <2>2. /\ job[r].op = "sale" => Goto(r, "move")
        /\ job[r].op \in {"price", "quantity"} => Goto(r, "order")
        /\ job[r].op = "purchase" => Goto(r, "idle")
    BY <1>4, <2>1 DEF SaveCart
  <2> QED BY <2>1, <2>2, GotoEffect DEF Stays
<1>5. CASE SaveMovement(r)
  <2>1. pc[r] = "move" /\ job[r].op \in {"sale", "cancel", "quantity", "delete"}
    BY <1>2, <1>5 DEF SaveMovement, StepsOf, Ops
  <2>2. /\ job[r].op = "sale" => NextLine(r, "cart")
        /\ job[r].op = "cancel" => NextLine(r, "load")
        /\ job[r].op = "quantity" => pc'[r] = "cart" /\ UNCHANGED <<at, todo>>
        /\ job[r].op = "delete" => pc'[r] = "order" /\ UNCHANGED <<at, todo>>
    BY <1>5, <2>1, SaveMovementEffect
  <2>3. CASE job[r].op \in {"sale", "cancel"}
    BY <2>1, <2>2, <2>3, NextLineEffect DEF MovesOn
  <2>4. CASE job[r].op \in {"quantity", "delete"}
    BY <2>1, <2>2, <2>4 DEF Stays
  <2> QED BY <2>1, <2>3, <2>4
<1>6. CASE SaveOrder(r)
  <2>1. pc[r] = "order" /\ Goto(r, IF job[r].op = "delete" THEN "drop" ELSE "idle")
    BY <1>6 DEF SaveOrder
  <2> QED BY <2>1, GotoEffect DEF Stays
<1> QED BY <1>1, <1>3, <1>4, <1>5, <1>6 DEF Save

(* The lines it may write become no more, and the line saved is there.     *)
LEMMA SelfKeepsShape ==
  ASSUME TypeOK, RequestsOK, NEW r \in Requests, Save(r) \/ Fail(r), Shape(r),
         pc'[r] # "idle"
  PROVE  /\ Shape(r)' /\ Mine(r)' \subseteq Mine(r)
         /\ \A c : Pending(r, c)' <=> Pending(r, c) /\ ~(pc[r] = "cart" /\ c = at[r])
<1>1. /\ job'[r].op = job[r].op /\ job'[r].nid = job[r].nid
      /\ job'[r].order = job[r].order
  BY StepEffect
<1>2. CASE Stays(r)
  BY <1>1, <1>2 DEF Stays, Shape, StepsOf, Mine, Pending
<1>3. CASE MovesOn(r)
  <2>1. CASE job[r].op = "sale"
    BY <1>1, <1>3, <2>1 DEF MovesOn, Shape, StepsOf, Mine, Pending
  <2>2. CASE job[r].op = "cancel"
    BY <1>1, <1>3, <2>2 DEF MovesOn, Shape, StepsOf, Mine, Pending
  <2> QED BY <1>3, <2>1, <2>2 DEF MovesOn
<1> QED BY <1>2, <1>3, SelfAdvances

(* A step writes at most the line the request is at.                       *)
LEMMA StepWrites ==
  ASSUME TypeOK, RequestsOK, NEW r \in Requests, Save(r) \/ Fail(r)
  PROVE  /\ \A c \in Carts \ {at[r]} : cart'[c] = cart[c]
         /\ pc[r] \notin {"cart", "drop"} => UNCHANGED cart
         /\ at[r] \notin Carts => UNCHANGED cart
         /\ pc[r] = "cart" /\ ~ UNCHANGED cart =>
              cart[at[r]].state # "deleted" /\ cart'[at[r]].state = "saved"
         /\ pc[r] = "cart" /\ pc'[r] # "idle" =>
              \/ cart[at[r]].state = "deleted"
              \/ cart'[at[r]].state = "saved"
         /\ \A c \in Carts : InUse(c) => InUse(c)'
<1>1. CASE CancelLoad(r) \/ SaveMovement(r) \/ SaveOrder(r) \/ Fail(r)
  <2>1. UNCHANGED cart
    BY <1>1 DEF CancelLoad, SaveMovement, SaveOrder, Fail, dbVars
  <2>2. pc[r] = "cart" => Fail(r)
    BY <1>1 DEF CancelLoad, SaveMovement, SaveOrder
  <2>3. Fail(r) => pc'[r] = "idle"
    BY GotoEffect DEF Fail
  <2> QED BY <2>1, <2>2, <2>3 DEF InUse
<1>2. CASE SaveCart(r)
  <2>1. pc[r] = "cart" /\ at[r] \in Carts
    BY <1>2 DEF SaveCart, RequestsOK, RequestOK
  <2>2. /\ cart[at[r]].state = "deleted" => UNCHANGED cart
        /\ cart[at[r]].state # "deleted" => cart'[at[r]].state = "saved"
        /\ \A c \in Carts \ {at[r]} : cart'[c] = cart[c]
    BY <1>2, <2>1 DEF SaveCart, TypeOK
  <2> QED BY <2>1, <2>2 DEF InUse
<1>3. CASE DropCart(r)
  <2>1. pc[r] = "drop" /\ at[r] \in Carts
    BY <1>3 DEF DropCart, RequestsOK, RequestOK
  <2>2. /\ \A c \in Carts \ {at[r]} : cart'[c] = cart[c]
        /\ cart'[at[r]].state = "deleted"
    BY <1>3, <2>1 DEF DropCart, FreshCart, TypeOK
  <2> QED BY <2>1, <2>2 DEF InUse
<1> QED BY <1>1, <1>2, <1>3 DEF Save

(* A step saves at most the order of the request, as the request has it.   *)
LEMMA StepSaves ==
  ASSUME TypeOK, RequestsOK, NEW r \in Requests, Save(r) \/ Fail(r)
  PROVE  /\ job[r].nid \in Orders
         /\ \A o \in Orders \ {job[r].nid} : order'[o] = order[o]
         /\ \/ order'[job[r].nid] = order[job[r].nid]
            \/ pc[r] = "order" /\ order'[job[r].nid] = job[r].order
         /\ pc[r] # "order" => UNCHANGED order
         /\ pc[r] = "order" /\ pc'[r] # "idle" =>
              job[r].op = "delete" /\ order'[job[r].nid] = job[r].order
<1>1. job[r].nid \in Orders
  BY StepEffect DEF RequestsOK, RequestOK
<1>2. CASE SaveOrder(r)
  <2>1. /\ pc[r] = "order" /\ order' = [order EXCEPT ![job[r].nid] = job[r].order]
        /\ Goto(r, IF job[r].op = "delete" THEN "drop" ELSE "idle")
    BY <1>2 DEF SaveOrder
  <2>2. pc'[r] # "idle" => job[r].op = "delete"
    BY <2>1, GotoEffect
  <2> QED BY <1>1, <2>1, <2>2 DEF TypeOK
<1>3. CASE ~SaveOrder(r)
  <2>1. UNCHANGED order
    BY <1>3, StepEffect
  <2>2. pc[r] = "order" => Fail(r)
    BY <1>3 DEF Save, CancelLoad, SaveCart, SaveMovement, DropCart
  <2>3. Fail(r) => pc'[r] = "idle"
    BY GotoEffect DEF Fail
  <2> QED BY <1>1, <2>1, <2>2, <2>3
<1> QED BY <1>2, <1>3

(* An order that is not shared keeps only lines that are saved.            *)
LEMMA StepKeepsOrders ==
  ASSUME TypeOK, RequestsOK, LinesInv, NEW r \in Requests, Save(r) \/ Fail(r),
         NEW o \in Orders
  PROVE  OrderOK(o)'
<1>1. Running(r) /\ Shape(r) /\ Own(r) /\ (job[r].nid \notin SharedOrders => Follows(r))
  BY StepEffect DEF Running, LinesInv, RunningOK
<1>2. OrderOK(o)
  BY DEF LinesInv
<1>3. order[o].carts \subseteq Carts /\ job[r].order.carts \subseteq Carts
  BY DEF TypeOK, Job, OrderNode
<1>4. order'[o].saved \/ order'[o] = Blank
  BY <1>1, <1>2, StepSaves DEF OrderOK, Shape
<1>5. ASSUME o \notin SharedOrders, NEW c \in order'[o].carts
      PROVE  cart'[c].state = "saved"
  <2>1. \A d \in order[o].carts : cart[d].state = "saved"
    BY <1>2, <1>5 DEF OrderOK
  <2>2. CASE o # job[r].nid
    <3>1. order'[o] = order[o] /\ at[r] \notin order[o].carts
      BY <1>1, <1>3, <2>2, StepSaves DEF Own, Mine
    <3> QED BY <1>3, <1>5, <2>1, <3>1, StepWrites
  <2>3. CASE o = job[r].nid /\ order'[o] = order[o]
    <3>1. CASE pc[r] = "drop"
      <4>1. job[r].op = "delete"
        <5>1. job[r].op \in Ops
          BY DEF TypeOK, Job
        <5> QED BY <1>1, <3>1, <5>1 DEF Shape, StepsOf, Ops
      <4>2. at[r] \notin order[o].carts
        BY <1>1, <1>5, <2>3, <3>1, <4>1 DEF Shape, Follows
      <4> QED BY <1>3, <1>5, <2>1, <2>3, <4>2, StepWrites
    <3>2. CASE pc[r] # "drop"
      BY <1>3, <1>5, <2>1, <2>3, <3>2, StepWrites
    <3> QED BY <3>1, <3>2
  <2>4. CASE o = job[r].nid /\ order'[o] # order[o]
    <3>1. pc[r] = "order" /\ order'[o] = job[r].order /\ UNCHANGED cart
      BY <2>4, StepSaves, StepWrites
    <3>2. Follows(r) /\ todo[r] = {}
      BY <1>1, <1>5, <2>4, <3>1 DEF Shape
    <3>3. CASE job[r].op = "sale"
      BY <1>5, <3>1, <3>2, <3>3 DEF Follows, Pending
    <3>4. CASE job[r].op # "sale"
      <4>1. job[r].op \in Ops
        BY DEF TypeOK, Job
      <4>2. job[r].order.carts \subseteq order[o].carts
        BY <2>4, <3>1, <3>2, <3>4, <4>1 DEF Follows, Ops
      <4> QED BY <1>5, <2>1, <3>1, <4>2
    <3> QED BY <3>3, <3>4
  <2> QED BY <2>2, <2>3, <2>4
<1> QED BY <1>4, <1>5 DEF OrderOK

(* A request leaves the lines and the order of another one alone.          *)
LEMMA StepKeepsOthers ==
  ASSUME TypeOK, RequestsOK, LinesInv, NEW r \in Requests, Save(r) \/ Fail(r),
         NEW q \in Requests \ {r}, Running(q)
  PROVE  RunningOK(q)'
<1>1. Running(r) /\ Shape(r) /\ Own(r)
  BY StepEffect DEF Running, LinesInv, RunningOK
<1>2. Shape(q) /\ Own(q) /\ (job[q].nid \notin SharedOrders => Follows(q)) /\ Apart(r, q)
  BY <1>1 DEF LinesInv, RunningOK
<1>3. /\ pc'[q] = pc[q] /\ job'[q] = job[q] /\ at'[q] = at[q] /\ todo'[q] = todo[q]
      /\ job[r].nid \in Orders
      /\ Shape(q)' /\ Mine(q)' = Mine(q)
      /\ \A c : Pending(q, c)' <=> Pending(q, c)
  BY <1>2, StepEffect, StepSaves, OthersSame
<1>4. /\ job[r].order.carts \subseteq Carts /\ job[q].order.carts \subseteq Carts
      /\ \A o \in Orders : order[o].carts \subseteq Carts
      /\ job[q].nid \in Orders
  BY DEF TypeOK, Job, OrderNode, RequestsOK, RequestOK, Running
<1>5. ASSUME NEW c \in Mine(q)
      PROVE  InUse(c)' <=> InUse(c)
  <2>1. c \in Carts
    BY DEF Mine
  <2>2. CASE c # at[r]
    BY <2>1, <2>2, StepWrites DEF InUse
  <2>3. CASE c = at[r]
    <3>1. c \in Mine(r)
      BY <2>1, <2>3 DEF Mine
    <3>2. InUse(c)
      BY <1>1, <1>2, <1>5, <3>1 DEF Apart, Own, Pending
    <3> QED BY <2>1, <3>2, StepWrites
  <2> QED BY <2>2, <2>3
<1>6. Own(q)'
  <2>1. \A o \in Orders \ {job[q].nid} : Mine(q) \cap order'[o].carts = {}
    <3>1. job[r].nid # job[q].nid => Mine(q) \cap job[r].order.carts = {}
      BY <1>2, <1>4 DEF Apart, Mine
    <3> QED BY <1>2, <3>1, StepSaves DEF Own
  <2>2. job[q].op = "sale" => order'[job[q].nid] = Blank
    BY <1>2, <1>4, StepSaves DEF Own, Apart
  <2>3. \A c \in Mine(q) : InUse(c) <=> ~Pending(q, c)
    BY <1>2 DEF Own
  <2> QED BY <1>3, <1>5, <2>1, <2>2, <2>3 DEF Own
<1>7. ASSUME job[q].nid \notin SharedOrders
      PROVE  Follows(q)'
  <2>1. Follows(q) /\ job[r].nid # job[q].nid
    BY <1>2, <1>7 DEF Apart
  <2>2. order'[job[q].nid] = order[job[q].nid]
    BY <1>4, <2>1, StepSaves
  <2>3. \A c \in job[q].order.carts : cart'[c] = cart[c]
    <3>1. Mine(r) \cap Mine(q) = {}
      BY <1>2, <2>1 DEF Apart
    <3>2. at[r] \notin Carts \/ at[r] \notin job[q].order.carts
      BY <1>4, <3>1 DEF Mine
    <3> QED BY <1>4, <3>2, StepWrites
  <2> QED BY <1>3, <2>1, <2>2, <2>3 DEF Follows
<1> QED BY <1>3, <1>6, <1>7 DEF RunningOK

(* A request keeps its own lines, and its order as it has read it.         *)
LEMMA StepKeepsSelf ==
  ASSUME TypeOK, RequestsOK, LinesInv, NEW r \in Requests, Save(r) \/ Fail(r),
         pc'[r] # "idle"
  PROVE  RunningOK(r)'
<1>1. Running(r) /\ Shape(r) /\ Own(r) /\ (job[r].nid \notin SharedOrders => Follows(r))
  BY StepEffect DEF Running, LinesInv, RunningOK
<1>2. /\ Shape(r)' /\ Mine(r)' \subseteq Mine(r)
      /\ \A c : Pending(r, c)' <=> Pending(r, c) /\ ~(pc[r] = "cart" /\ c = at[r])
  BY <1>1, SelfKeepsShape
<1>3. /\ job'[r].op = job[r].op /\ job'[r].nid = job[r].nid
      /\ job'[r].order = job[r].order
  BY StepEffect
<1>4. /\ job[r].nid \in Orders /\ job[r].op \in Ops
      /\ job[r].order.carts \subseteq Carts
  BY StepSaves DEF TypeOK, Job, OrderNode
<1>5. pc[r] # "drop"
  <2>1. Stays(r) \/ MovesOn(r)
    BY <1>1, SelfAdvances
  <2> QED BY <2>1 DEF Stays, MovesOn
<1>6. ASSUME NEW c \in Mine(r)
      PROVE  InUse(c)' <=> ~Pending(r, c)'
  <2>1. c \in Carts /\ (InUse(c) <=> ~Pending(r, c))
    BY <1>1 DEF Mine, Own
  <2>2. CASE pc[r] = "cart" /\ c = at[r]
    <3>1. ~Pending(r, c)'
      BY <1>2, <2>2
    <3>2. InUse(c)'
      BY <2>1, <2>2, StepWrites DEF InUse
    <3> QED BY <3>1, <3>2
  <2>3. CASE pc[r] # "cart"
    BY <1>2, <1>5, <2>1, <2>3, StepWrites DEF InUse
  <2>4. CASE c # at[r]
    BY <1>2, <2>1, <2>4, StepWrites DEF InUse
  <2> QED BY <2>2, <2>3, <2>4
<1>7. Own(r)'
  <2>1. \A o \in Orders \ {job[r].nid} : Mine(r) \cap order'[o].carts = {}
    BY <1>1, StepSaves DEF Own
  <2>2. job[r].op = "sale" => order'[job[r].nid] = Blank
    BY <1>1, StepSaves DEF Own
  <2> QED BY <1>2, <1>3, <1>6, <2>1, <2>2 DEF Own
<1>8. ASSUME job[r].nid \notin SharedOrders
      PROVE  Follows(r)'
  <2>1. Follows(r)
    BY <1>1, <1>8
  <2>2. CASE job[r].op = "sale"
    <3>1. order'[job[r].nid] = order[job[r].nid]
      BY <2>2, StepSaves
    <3>2. ASSUME NEW c \in job[r].order.carts
          PROVE  Pending(r, c)' \/ cart'[c].state = "saved"
      <4>1. c \in Carts /\ (Pending(r, c) \/ cart[c].state = "saved")
        BY <1>4, <2>1, <2>2 DEF Follows
      <4>2. Pending(r, c) => cart[c].state = "unused"
        BY <1>1, <4>1 DEF Own, Mine, InUse
      <4> QED BY <1>2, <1>5, <4>1, <4>2, StepWrites
    <3> QED BY <1>3, <2>1, <2>2, <3>1, <3>2 DEF Follows
  <2>3. CASE job[r].op \in {"status", "cancel", "price", "purchase", "quantity"}
    <3>1. order'[job[r].nid] = order[job[r].nid]
      BY <2>3, StepSaves
    <3> QED BY <1>3, <2>1, <2>3, <3>1 DEF Follows
  <2>4. CASE job[r].op = "delete"
    <3>1. Stays(r)
      BY <1>1, <2>4, SelfAdvances DEF MovesOn
    <3>2. CASE pc[r] = "order"
      <4>1. order'[job[r].nid] = job[r].order /\ pc'[r] = "drop"
        BY <2>4, <3>1, <3>2, StepSaves DEF Stays
      <4> QED BY <1>1, <1>3, <2>1, <2>4, <3>2, <4>1 DEF Follows, Shape
    <3>3. CASE pc[r] # "order"
      <4>1. /\ order'[job[r].nid] = order[job[r].nid] /\ pc'[r] = "order"
            /\ pc[r] = "move" /\ at'[r] = at[r]
        BY <1>4, <2>4, <3>1, <3>3, StepSaves DEF Stays
      <4> QED BY <1>3, <2>1, <2>4, <4>1 DEF Follows
    <3> QED BY <3>2, <3>3
  <2> QED BY <1>4, <2>2, <2>3, <2>4 DEF Ops
<1> QED BY <1>2, <1>3, <1>7, <1>8 DEF RunningOK

LEMMA StepKeepsLinesInv ==
  ASSUME TypeOK, RequestsOK, LinesInv, NEW r \in Requests, Save(r) \/ Fail(r)
  PROVE  LinesInv'
<1>1. \A o \in Orders : OrderOK(o)'
  BY StepKeepsOrders
<1>2. \A q \in Requests \ {r} : /\ pc'[q] = pc[q] /\ job'[q] = job[q]
                                /\ at'[q] = at[q] /\ todo'[q] = todo[q]
  BY StepEffect
<1>3. \A q \in Requests : RunningOK(q)'
  BY <1>2, StepKeepsOthers, StepKeepsSelf DEF RunningOK, Running
<1>4. Running(r) /\ Shape(r)
  BY StepEffect DEF Running, LinesInv, RunningOK
<1>5. pc'[r] # "idle" => /\ Mine(r)' \subseteq Mine(r) /\ job'[r].op = job[r].op
                         /\ job'[r].nid = job[r].nid
  BY <1>4, StepEffect, SelfKeepsShape
<1>6. \A q1, q2 \in Requests : q1 # q2 /\ Running(q1)' /\ Running(q2)' => Apart(q1, q2)'
  <2> SUFFICES ASSUME NEW q1 \in Requests, NEW q2 \in Requests, q1 # q2,
                      Running(q1)', Running(q2)'
               PROVE  Apart(q1, q2)'
    OBVIOUS
  <2>1. Running(q1) /\ Running(q2) /\ Apart(q1, q2)
    BY <1>2, <1>4 DEF Running, LinesInv
  <2>2. \A q \in {q1, q2} : /\ Mine(q)' \subseteq Mine(q) /\ job'[q].op = job[q].op
                            /\ job'[q].nid = job[q].nid
    BY <1>2, <1>5, OthersSame DEF Running
  <2> QED BY <2>1, <2>2 DEF Apart
<1> QED BY <1>1, <1>3, <1>6 DEF LinesInv

(* So the invariant of the lines holds in every behaviour.                 *)
LEMMA LinesInvariant == Spec => []LinesInv
<1>1. Init => LinesInv
  BY DEF Init, LinesInv, OrderOK, RunningOK, Running, Blank
<1>2. TypeOK /\ RequestsOK /\ LinesOwned /\ LinesInv /\ [Next]_vars => LinesInv'
  <2> SUFFICES ASSUME TypeOK, RequestsOK, LinesOwned, LinesInv, [Next]_vars
               PROVE  LinesInv'
    OBVIOUS
  <2>1. ASSUME NEW r \in Requests, Receive(r)
        PROVE  LinesInv'
    <3>1. \A o \in Orders : OrderOK(o)
      BY DEF LinesInv
    <3> QED BY <2>1, <3>1, ReceiveOpens, OpenKeepsLines
  <2>2. ASSUME NEW r \in Requests, Save(r) \/ Fail(r)
        PROVE  LinesInv'
    BY <2>2, StepKeepsLinesInv
  <2>3. CASE UNCHANGED vars
    BY <2>3 DEF vars, LinesInv, OrderOK, RunningOK, Running, Shape, Own, Follows,
                Apart, Mine, Pending, InUse
  <2> QED BY <2>1, <2>2, <2>3 DEF Next
<1> QED BY <1>1, <1>2, TypeCorrect, LinesStayOwned, PTL DEF Spec

(* An order that is worked on by one request at a time never refers to a   *)
(* line that is not there, whatever runs beside and wherever it stops.     *)
THEOREM LinesAlwaysExist == Spec => []LinesExist
<1>1. LinesInv => LinesExist
  BY DEF LinesInv, OrderOK, LinesExist
<1> QED BY <1>1, LinesInvariant, PTL

-----------------------------------------------------------------------------
(* A cancelled order, and the pieces of its lines.                         *)

(* A step moves at most the pieces of the line the request is at.          *)
LEMMA StepMoves ==
  ASSUME TypeOK, RequestsOK, NEW r \in Requests, Save(r) \/ Fail(r)
  PROVE  /\ \A c \in Carts \ {at[r]} : sold'[c] = sold[c]
         /\ pc[r] # "move" => UNCHANGED sold
         /\ pc[r] = "move" /\ pc'[r] # "idle" =>
              /\ at[r] \in Carts /\ job[r].lines[at[r]].move \in Int
              /\ sold'[at[r]] = sold[at[r]] - job[r].lines[at[r]].move
<1>1. CASE SaveMovement(r)
  <2>1. pc[r] = "move" /\ at[r] \in Carts
    BY <1>1 DEF SaveMovement, RequestsOK, RequestOK
  <2>2. job[r].lines[at[r]] \in Line
    BY <2>1 DEF TypeOK, Job
  <2>3. job[r].lines[at[r]].move \in Int
    BY <2>2 DEF Line
  <2>4. /\ \A c \in Carts \ {at[r]} : sold'[c] = sold[c]
        /\ sold'[at[r]] = sold[at[r]] - job[r].lines[at[r]].move
    BY <1>1, <2>1 DEF SaveMovement, TypeOK
  <2> QED BY <2>1, <2>3, <2>4
<1>2. CASE ~SaveMovement(r)
  <2>1. UNCHANGED sold
    BY <1>2, OtherStepHolds
  <2>2. pc[r] = "move" => Fail(r)
    BY <1>2 DEF Save, CancelLoad, SaveCart, SaveOrder, DropCart
  <2>3. Fail(r) => pc'[r] = "idle"
    BY GotoEffect DEF Fail
  <2> QED BY <2>1, <2>2, <2>3
<1> QED BY <1>1, <1>2

(* While an order stays cancelled, nothing edits it or its lines, nor moves *)
(* their pieces: when two requests never work on one order at a time, the  *)
(* check each of them makes at its start is enough.                        *)
THEOREM CancelledStaysClosed ==
  ASSUME SharedOrders = {}
  PROVE  Spec => CancelledIsClosed
<1> DEFINE Closed == \A o \in Orders : order[o].commande = "annuler" =>
             /\ order'[o].carts = order[o].carts
             /\ \A c \in order[o].carts : cart'[c] = cart[c] /\ sold'[c] = sold[c]
<1>1. TypeOK /\ RequestsOK /\ LinesInv /\ [Next]_vars => Closed \/ UNCHANGED vars
  <2> SUFFICES ASSUME TypeOK, RequestsOK, LinesInv, [Next]_vars
               PROVE  Closed \/ UNCHANGED vars
    OBVIOUS
  <2>1. ASSUME NEW r \in Requests, Receive(r)
        PROVE  Closed
    <3>1. Opens(r)
      BY <2>1, ReceiveOpens DEF LinesInv
    <3> QED BY <3>1 DEF Opens, Opened
  <2>2. ASSUME NEW r \in Requests, Save(r) \/ Fail(r), NEW o \in Orders,
               order[o].commande = "annuler"
        PROVE  /\ order'[o].carts = order[o].carts
               /\ \A c \in order[o].carts : cart'[c] = cart[c] /\ sold'[c] = sold[c]
    <3>1. Shape(r) /\ Own(r) /\ Follows(r)
      BY <2>2, StepEffect DEF Running, LinesInv, RunningOK
    <3>2. order[o].carts \subseteq Carts /\ job[r].op \in Ops
      BY DEF TypeOK, OrderNode, Job
    <3>3. CASE o = job[r].nid
      <4>1. job[r].op = "status" /\ job[r].order.carts = order[o].carts
        BY <2>2, <3>1, <3>3 DEF Follows
      <4>2. pc[r] = "order"
        BY <3>1, <4>1 DEF Shape, StepsOf
      <4> QED BY <2>2, <3>3, <4>1, <4>2, StepSaves, StepWrites, StepMoves
    <3>4. CASE o # job[r].nid
      <4>1. at[r] \notin order[o].carts
        BY <3>1, <3>2, <3>4 DEF Own, Mine
      <4> QED BY <2>2, <3>2, <3>4, <4>1, StepSaves, StepWrites, StepMoves
    <3> QED BY <3>3, <3>4
  <2> QED BY <2>1, <2>2 DEF Next
<1> QED BY <1>1, TypeCorrect, LinesInvariant, PTL DEF Spec, CancelledIsClosed

-----------------------------------------------------------------------------
(* The pieces of the lines of an order.                                    *)

\* The line c holds what it says.
Whole(c) == sold[c] = cart[c].qty

\* The pieces of the lines of the order of r while r goes through them, by
\* operation.
SalePieces(r) ==
  \A d \in job[r].order.carts :
    /\ Pending(r, d) => job[r].lines[d].move = -job[r].lines[d].qty
    /\ ~Pending(r, d) => IF pc[r] = "move" /\ d = at[r]
                         THEN sold[d] = 0 /\ job[r].lines[d].move = -cart[d].qty
                         ELSE Whole(d)

StatusPieces(r) ==
  /\ job[r].order.commande # "annuler"
  /\ \A d \in order[job[r].nid].carts : Whole(d)

CancelPieces(r) ==
  /\ \A d \in order[job[r].nid].carts :
       IF d \in todo[r] \/ (d = at[r] /\ pc[r] # "order") THEN Whole(d) ELSE sold[d] = 0
  /\ pc[r] = "move" => job[r].lines[at[r]].move = cart[at[r]].qty

PricePieces(r) ==
  /\ \A d \in order[job[r].nid].carts : Whole(d)
  /\ pc[r] = "cart" => job[r].lines[at[r]].qty = cart[at[r]].qty

QuantityPieces(r) ==
  /\ \A d \in order[job[r].nid].carts \ {at[r]} : Whole(d)
  /\ pc[r] # "cart" => Whole(at[r])
  /\ pc[r] = "move" =>
       job[r].lines[at[r]].move = cart[at[r]].qty - job[r].lines[at[r]].qty
  /\ pc[r] = "cart" => sold[at[r]] = job[r].lines[at[r]].qty

DeletePieces(r) ==
  /\ \A d \in order[job[r].nid].carts \ {at[r]} : Whole(d)
  /\ pc[r] = "move" => Whole(at[r]) /\ job[r].lines[at[r]].move = cart[at[r]].qty
  /\ pc[r] # "move" => sold[at[r]] = 0

Pieces(r) ==
  /\ job[r].op = "sale" => SalePieces(r)
  /\ job[r].op = "status" => StatusPieces(r)
  /\ job[r].op = "cancel" => CancelPieces(r)
  /\ job[r].op \in {"price", "purchase"} => PricePieces(r)
  /\ job[r].op = "quantity" => QuantityPieces(r)
  /\ job[r].op = "delete" => DeletePieces(r)

\* An order on which one request works at a time, and none stopped half-way.
Sound(o) == o \notin SharedOrders \cup torn

Settled(o) ==
  \A c \in order[o].carts : sold[c] = IF order[o].commande = "annuler" THEN 0 ELSE cart[c].qty

PiecesInv ==
  /\ \A c \in Carts : cart[c].state = "unused" => sold[c] = 0
  /\ \A o \in Orders : Sound(o) /\ ~Busy(o) => Settled(o)
  /\ \A r \in Requests : Running(r) /\ Sound(job[r].nid) => Pieces(r)

\* Clients cancel with CancelOrderLocal, and leave cancelled orders so.
NoStatusCancels == \A s \in StatusSteps : s[1] # "annuler" /\ s[2] # "annuler"

(* A request that starts finds the lines of its order whole.               *)
LEMMA OpenPieces ==
  ASSUME TypeOK, StatusesAgree, PiecesInv, NoStatusCancels, NEW r \in Requests,
         NEW op, NEW o, NEW node, NEW lines, NEW S, NEW first,
         Opened(r, op, o, node, lines, S, first), Sound(o)
  PROVE  Pieces(r)'
<1>0. Fits(op, o, node, lines, S, first)
  BY DEF Opened
<1>1. /\ pc'[r] = first /\ job'[r].op = op /\ job'[r].nid = o
      /\ job'[r].order = node /\ job'[r].lines = lines
      /\ at'[r] \in (IF S = {} THEN {NoCart} ELSE S) /\ todo'[r] = S \ {at'[r]}
      /\ UNCHANGED <<cart, order, sold>>
  BY DEF Opened
<1>2. o \in Orders /\ op \in Ops
  BY <1>0 DEF Fits
<1>3. CASE op = "sale"
  <2>1. node.carts = S /\ first = "cart" /\ \A c \in S : lines[c].move = -lines[c].qty
        /\ S # {}
    BY <1>0, <1>3 DEF Fits
  <2>2. \A c \in S : Pending(r, c)'
    BY <1>1, <1>3, <2>1 DEF Pending
  <2>3. SalePieces(r)'
    BY <1>1, <2>1, <2>2 DEF SalePieces
  <2> QED BY <1>1, <1>3, <2>3 DEF Pieces
<1>4. CASE op # "sale"
  <2>1. ~Busy(o)
    BY <1>0, <1>4 DEF Fits, Sound
  <2>2. order[o].commande # "annuler"
    <3>1. CASE op = "status"
      <4>1. PICK to : <<order[o].local, to>> \in StatusSteps
        BY <1>0, <3>1 DEF Fits
      <4>2. order[o].local # "annuler"
        BY <4>1 DEF NoStatusCancels
      <4> QED BY <1>2, <4>2 DEF StatusesAgree
    <3>2. CASE op # "status"
      BY <1>0, <3>2 DEF Fits
    <3> QED BY <3>1, <3>2
  <2>3. \A d \in order[o].carts : Whole(d)
    BY <1>2, <2>1, <2>2 DEF PiecesInv, Settled, Whole
  <2>4. \A d \in order[o].carts : Whole(d)'
    BY <1>1, <2>3 DEF Whole
  <2>5. CASE op = "status"
    <3>1. PICK to : <<order[o].local, to>> \in StatusSteps /\ node.commande = CommandeMap(to)
      BY <1>0, <2>5 DEF Fits
    <3>2. to # "annuler" /\ to \in LocalStatuses
      BY <3>1, ConstantsAssumption DEF NoStatusCancels
    <3>3. node.commande # "annuler"
      BY <3>1, <3>2 DEF CommandeMap, LocalStatuses
    <3>4. StatusPieces(r)'
      BY <1>1, <2>4, <3>3 DEF StatusPieces
    <3> QED BY <1>1, <2>5, <3>4 DEF Pieces
  <2>6. CASE op = "cancel"
    <3>1. S = order[o].carts /\ first = "load" /\ S # {}
      BY <1>0, <2>6 DEF Fits
    <3>2. CancelPieces(r)'
      BY <1>1, <2>4, <3>1 DEF CancelPieces
    <3> QED BY <1>1, <2>6, <3>2 DEF Pieces
  <2>7. CASE op \in LineOps
    <3>1. PICK c \in order[o].carts :
            /\ S = {c}
            /\ op = "delete" => first = "move" /\ lines[c].move = cart[c].qty
            /\ op \in {"price", "purchase"} => first = "cart" /\ lines[c].qty = cart[c].qty
            /\ op = "quantity" =>
                 IF first = "move" THEN lines[c].move = cart[c].qty - lines[c].qty
                 ELSE lines[c].qty = cart[c].qty
      BY <1>0, <2>7 DEF Fits
    <3>2. at'[r] = c /\ Whole(c)' /\ sold[c] = cart[c].qty
      BY <1>1, <2>3, <2>4, <3>1 DEF Whole
    <3>3. op \in {"price", "purchase"} => PricePieces(r)'
      BY <1>1, <2>4, <3>1, <3>2 DEF PricePieces
    <3>4. op = "quantity" => QuantityPieces(r)'
      BY <1>1, <2>4, <3>1, <3>2 DEF QuantityPieces
    <3>5. op = "delete" => DeletePieces(r)'
      BY <1>1, <2>4, <3>1, <3>2 DEF DeletePieces
    <3> QED BY <1>1, <2>7, <3>3, <3>4, <3>5 DEF Pieces, LineOps
  <2> QED BY <1>2, <1>4, <2>5, <2>6, <2>7 DEF Ops, LineOps
<1> QED BY <1>3, <1>4

(* What the pieces of the order of q depend on.                            *)
LEMMA PiecesSame ==
  ASSUME NEW q \in Requests, pc'[q] = pc[q], job'[q] = job[q], at'[q] = at[q],
         todo'[q] = todo[q], order'[job[q].nid] = order[job[q].nid],
         \A c \in order[job[q].nid].carts \cup job[q].order.carts :
           cart'[c] = cart[c] /\ sold'[c] = sold[c],
         job[q].op # "status" => cart'[at[q]] = cart[at[q]] /\ sold'[at[q]] = sold[at[q]],
         Pieces(q)
  PROVE  Pieces(q)'
<1>1. \A c : Pending(q, c)' <=> Pending(q, c)
  BY OthersSame
<1>2. SalePieces(q) => SalePieces(q)'
  BY <1>1 DEF SalePieces, Whole
<1>3. StatusPieces(q) => StatusPieces(q)'
  BY DEF StatusPieces, Whole
<1>4. job[q].op = "cancel" /\ CancelPieces(q) => CancelPieces(q)'
  BY DEF CancelPieces, Whole
<1>5. job[q].op \in {"price", "purchase"} /\ PricePieces(q) => PricePieces(q)'
  BY DEF PricePieces, Whole
<1>6. job[q].op = "quantity" /\ QuantityPieces(q) => QuantityPieces(q)'
  BY DEF QuantityPieces, Whole
<1>7. job[q].op = "delete" /\ DeletePieces(q) => DeletePieces(q)'
  BY DEF DeletePieces, Whole
<1> QED BY <1>2, <1>3, <1>4, <1>5, <1>6, <1>7 DEF Pieces

(* A request that starts leaves the other orders and requests as they are. *)
LEMMA OpenKeepsPieces ==
  ASSUME TypeOK, StatusesAgree, PiecesInv, NoStatusCancels, NEW r \in Requests, Opens(r)
  PROVE  PiecesInv'
<1>0. PICK op, o, node, lines, S, first : Opened(r, op, o, node, lines, S, first)
  BY DEF Opens
<1>1. /\ pc[r] = "idle" /\ job'[r].nid = o
      /\ UNCHANGED <<cart, order, sold, torn>>
      /\ pc'[r] = first /\ first \in StepsOf(op) /\ op \in Ops
      /\ \A q \in Requests \ {r} :
           /\ pc'[q] = pc[q] /\ job'[q] = job[q]
           /\ at'[q] = at[q] /\ todo'[q] = todo[q]
  BY <1>0 DEF Opened, Fits
<1>2. \A c \in Carts : cart'[c].state = "unused" => sold'[c] = 0
  BY <1>1 DEF PiecesInv
<1>3. \A a \in Orders : Sound(a)' <=> Sound(a)
  BY <1>1 DEF Sound
<1>4. \A a \in Orders : Busy(a) => Busy(a)'
  BY <1>1 DEF Busy
<1>5. \A a \in Orders : Sound(a)' /\ ~Busy(a)' => Settled(a)'
  BY <1>1, <1>3, <1>4 DEF PiecesInv, Settled
<1>6. ASSUME NEW q \in Requests, Running(q)', Sound(job[q].nid)'
      PROVE  Pieces(q)'
  <2>1. CASE q = r
    <3>1. Sound(o)
      BY <1>1, <1>6, <2>1 DEF Sound
    <3> QED BY <1>0, <2>1, <3>1, OpenPieces
  <2>2. CASE q # r
    <3>1. Running(q) /\ Sound(job[q].nid)
      BY <1>1, <1>6, <2>2 DEF Running, Sound
    <3>2. Pieces(q)
      BY <3>1 DEF PiecesInv
    <3> QED BY <1>1, <2>2, <3>2, PiecesSame
  <2> QED BY <2>1, <2>2
<1> QED BY <1>2, <1>5, <1>6 DEF PiecesInv

(* What the job says of the lines, and what is written of the line at hand. *)
LEMMA StepLines ==
  ASSUME TypeOK, RequestsOK, NEW r \in Requests, Save(r) \/ Fail(r), pc'[r] # "idle"
  PROVE  /\ pc[r] # "load" => job'[r] = job[r]
         /\ pc[r] = "load" /\ pc'[r] = "move" => job'[r].lines[at[r]].move = cart[at[r]].qty
         /\ pc[r] = "load" /\ pc'[r] # "move" /\ cart[at[r]].state = "saved" =>
              cart[at[r]].qty = 0
         /\ pc[r] = "cart" /\ cart[at[r]].state # "deleted" =>
              cart'[at[r]].qty = job[r].lines[at[r]].qty
<1>1. ~Fail(r) /\ ~DropCart(r)
  BY GotoEffect DEF Fail, DropCart
<1>2. CASE CancelLoad(r)
  <2> DEFINE c == at[r]
             p == cart[c].product
             q == cart[c].qty
  <2>1. pc[r] = "load" /\ c \in Carts
    BY <1>2 DEF CancelLoad, RequestsOK, RequestOK
  <2>2. cart[c] \in CartNode /\ job[r] \in Job
    BY <2>1 DEF TypeOK
  <2>3. CASE cart[c].state = "saved" /\ p \in Products /\ q > 0
    <3>1. job' = [job EXCEPT ![r] = WithLine(@, c, p, q, q)]
      BY <1>2, <2>3 DEF CancelLoad
    <3>2. job'[r].lines[c].move = q
      BY <2>1, <2>2, <3>1 DEF WithLine, Job, TypeOK
    <3>3. pc'[r] = "move"
      BY <1>2, <2>3 DEF CancelLoad, TypeOK
    <3> QED BY <2>1, <3>2, <3>3
  <2>4. CASE ~(cart[c].state = "saved" /\ p \in Products /\ q > 0)
    <3>1. NextLine(r, "load")
      BY <1>2, <2>4 DEF CancelLoad
    <3>2. pc'[r] # "move"
      BY <3>1, NextLineEffect
    <3>3. cart[c].state = "saved" => p \in Products
      BY <2>1 DEF RequestsOK, SavedCartsOK
    <3>4. q \in Nat
      BY <2>2 DEF CartNode
    <3>5. cart[c].state = "saved" => q = 0
      BY <2>4, <3>3, <3>4
    <3> QED BY <2>1, <3>2, <3>5
  <2> QED BY <2>3, <2>4
<1>3. CASE SaveCart(r)
  <2>1. pc[r] = "cart" /\ at[r] \in Carts
    BY <1>3 DEF SaveCart, RequestsOK, RequestOK
  <2>2. PICK step : Goto(r, step)
    BY <1>3 DEF SaveCart
  <2>3. job'[r] = job[r]
    BY <2>2, GotoEffect
  <2>4. cart[at[r]].state # "deleted" => cart'[at[r]].qty = job[r].lines[at[r]].qty
    BY <1>3, <2>1 DEF SaveCart, TypeOK
  <2> QED BY <2>1, <2>3, <2>4
<1>4. CASE SaveMovement(r)
  BY <1>4 DEF SaveMovement
<1>5. CASE SaveOrder(r)
  <2>1. PICK step : Goto(r, step)
    BY <1>5 DEF SaveOrder
  <2> QED BY <1>5, <2>1, GotoEffect DEF SaveOrder
<1> QED BY <1>1, <1>2, <1>3, <1>4, <1>5 DEF Save

\* A request in progress at an order that is sound.
Within(r) ==
  /\ Running(r) /\ Shape(r) /\ Own(r) /\ Follows(r) /\ Pieces(r)
  /\ job[r].nid \in Orders /\ OrderOK(job[r].nid) /\ job[r].nid \notin SharedOrders
  /\ job[r].op \in Ops
  /\ job[r].order.carts \subseteq Carts /\ order[job[r].nid].carts \subseteq Carts
  /\ \A d \in Carts : sold[d] \in Int /\ cart[d].qty \in Nat
  /\ \A d \in Carts : job[r].lines[d].move \in Int /\ job[r].lines[d].qty \in Nat

(* What both invariants say of such a request.                             *)
LEMMA SoundWithin ==
  ASSUME TypeOK, RequestsOK, LinesInv, PiecesInv, NEW r \in Requests, Running(r),
         Sound(job[r].nid)
  PROVE  Within(r)
<1>1. /\ Shape(r) /\ Own(r) /\ Follows(r) /\ Pieces(r)
      /\ job[r].nid \notin SharedOrders
  BY DEF LinesInv, RunningOK, PiecesInv, Sound
<1>2. job[r].nid \in Orders
  BY DEF RequestsOK, RequestOK, Running
<1>3. OrderOK(job[r].nid)
  BY <1>2 DEF LinesInv
<1>4. job[r] \in Job
  BY DEF TypeOK
<1>5. /\ job[r].op \in Ops /\ job[r].order.carts \subseteq Carts
      /\ order[job[r].nid].carts \subseteq Carts
  BY <1>2, <1>4 DEF TypeOK, Job, OrderNode
<1>6. \A d \in Carts : sold[d] \in Int /\ cart[d].qty \in Nat
  BY DEF TypeOK, CartNode
<1>7. \A d \in Carts : job[r].lines[d].move \in Int /\ job[r].lines[d].qty \in Nat
  BY <1>4 DEF Job, Line
<1> QED BY <1>1, <1>2, <1>3, <1>5, <1>6, <1>7 DEF Within

(* A sale writes a line, then takes its pieces.                            *)
LEMMA SaleKeepsPieces ==
  ASSUME TypeOK, RequestsOK, PiecesInv, NEW r \in Requests, Save(r) \/ Fail(r),
         Within(r), pc'[r] # "idle", job[r].op = "sale"
  PROVE  SalePieces(r)'
<1>1. SalePieces(r) /\ Shape(r)
  BY DEF Within, Pieces
<1>2. /\ job'[r].order = job[r].order /\ job'[r].op = "sale"
      /\ \A c : Pending(r, c)' <=> Pending(r, c) /\ ~(pc[r] = "cart" /\ c = at[r])
  BY <1>1, StepEffect, SelfKeepsShape
<1>3. \/ pc[r] = "cart" /\ pc'[r] = "move" /\ at'[r] = at[r]
      \/ pc[r] = "move" /\ pc'[r] \in {"cart", "order"}
  BY <1>1, SelfAdvances DEF Stays, MovesOn
<1>4. job'[r] = job[r]
  BY <1>3, StepLines
<1>5. at[r] \in job[r].order.carts /\ at[r] \in Carts
  BY <1>1 DEF Within, Shape
<1>6. ASSUME NEW d \in job[r].order.carts
      PROVE  /\ Pending(r, d)' => job[r].lines[d].move = -job[r].lines[d].qty
             /\ ~Pending(r, d)' => IF pc'[r] = "move" /\ d = at'[r]
                                   THEN sold'[d] = 0 /\ job[r].lines[d].move = -cart'[d].qty
                                   ELSE sold'[d] = cart'[d].qty
  <2>1. d \in Carts
    BY DEF Within
  <2>2. Pending(r, d)' => job[r].lines[d].move = -job[r].lines[d].qty
    BY <1>1, <1>2 DEF SalePieces
  <2>3. CASE pc[r] = "cart" /\ d = at[r]
    <3>1. Pending(r, d) /\ ~InUse(d)
      <4>1. Pending(r, d)
        BY <2>3 DEF Pending, Within
      <4> QED BY <2>1, <4>1 DEF Within, Own, Mine
    <3>2. sold[d] = 0 /\ cart[d].state = "unused"
      BY <2>1, <3>1 DEF PiecesInv, InUse
    <3>3. sold'[d] = 0 /\ cart'[d].qty = job[r].lines[d].qty
      BY <2>3, <3>2, StepMoves, StepLines
    <3>4. job[r].lines[d].move = -job[r].lines[d].qty
      BY <1>1, <3>1 DEF SalePieces
    <3> QED BY <1>2, <1>3, <2>3, <3>3, <3>4
  <2>4. CASE pc[r] = "cart" /\ d # at[r]
    <3>1. sold'[d] = sold[d] /\ cart'[d] = cart[d]
      BY <2>1, <2>4, StepMoves, StepWrites
    <3> QED BY <1>1, <1>2, <1>3, <2>2, <2>4, <3>1 DEF SalePieces, Whole
  <2>5. CASE pc[r] = "move" /\ d = at[r]
    <3>1. ~Pending(r, d)
      BY <1>1, <2>5 DEF Pending, Shape
    <3>2. sold[d] = 0 /\ job[r].lines[d].move = -cart[d].qty
      BY <1>1, <2>5, <3>1 DEF SalePieces
    <3>3. sold'[d] = sold[d] - job[r].lines[d].move /\ cart'[d] = cart[d]
      BY <2>1, <2>5, StepMoves, StepWrites
    <3>4. sold'[d] = cart'[d].qty
      BY <2>1, <3>2, <3>3 DEF Within
    <3> QED BY <1>3, <2>2, <2>5, <3>4
  <2>6. CASE pc[r] = "move" /\ d # at[r]
    <3>1. sold'[d] = sold[d] /\ cart'[d] = cart[d]
      BY <2>1, <2>6, StepMoves, StepWrites
    <3> QED BY <1>1, <1>2, <1>3, <2>2, <2>6, <3>1 DEF SalePieces, Whole
  <2> QED BY <1>3, <2>3, <2>4, <2>5, <2>6
<1> QED BY <1>4, <1>6 DEF SalePieces, Whole

(* A cancellation reads a line, then gives its pieces back; a line of none *)
(* is left out.                                                            *)
LEMMA CancelKeepsPieces ==
  ASSUME TypeOK, RequestsOK, NEW r \in Requests, Save(r) \/ Fail(r),
         Within(r), pc'[r] # "idle", job[r].op = "cancel"
  PROVE  CancelPieces(r)'
<1>1. CancelPieces(r) /\ Shape(r) /\ Follows(r)
  BY DEF Within, Pieces
<1>2. /\ job'[r].nid = job[r].nid
      /\ order'[job[r].nid] = order[job[r].nid]
  BY StepEffect, StepSaves
<1>3. \/ pc[r] = "load" /\ pc'[r] = "move" /\ at'[r] = at[r] /\ todo'[r] = todo[r]
      \/ /\ pc[r] \in {"load", "move"} /\ pc'[r] = "order" /\ todo[r] = {}
         /\ at'[r] = at[r] /\ todo'[r] = todo[r]
      \/ /\ pc[r] \in {"load", "move"} /\ pc'[r] = "load"
         /\ at'[r] \in todo[r] /\ todo'[r] = todo[r] \ {at'[r]}
  BY <1>1, SelfAdvances DEF Stays, MovesOn
<1>4. at[r] \in order[job[r].nid].carts /\ at[r] \in Carts
  BY <1>1 DEF Within, Shape, Follows
<1>5. cart[at[r]].state = "saved" /\ UNCHANGED cart /\ at[r] \notin todo[r]
  BY <1>1, <1>3, <1>4, StepWrites DEF Within, OrderOK, Shape
<1>6. \A d \in Carts \ {at[r]} : sold'[d] = sold[d]
  BY StepMoves
<1>7. sold[at[r]] = cart[at[r]].qty
  BY <1>1, <1>3, <1>4 DEF CancelPieces, Whole
<1>8. CASE pc'[r] = "move"
  <2>1. pc[r] = "load" /\ at'[r] = at[r] /\ todo'[r] = todo[r]
    BY <1>3, <1>8
  <2>2. job'[r].lines[at[r]].move = cart[at[r]].qty /\ UNCHANGED sold
    BY <1>8, <2>1, StepLines, StepMoves
  <2> QED BY <1>1, <1>2, <1>5, <1>8, <2>1, <2>2 DEF CancelPieces, Whole
<1>9. CASE pc'[r] # "move"
  <2>1. sold'[at[r]] = 0
    <3>1. CASE pc[r] = "load"
      <4>1. cart[at[r]].qty = 0 /\ UNCHANGED sold
        BY <1>5, <1>9, <3>1, StepLines, StepMoves
      <4> QED BY <1>7, <4>1
    <3>2. CASE pc[r] = "move"
      <4>1. /\ sold'[at[r]] = sold[at[r]] - job[r].lines[at[r]].move
            /\ job[r].lines[at[r]].move = cart[at[r]].qty
        BY <1>1, <3>2, StepMoves DEF CancelPieces
      <4> QED BY <1>4, <1>7, <4>1 DEF Within
    <3> QED BY <1>3, <3>1, <3>2
  <2>2. ASSUME NEW d \in order[job[r].nid].carts
        PROVE  IF d \in todo'[r] \/ (d = at'[r] /\ pc'[r] # "order")
               THEN sold'[d] = cart'[d].qty ELSE sold'[d] = 0
    <3>1. d \in Carts
      BY DEF Within
    <3>2. IF d \in todo[r] \/ d = at[r] THEN sold[d] = cart[d].qty ELSE sold[d] = 0
      BY <1>1, <1>3 DEF CancelPieces, Whole
    <3> QED BY <1>3, <1>5, <1>6, <1>9, <2>1, <3>1, <3>2
  <2> QED BY <1>2, <1>9, <2>2 DEF CancelPieces, Whole
<1> QED BY <1>8, <1>9

(* An edit moves the difference, then writes the line, or drops it.        *)
LEMMA EditKeepsPieces ==
  ASSUME TypeOK, RequestsOK, NEW r \in Requests, Save(r) \/ Fail(r),
         Within(r), pc'[r] # "idle", job[r].op \in LineOps
  PROVE  Pieces(r)'
<1>1. Shape(r) /\ Follows(r) /\ Pieces(r)
  BY DEF Within
<1>2. Stays(r)
  BY <1>1, SelfAdvances DEF MovesOn, LineOps
<1>3. at'[r] = at[r] /\ job'[r].nid = job[r].nid /\ job'[r].op = job[r].op
  BY <1>2, StepEffect DEF Stays
<1>4. job'[r] = job[r]
  BY <1>2, StepLines DEF Stays, LineOps
<1>5. /\ \A d \in order[job[r].nid].carts \ {at[r]} :
           sold'[d] = sold[d] /\ cart'[d] = cart[d]
  BY StepMoves, StepWrites DEF Within
<1>6. CASE job[r].op \in {"price", "purchase", "quantity"}
  <2>1. at[r] \in order[job[r].nid].carts /\ at[r] \in Carts
    BY <1>1, <1>6 DEF Shape, Follows, Within
  <2>2. cart[at[r]].state = "saved"
    BY <2>1 DEF Within, OrderOK
  <2>3. order'[job[r].nid] = order[job[r].nid]
    BY <1>6, StepSaves
  <2>4. CASE job[r].op \in {"price", "purchase"}
    <3>1. pc[r] = "cart" /\ pc'[r] = "order"
      BY <1>2, <2>4 DEF Stays
    <3>2. PricePieces(r)
      BY <1>1, <2>4 DEF Pieces
    <3>3. sold'[at[r]] = sold[at[r]] /\ cart'[at[r]].qty = cart[at[r]].qty
      BY <2>2, <3>1, <3>2, StepMoves, StepLines DEF PricePieces
    <3>4. \A d \in order[job[r].nid].carts : sold'[d] = cart'[d].qty
      BY <1>5, <3>2, <3>3 DEF PricePieces, Whole
    <3>5. PricePieces(r)'
      BY <1>3, <2>3, <3>1, <3>4 DEF PricePieces, Whole
    <3> QED BY <1>3, <2>4, <3>5 DEF Pieces
  <2>5. CASE job[r].op = "quantity"
    <3>1. QuantityPieces(r)
      BY <1>1, <2>5 DEF Pieces
    <3>2. \A d \in order[job[r].nid].carts \ {at[r]} : sold'[d] = cart'[d].qty
      BY <1>5, <3>1 DEF QuantityPieces, Whole
    <3>3. CASE pc[r] = "move"
      <4>1. pc'[r] = "cart" /\ sold'[at[r]] = sold[at[r]] - job[r].lines[at[r]].move
        BY <1>2, <2>5, <3>3, StepMoves DEF Stays
      <4>2. /\ job[r].lines[at[r]].move = cart[at[r]].qty - job[r].lines[at[r]].qty
            /\ sold[at[r]] = cart[at[r]].qty
        BY <3>1, <3>3 DEF QuantityPieces, Whole
      <4>3. cart[at[r]].qty \in Nat /\ job[r].lines[at[r]].qty \in Nat
        BY <2>1 DEF Within
      <4>4. sold'[at[r]] = job[r].lines[at[r]].qty
        BY <4>1, <4>2, <4>3
      <4> QED BY <1>3, <1>4, <2>3, <2>5, <3>2, <4>1, <4>4 DEF Pieces, QuantityPieces, Whole
    <3>4. CASE pc[r] = "cart"
      <4>1. pc'[r] = "order" /\ UNCHANGED sold /\ cart'[at[r]].qty = job[r].lines[at[r]].qty
        BY <1>2, <2>2, <2>5, <3>4, StepMoves, StepLines DEF Stays
      <4>2. sold'[at[r]] = cart'[at[r]].qty
        BY <3>1, <3>4, <4>1 DEF QuantityPieces
      <4> QED BY <1>3, <1>4, <2>3, <2>5, <3>2, <4>1, <4>2 DEF Pieces, QuantityPieces, Whole
    <3> QED BY <1>2, <2>5, <3>3, <3>4 DEF Stays
  <2> QED BY <1>6, <2>4, <2>5
<1>7. CASE job[r].op = "delete"
  <2>1. DeletePieces(r) /\ at[r] \in Carts
    BY <1>1, <1>7 DEF Pieces, Shape
  <2>2. order'[job[r].nid].carts \ {at[r]} = order[job[r].nid].carts \ {at[r]}
    BY <1>1, <1>7, StepSaves DEF Follows
  <2>3. \A d \in order[job[r].nid].carts \ {at[r]} : sold'[d] = cart'[d].qty
    BY <1>5, <2>1 DEF DeletePieces, Whole
  <2>4. pc'[r] # "move" /\ sold'[at[r]] = 0
    <3>1. CASE pc[r] = "move"
      <4>1. /\ pc'[r] = "order" /\ sold[at[r]] = cart[at[r]].qty
            /\ sold'[at[r]] = sold[at[r]] - job[r].lines[at[r]].move
            /\ job[r].lines[at[r]].move = cart[at[r]].qty
        BY <1>2, <1>7, <2>1, <3>1, StepMoves DEF Stays, DeletePieces, Whole
      <4> QED BY <2>1, <4>1 DEF Within
    <3>2. CASE pc[r] = "order"
      BY <1>2, <1>7, <2>1, <3>2, StepMoves DEF Stays, DeletePieces
    <3> QED BY <1>2, <1>7, <3>1, <3>2 DEF Stays
  <2> QED BY <1>3, <1>7, <2>2, <2>3, <2>4 DEF Pieces, DeletePieces, Whole
<1> QED BY <1>6, <1>7 DEF LineOps

(* A request that comes to its end leaves its order settled.               *)
LEMMA EndSettles ==
  ASSUME TypeOK, RequestsOK, NEW r \in Requests, Save(r) \/ Fail(r),
         Within(r), pc'[r] = "idle", NEW o \in Orders, o = job[r].nid, Sound(o)'
  PROVE  Settled(o)'
<1>1. Shape(r) /\ Follows(r) /\ Pieces(r) /\ OrderOK(o) /\ job[r].op \in Ops
  BY DEF Within
<1>2. CASE Fail(r)
  <2>1. ~order[o].saved /\ UNCHANGED order
    BY <1>2 DEF Fail, Sound, dbVars
  <2>2. order'[o].carts = {}
    BY <1>1, <2>1 DEF OrderOK, Blank
  <2> QED BY <2>2 DEF Settled
<1>3. CASE CancelLoad(r) \/ SaveMovement(r)
  <2>1. pc'[r] # "idle"
    <3>1. CASE CancelLoad(r)
      <4>1. NextLine(r, "load") \/ pc'[r] = "move"
        BY <3>1 DEF CancelLoad, TypeOK
      <4> QED BY <4>1, NextLineEffect
    <3>2. CASE SaveMovement(r)
      <4>1. \/ NextLine(r, "cart") \/ NextLine(r, "load")
            \/ pc'[r] \in {"cart", "order"}
        BY <3>2, SaveMovementEffect
      <4> QED BY <4>1, NextLineEffect
    <3> QED BY <1>3, <3>1, <3>2
  <2> QED BY <2>1
<1>4. CASE SaveCart(r)
  <2>1. pc[r] = "cart" /\ at[r] \in Carts
    BY <1>4 DEF SaveCart, RequestsOK, RequestOK
  <2>2. job[r].op = "purchase"
    <3>1. job[r].op # "purchase" => Goto(r, "move") \/ Goto(r, "order")
      BY <1>4 DEF SaveCart
    <3> QED BY <3>1, GotoEffect
  <2>3. PricePieces(r) /\ order[o].commande # "annuler"
    BY <1>1, <2>2 DEF Pieces, Follows
  <2>4. /\ UNCHANGED <<order, sold>>
        /\ \A d \in Carts \ {at[r]} : cart'[d] = cart[d]
        /\ cart'[at[r]].qty \in {cart[at[r]].qty, job[r].lines[at[r]].qty}
    BY <1>4, <2>1 DEF SaveCart, TypeOK
  <2>5. \A d \in order[o].carts : sold'[d] = cart'[d].qty
    BY <2>1, <2>3, <2>4 DEF PricePieces, Whole, Within
  <2> QED BY <2>3, <2>4, <2>5 DEF Settled
<1>5. CASE SaveOrder(r)
  <2>1. /\ pc[r] = "order" /\ UNCHANGED <<cart, sold>>
        /\ order'[o] = job[r].order /\ todo[r] = {}
    BY <1>1, <1>5 DEF SaveOrder, Shape, TypeOK
  <2>2. job[r].op # "delete"
    <3>1. job[r].op = "delete" => Goto(r, "drop")
      BY <1>5 DEF SaveOrder
    <3> QED BY <3>1, GotoEffect
  <2>3. CASE job[r].op = "sale"
    <3>1. SalePieces(r) /\ job[r].order.commande # "annuler"
      BY <1>1, <2>3 DEF Pieces, Shape
    <3>2. \A d \in job[r].order.carts : Whole(d)
      BY <2>1, <3>1 DEF SalePieces, Pending
    <3> QED BY <2>1, <3>1, <3>2 DEF Settled, Whole
  <2>4. CASE job[r].op = "status"
    <3>1. StatusPieces(r) /\ job[r].order.carts = order[o].carts
      BY <1>1, <2>4 DEF Pieces, Follows
    <3> QED BY <2>1, <3>1 DEF Settled, StatusPieces, Whole
  <2>5. CASE job[r].op = "cancel"
    <3>1. CancelPieces(r) /\ job[r].order.carts = order[o].carts
          /\ job[r].order.commande = "annuler"
      BY <1>1, <2>5 DEF Pieces, Follows, Shape
    <3> QED BY <2>1, <3>1 DEF Settled, CancelPieces
  <2>6. CASE job[r].op = "price"
    <3>1. PricePieces(r) /\ job[r].order = order[o] /\ order[o].commande # "annuler"
      BY <1>1, <2>6 DEF Pieces, Follows
    <3> QED BY <2>1, <3>1 DEF Settled, PricePieces, Whole
  <2>7. CASE job[r].op = "quantity"
    <3>1. QuantityPieces(r) /\ job[r].order = order[o] /\ order[o].commande # "annuler"
      BY <1>1, <2>7 DEF Pieces, Follows
    <3>2. \A d \in order[o].carts : Whole(d)
      BY <2>1, <3>1 DEF QuantityPieces
    <3> QED BY <2>1, <3>1, <3>2 DEF Settled, Whole
  <2>8. CASE job[r].op = "purchase"
    BY <1>1, <2>1, <2>8 DEF Shape, StepsOf
  <2> QED BY <1>1, <2>2, <2>3, <2>4, <2>5, <2>6, <2>7, <2>8 DEF Ops
<1>6. CASE DropCart(r)
  <2>1. /\ pc[r] = "drop" /\ UNCHANGED <<order, sold>> /\ at[r] \in Carts
        /\ \A d \in Carts \ {at[r]} : cart'[d] = cart[d]
    BY <1>6 DEF DropCart, RequestsOK, RequestOK, TypeOK
  <2>2. job[r].op = "delete"
    BY <1>1, <2>1 DEF Shape, StepsOf, Ops
  <2>3. /\ DeletePieces(r) /\ order[o].commande # "annuler"
        /\ at[r] \notin order[o].carts
    BY <1>1, <2>1, <2>2 DEF Pieces, Follows, Shape
  <2>4. \A d \in order[o].carts : sold'[d] = cart'[d].qty
    BY <2>1, <2>3 DEF DeletePieces, Whole, Within
  <2> QED BY <2>1, <2>3, <2>4 DEF Settled
<1> QED BY <1>2, <1>3, <1>4, <1>5, <1>6 DEF Save

(* A step of a request leaves the other orders and requests as they are.   *)
LEMMA StepKeepsPieces ==
  ASSUME TypeOK, RequestsOK, LinesInv, PiecesInv, NEW r \in Requests,
         Save(r) \/ Fail(r)
  PROVE  PiecesInv'
<1>1. Running(r) /\ Shape(r) /\ Own(r)
  BY StepEffect DEF Running, LinesInv, RunningOK
<1>2. torn \subseteq torn'
  BY DEF Save, Fail, CancelLoad, SaveCart, SaveMovement, SaveOrder, DropCart
<1>3. \A q \in Requests \ {r} : /\ pc'[q] = pc[q] /\ job'[q] = job[q]
                                /\ at'[q] = at[q] /\ todo'[q] = todo[q]
  BY StepEffect
<1>4. /\ \A o \in Orders : order[o].carts \subseteq Carts
      /\ \A q \in Requests : job[q].order.carts \subseteq Carts
  BY DEF TypeOK, OrderNode, Job
<1>5. ASSUME NEW c \in Carts, cart'[c].state = "unused"
      PROVE  sold'[c] = 0
  <2>1. cart[c].state = "unused"
    BY <1>5, StepWrites DEF InUse
  <2>2. sold[c] = 0
    BY <2>1 DEF PiecesInv
  <2>3. ~(c = at[r] /\ pc[r] = "move")
    <3>1. SUFFICES ASSUME c = at[r], pc[r] = "move" PROVE FALSE
      OBVIOUS
    <3>2. Pending(r, c)
      BY <1>1, <2>1, <3>1 DEF Own, Mine, InUse
    <3> QED BY <1>1, <3>1, <3>2 DEF Pending, Shape
  <2> QED BY <2>2, <2>3, StepMoves
<1>6. ASSUME NEW o \in Orders, Sound(o)', ~Busy(o)'
      PROVE  Settled(o)'
  <2>1. Sound(o)
    BY <1>2, <1>6 DEF Sound
  <2>2. CASE o = job[r].nid
    <3>1. Within(r)
      BY <1>1, <2>1, <2>2, SoundWithin
    <3>2. pc'[r] = "idle"
      BY <1>6, <2>2, StepEffect DEF Busy
    <3> QED BY <1>6, <2>2, <3>1, <3>2, EndSettles
  <2>3. CASE o # job[r].nid
    <3>1. ~Busy(o)
      BY <1>3, <1>6, <2>3 DEF Busy
    <3>2. Settled(o)
      BY <2>1, <3>1 DEF PiecesInv
    <3>3. order'[o] = order[o] /\ at[r] \notin order[o].carts
      BY <1>1, <1>4, <2>3, StepSaves DEF Own, Mine
    <3>4. \A c \in order[o].carts : cart'[c] = cart[c] /\ sold'[c] = sold[c]
      BY <1>4, <3>3, StepWrites, StepMoves
    <3> QED BY <3>2, <3>3, <3>4 DEF Settled
  <2> QED BY <2>2, <2>3
<1>7. ASSUME NEW q \in Requests \ {r}, Running(q), job[q].nid \notin SharedOrders \cup torn
      PROVE  Pieces(q)'
  <2>1. Pieces(q) /\ Own(r) /\ Own(q) /\ Apart(r, q) /\ job[q].nid \in Orders
    BY <1>1, <1>7 DEF PiecesInv, Sound, LinesInv, RunningOK, RequestsOK, RequestOK, Running
  <2>2. job[r].nid # job[q].nid
    BY <1>7, <2>1 DEF Apart
  <2>3. order'[job[q].nid] = order[job[q].nid]
    BY <2>1, <2>2, StepSaves
  <2>4. Mine(r) \cap Mine(q) = {} /\ Mine(r) \cap order[job[q].nid].carts = {}
    BY <2>1, <2>2 DEF Apart, Own
  <2>5. ASSUME NEW c \in (order[job[q].nid].carts \cup job[q].order.carts \cup {at[q]})
                          \cap Carts
        PROVE  cart'[c] = cart[c] /\ sold'[c] = sold[c]
    <3>1. c # at[r]
      BY <2>4, <2>5 DEF Mine
    <3> QED BY <3>1, StepWrites, StepMoves
  <2>6. job[q].op # "status" => at[q] \in Carts
    <3>1. Shape(q)
      BY <1>7 DEF LinesInv, RunningOK
    <3> QED BY <1>4, <3>1 DEF Shape
  <2> QED BY <1>3, <1>4, <2>1, <2>3, <2>5, <2>6, PiecesSame
<1>8. ASSUME pc'[r] # "idle", job[r].nid \notin SharedOrders \cup torn
      PROVE  Pieces(r)'
  <2>1. Within(r)
    BY <1>1, <1>8, SoundWithin DEF Sound
  <2>2. job'[r].op = job[r].op /\ job[r].op \in Ops
    BY <1>8, <2>1, StepEffect DEF Within
  <2>3. CASE job[r].op = "sale"
    BY <1>8, <2>1, <2>2, <2>3, SaleKeepsPieces DEF Pieces
  <2>4. CASE job[r].op = "status"
    BY <1>1, <1>8, <2>4, SelfAdvances DEF Stays, MovesOn
  <2>5. CASE job[r].op = "cancel"
    BY <1>8, <2>1, <2>2, <2>5, CancelKeepsPieces DEF Pieces
  <2>6. CASE job[r].op \in LineOps
    BY <1>8, <2>1, <2>6, EditKeepsPieces
  <2> QED BY <2>2, <2>3, <2>4, <2>5, <2>6 DEF Ops, LineOps
<1>9. ASSUME NEW q \in Requests, Running(q)', Sound(job[q].nid)'
      PROVE  Pieces(q)'
  <2>1. pc'[q] # "idle" /\ job'[q].nid \notin SharedOrders \cup torn
    BY <1>2, <1>9 DEF Running, Sound
  <2>2. CASE q = r
    BY <1>8, <2>1, <2>2, StepEffect
  <2>3. CASE q # r
    BY <1>3, <1>7, <2>1, <2>3 DEF Running
  <2> QED BY <2>2, <2>3
<1> QED BY <1>5, <1>6, <1>9 DEF PiecesInv

(* An order at rest, of which no request stopped half-way, has its lines,  *)
(* and each holds exactly its pieces, or none when the order is cancelled; *)
(* a line about to be deleted holds none.  The requests are as many as you *)
(* like, and stop wherever they do, but none cancels or revives an order   *)
(* by its status.                                                          *)
THEOREM SalesAlwaysSettled ==
  ASSUME NoStatusCancels
  PROVE  Spec => []SalesSettled
<1>1. Init => PiecesInv
  BY DEF Init, PiecesInv, Settled, Running, Blank
<1>2. TypeOK /\ RequestsOK /\ LinesInv /\ StatusesAgree /\ PiecesInv /\ [Next]_vars
        => PiecesInv'
  <2> SUFFICES ASSUME TypeOK, RequestsOK, LinesInv, StatusesAgree, PiecesInv, [Next]_vars
               PROVE  PiecesInv'
    OBVIOUS
  <2>1. ASSUME NEW r \in Requests, Receive(r)
        PROVE  PiecesInv'
    <3>1. \A o \in Orders : OrderOK(o)
      BY DEF LinesInv
    <3> QED BY <2>1, <3>1, ReceiveOpens, OpenKeepsPieces
  <2>2. ASSUME NEW r \in Requests, Save(r) \/ Fail(r)
        PROVE  PiecesInv'
    BY <2>2, StepKeepsPieces
  <2>3. CASE UNCHANGED vars
    BY <2>3 DEF vars, PiecesInv, Settled, Sound, Busy, Running, Pieces, SalePieces,
                StatusPieces, CancelPieces, PricePieces, QuantityPieces,
                DeletePieces, Whole, Pending
  <2> QED BY <2>1, <2>2, <2>3 DEF Next
<1>3. TypeOK /\ RequestsOK /\ LinesInv /\ PiecesInv => SalesSettled
  <2> SUFFICES ASSUME TypeOK, RequestsOK, LinesInv, PiecesInv
               PROVE  SalesSettled
    OBVIOUS
  <2>1. ASSUME NEW o \in Orders \ (SharedOrders \cup torn), ~Busy(o),
               NEW c \in order[o].carts
        PROVE  /\ cart[c].state = "saved"
               /\ sold[c] = IF order[o].commande = "annuler" THEN 0 ELSE cart[c].qty
    BY <2>1 DEF LinesInv, OrderOK, PiecesInv, Sound, Settled
  <2>2. ASSUME NEW r \in Requests, pc[r] = "drop",
               job[r].nid \notin SharedOrders \cup torn
        PROVE  sold[at[r]] = 0
    <3>1. Within(r)
      BY <2>2, SoundWithin DEF Running, Sound
    <3>2. job[r].op = "delete"
      BY <2>2, <3>1 DEF Within, Shape, StepsOf, Ops
    <3> QED BY <2>2, <3>1, <3>2 DEF Within, Pieces, DeletePieces
  <2> QED BY <2>1, <2>2 DEF SalesSettled
<1> QED BY <1>1, <1>2, <1>3, TypeCorrect, LinesInvariant, StatusesAgreeAlways, PTL
        DEF Spec
=============================================================================
