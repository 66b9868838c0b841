-------------------------- MODULE OrderTotals_proofs --------------------------
(* That a line keeps the total that goes with its price and its quantity,  *)
(* also when requests are torn or work on one order, and that the total of *)
(* an order is the sum of those of its lines: for any number of sales,     *)
(* lines and requests.                                                     *)
EXTENDS OrderTotals, FiniteSetTheorems, WellFoundedInduction, NaturalsInduction, TLAPS

Line == [state : {"unused", "saved", "deleted"}, product : Products \cup {NoProduct},
         qty : Nat, unit : Nat, total : Nat]

\* A line that is saved has its product, and one with a price of its own has
\* the total that goes with it.
LineOK(n) ==
  /\ n \in Line
  /\ n.state = "saved" => n.product \in Products
  /\ n.unit > 0 => n.total = n.unit * n.qty

\* Orders with this total, whatever it is.
OrderWith(t) == [saved : BOOLEAN, cancelled : BOOLEAN, carts : SUBSET Carts, total : {t}]

Ops == {"sale", "status", "cancel", "price", "purchase", "quantity", "delete"}

JobWith(t) == [op : Ops, nid : Orders \cup {NoOrder}, order : OrderWith(t),
               line : Carts \cup {NoCart}, lines : [Carts -> Line]]

OrderOK(o) == \E t : o \in OrderWith(t)

JobOK(j) == (\E t : j \in JobWith(t)) /\ \A c \in Carts : LineOK(j.lines[c])

\* Steps of a request that is at a line.
AtLine == {"load", "move", "cart", "sum", "resave"}

RequestOK(r) ==
  /\ JobOK(job[r])
  /\ todo[r] \subseteq Carts
  /\ pc[r] \in AtLine => at[r] \in Carts
  /\ pc[r] = "load" => job[r].op = "cancel"
  /\ pc[r] = "move" => job[r].op \in {"sale", "cancel", "quantity", "delete"}

Domains ==
  /\ DOMAIN pc = Requests /\ DOMAIN job = Requests
  /\ DOMAIN at = Requests /\ DOMAIN todo = Requests
  /\ job = [r \in Requests |-> job[r]]

Inv ==
  /\ price \in [Products -> Nat]
  /\ DOMAIN cart = Carts /\ \A c \in Carts : LineOK(cart[c])
  /\ DOMAIN order = Orders /\ \A o \in Orders : OrderOK(order[o])
  /\ Domains
  /\ \A r \in Requests : RequestOK(r)

-----------------------------------------------------------------------------
(* The operators.                                                          *)

LEMMA Times == ASSUME NEW a \in Nat, NEW b \in Nat PROVE a * b \in Nat
  OBVIOUS

LEMMA PricedOK ==
  ASSUME NEW n \in Line, n.state = "saved" => n.product \in Products,
         NEW q \in Nat, NEW u \in Nat
  PROVE  LineOK(Priced(n, q, u))
<1> DEFINE t == u * q
           m == [n EXCEPT !.qty = q, !.unit = u, !.total = t]
<1>1. t \in Nat
  BY Times
<1>2. m \in Line /\ m.state = n.state /\ m.product = n.product
      /\ m.unit = u /\ m.qty = q /\ m.total = t
  <2> HIDE DEF t
  <2> QED BY <1>1 DEF Line
<1>3. Priced(n, q, u) = m
  BY DEF Priced
<1> HIDE DEF m
<1> QED BY <1>2, <1>3 DEF LineOK

LEMMA EffectiveNat ==
  ASSUME Inv, NEW n, LineOK(n), n.state = "saved"
  PROVE  EffectivePrice(n) \in Nat /\ (n.unit > 0 => EffectivePrice(n) = n.unit)
BY DEF Inv, LineOK, Line, EffectivePrice

LEMMA RecomputedOK ==
  ASSUME Inv, NEW n, LineOK(n), n.state = "saved"
  PROVE  LineOK(Recomputed(n))
<1> DEFINE t == EffectivePrice(n) * n.qty
           m == [n EXCEPT !.total = t]
<1>1. n \in Line /\ t \in Nat /\ (n.unit > 0 => t = n.unit * n.qty)
  BY EffectiveNat, Times DEF LineOK, Line
<1>2. m \in Line /\ m.state = n.state /\ m.product = n.product
      /\ m.unit = n.unit /\ m.qty = n.qty /\ m.total = t
  <2> HIDE DEF t
  <2> QED BY <1>1 DEF Line
<1>3. Recomputed(n) = m
  BY DEF Recomputed
<1> HIDE DEF m, t
<1> QED BY <1>1, <1>2, <1>3 DEF LineOK

LEMMA NoLineOK == LineOK(NoLine) /\ LineOK([NoLine EXCEPT !.state = "deleted"])
BY DEF LineOK, Line, NoLine

LEMMA OnlyOK ==
  ASSUME NEW c \in Carts, NEW n, LineOK(n)
  PROVE  Only(c, n) \in [Carts -> Line] /\ \A d \in Carts : LineOK(Only(c, n)[d])
<1>1. NoLine \in Line /\ n \in Line /\ LineOK(NoLine)
  BY NoLineOK DEF LineOK
<1> QED BY <1>1 DEF Only

LEMMA NoJobOK == JobOK(NoJob) /\ NoJob.op = "status" /\ NoJob.lines \in [Carts -> Line]
                 /\ \A c \in Carts : LineOK(NoJob.lines[c])
<1>1. NoJob.lines = [c \in Carts |-> NoLine] /\ NoLine \in Line
  BY NoLineOK DEF NoJob, LineOK
<1>2. Blank \in OrderWith(0)
  BY DEF Blank, OrderWith
<1>3. NoJob \in JobWith(0)
  BY <1>1, <1>2 DEF NoJob, JobWith, Ops
<1> QED BY <1>1, <1>3, NoLineOK DEF JobOK, NoJob

-----------------------------------------------------------------------------
(* Requests that begin, go on to a line and end.                           *)

\* Only the request r moves.
OthersStay(r) ==
  /\ Domains'
  /\ \A q \in Requests \ {r} : /\ pc'[q] = pc[q] /\ job'[q] = job[q]
                               /\ at'[q] = at[q] /\ todo'[q] = todo[q]

LEMMA RequestMoves ==
  ASSUME Inv, NEW r \in Requests, OthersStay(r), RequestOK(r)',
         price' \in [Products -> Nat],
         DOMAIN cart' = Carts, \A c \in Carts : LineOK(cart'[c]),
         DOMAIN order' = Orders, \A o \in Orders : OrderOK(order'[o])
  PROVE  Inv'
<1>1. ASSUME NEW q \in Requests, q # r PROVE RequestOK(q)'
  BY <1>1 DEF Inv, RequestOK, OthersStay
<1> QED BY <1>1 DEF Inv, OthersStay

LEMMA BeginKeeps ==
  ASSUME Inv, NEW r \in Requests, NEW op \in Ops, NEW o \in Orders, NEW node,
         NEW c \in Carts \cup {NoCart}, NEW lines \in [Carts -> Line],
         NEW S \in SUBSET Carts, NEW first,
         OrderOK(node), \A d \in Carts : LineOK(lines[d]),
         first \in AtLine => S # {},
         first = "load" => op = "cancel",
         first = "move" => op \in {"quantity", "delete"},
         Begin(r, op, o, node, c, lines, S, first)
  PROVE  Inv'
<1> DEFINE j == [op |-> op, nid |-> o, order |-> node, line |-> c, lines |-> lines]
<1>1. JobOK(j) /\ j.op = op
  <2>1. PICK t : node \in OrderWith(t)
    BY DEF OrderOK
  <2>2. j \in JobWith(t)
    BY <2>1 DEF JobWith
  <2> QED BY <2>2 DEF JobOK
<1> HIDE DEF j
<1>2. /\ job' = [job EXCEPT ![r] = j] /\ pc' = [pc EXCEPT ![r] = first]
      /\ UNCHANGED <<price, cart, order, torn>>
  BY DEF Begin, j
<1>3. PICK d \in IF S = {} THEN {NoCart} ELSE S :
        at' = [at EXCEPT ![r] = d] /\ todo' = [todo EXCEPT ![r] = S \ {d}]
  BY DEF Begin
<1>4. OthersStay(r) /\ job'[r] = j /\ pc'[r] = first /\ at'[r] = d /\ todo'[r] = S \ {d}
  BY <1>2, <1>3 DEF Inv, Domains, OthersStay
<1>5. RequestOK(r)'
  BY <1>1, <1>3, <1>4 DEF RequestOK
<1> QED BY <1>2, <1>4, <1>5, RequestMoves DEF Inv

LEMMA EndKeeps ==
  ASSUME Inv, NEW r \in Requests, End(r), price' \in [Products -> Nat],
         DOMAIN cart' = Carts, \A c \in Carts : LineOK(cart'[c]),
         DOMAIN order' = Orders, \A o \in Orders : OrderOK(order'[o])
  PROVE  Inv'
<1>1. OthersStay(r) /\ pc'[r] = "idle" /\ job'[r] = NoJob /\ todo'[r] = {}
  BY DEF End, Inv, Domains, OthersStay
<1>2. RequestOK(r)'
  BY <1>1, NoJobOK DEF RequestOK, AtLine
<1> QED BY <1>1, <1>2, RequestMoves

\* A request takes its next line, or goes on to the order; its job may change.
LEMMA NextLineKeeps ==
  ASSUME Inv, NEW r \in Requests, NEW step \in {"load", "cart", "sum"},
         NextLine(r, step), NEW j, JobOK(j), job' = [job EXCEPT ![r] = j],
         step = "load" => j.op = "cancel",
         price' \in [Products -> Nat],
         DOMAIN cart' = Carts, \A c \in Carts : LineOK(cart'[c]), order' = order
  PROVE  Inv'
<1>1. todo[r] \subseteq Carts
  BY DEF Inv, RequestOK
<1>2. /\ OthersStay(r) /\ job'[r] = j
      /\ todo'[r] \subseteq Carts /\ pc'[r] \in {"order", step}
      /\ pc'[r] \in AtLine => at'[r] \in Carts
  <2>1. CASE todo[r] = {}
    BY <2>1, <1>1 DEF NextLine, Inv, Domains, OthersStay, AtLine
  <2>2. CASE todo[r] # {}
    <3>1. PICK c \in todo[r] :
            at' = [at EXCEPT ![r] = c] /\ todo' = [todo EXCEPT ![r] = @ \ {c}]
      BY <2>2 DEF NextLine
    <3>2. pc' = [pc EXCEPT ![r] = step]
      BY <2>2 DEF NextLine
    <3> QED BY <3>1, <3>2, <1>1 DEF Inv, Domains, OthersStay
  <2> QED BY <2>1, <2>2
<1>3. RequestOK(r)'
  BY <1>2 DEF RequestOK
<1> QED BY <1>2, <1>3, RequestMoves DEF Inv

\* A request goes to another step at the line it is at.
LEMMA SameLineKeeps ==
  ASSUME Inv, NEW r \in Requests, NEW step \in {"move", "cart", "resave", "drop"},
         at[r] \in Carts \/ step = "drop",
         pc' = [pc EXCEPT ![r] = step], UNCHANGED <<at, todo>>,
         NEW j, JobOK(j), job' = [job EXCEPT ![r] = j],
         step = "move" => j.op \in {"sale", "cancel"},
         price' \in [Products -> Nat],
         DOMAIN cart' = Carts, \A c \in Carts : LineOK(cart'[c]),
         DOMAIN order' = Orders, \A o \in Orders : OrderOK(order'[o])
  PROVE  Inv'
<1>1. OthersStay(r) /\ pc'[r] = step /\ job'[r] = j /\ at'[r] = at[r] /\ todo'[r] = todo[r]
  BY DEF Inv, Domains, OthersStay
<1>2. RequestOK(r)'
  BY <1>1 DEF Inv, RequestOK, AtLine
<1> QED BY <1>1, <1>2, RequestMoves

LEMMA TotalKeepsJob ==
  ASSUME NEW j, JobOK(j), NEW x
  PROVE  JobOK([j EXCEPT !.order.total = x]) /\ [j EXCEPT !.order.total = x].op = j.op
<1>1. PICK t : j \in JobWith(t)
  BY DEF JobOK
<1> DEFINE k == [j EXCEPT !.order.total = x]
<1>2. [j.order EXCEPT !.total = x] \in OrderWith(x)
  BY <1>1 DEF JobWith, OrderWith
<1>3. k \in JobWith(x) /\ k.lines = j.lines /\ k.op = j.op
  BY <1>1, <1>2 DEF JobWith
<1> QED BY <1>3 DEF JobOK

LEMMA StartSumKeeps ==
  ASSUME Inv, NEW r \in Requests, StartSum(r), price' \in [Products -> Nat],
         DOMAIN cart' = Carts, \A c \in Carts : LineOK(cart'[c]), order' = order
  PROVE  Inv'
<1> DEFINE j == [job[r] EXCEPT !.order.total = 0]
<1>1. JobOK(job[r]) /\ job[r].order.carts \subseteq Carts
  BY DEF Inv, RequestOK, JobOK, JobWith, OrderWith
<1>2. JobOK(j)
  BY <1>1, TotalKeepsJob
<1>3. PICK c \in job[r].order.carts :
        /\ at' = [at EXCEPT ![r] = c]
        /\ todo' = [todo EXCEPT ![r] = job[r].order.carts \ {c}]
  BY DEF StartSum
<1>4. job' = [job EXCEPT ![r] = j] /\ pc' = [pc EXCEPT ![r] = "sum"]
  BY DEF StartSum
<1> HIDE DEF j
<1>5. /\ OthersStay(r) /\ job'[r] = j /\ pc'[r] = "sum" /\ at'[r] = c
      /\ todo'[r] = job[r].order.carts \ {c}
  BY <1>3, <1>4 DEF Inv, Domains, OthersStay
<1>6. RequestOK(r)'
  BY <1>1, <1>2, <1>3, <1>5 DEF RequestOK
<1> QED BY <1>5, <1>6, RequestMoves DEF Inv

LEMMA LineBegins ==
  ASSUME Inv, NEW r \in Requests, NEW op \in Ops, NEW o \in Orders, NEW node,
         NEW c \in Carts, NEW n, NEW first \in {"cart", "move"},
         OrderOK(node), LineOK(n), first = "move" => op \in {"quantity", "delete"},
         Begin(r, op, o, node, c, Only(c, n), {c}, first)
  PROVE  Inv'
<1> DEFINE lines == Only(c, n)
<1>1. lines \in [Carts -> Line] /\ \A d \in Carts : LineOK(lines[d])
  BY OnlyOK
<1>2. Begin(r, op, o, node, c, lines, {c}, first)
  OBVIOUS
<1>3. {c} # {} /\ {c} \in SUBSET Carts /\ c \in Carts \cup {NoCart}
  OBVIOUS
<1> HIDE DEF lines
<1> QED BY <1>1, <1>2, <1>3, BeginKeeps

-----------------------------------------------------------------------------
(* The handlers.                                                           *)

LEMMA SaleKeeps ==
  ASSUME Inv, NEW r \in Requests, NEW o \in Orders, NEW S \in SUBSET Carts,
         NEW product \in [S -> Products], NEW quantity \in [S -> 1..MaxQuantity],
         NEW unit \in [S -> SalePrices], SaveOrderLocal(r, o, S, product, quantity, unit)
  PROVE  Inv'
<1> DEFINE row(c) == [NoLine EXCEPT !.state = "saved", !.product = product[c]]
           lines == [c \in Carts |-> IF c \in S THEN Priced(row(c), quantity[c], unit[c])
                                     ELSE NoLine]
           node == [saved |-> TRUE, cancelled |-> FALSE, carts |-> S,
                    total |-> TotalOf(S, lines)]
<1>1. ASSUME NEW c \in Carts PROVE LineOK(lines[c])
  <2>1. CASE c \in S
    <3>1. product[c] \in Products /\ quantity[c] \in Nat /\ unit[c] \in Nat
      <4>1. MaxQuantity \in Nat
        BY TotalsAssumption
      <4>2. quantity[c] \in 1..MaxQuantity
        BY <2>1
      <4>3. quantity[c] \in Nat
        BY <4>1, <4>2
      <4>4. SalePrices \subseteq Nat
        BY TotalsAssumption
      <4>5. unit[c] \in SalePrices /\ product[c] \in Products
        BY <2>1
      <4> QED BY <4>3, <4>4, <4>5
    <3>2. row(c) \in Line /\ row(c).product = product[c]
      BY <3>1, NoLineOK DEF NoLine, LineOK, Line
    <3>3. LineOK(Priced(row(c), quantity[c], unit[c]))
      <4> HIDE DEF row
      <4> QED BY <3>1, <3>2, PricedOK
    <3> HIDE DEF row
    <3> QED BY <2>1, <3>3
  <2>2. CASE c \notin S
    BY <2>2, NoLineOK
  <2> QED BY <2>1, <2>2
<1>2. S # {} /\ Begin(r, "sale", o, node, NoCart, lines, S, "cart")
  BY DEF SaveOrderLocal
<1>3. lines \in [Carts -> Line]
  <2>1. \A c \in Carts : lines[c] \in Line
    BY <1>1 DEF LineOK
  <2> QED BY <2>1
<1>4. OrderOK(node)
  <2> DEFINE t == TotalOf(S, lines)
  <2>1. [saved |-> TRUE, cancelled |-> FALSE, carts |-> S, total |-> t] \in OrderWith(t)
    <3> HIDE DEF t, lines
    <3> QED BY DEF OrderWith
  <2> QED BY <2>1 DEF OrderOK
<1> HIDE DEF lines, node
<1> QED BY <1>1, <1>2, <1>3, <1>4, BeginKeeps DEF Ops

LEMMA OrderChanged ==
  ASSUME NEW o, OrderOK(o), NEW cancelled \in BOOLEAN, NEW S \in SUBSET Carts
  PROVE  /\ OrderOK([o EXCEPT !.cancelled = cancelled])
         /\ OrderOK([o EXCEPT !.carts = S]) /\ o.carts \subseteq Carts
<1>1. PICK t : o \in OrderWith(t)
  BY DEF OrderOK
<1>2. /\ [o EXCEPT !.cancelled = cancelled] \in OrderWith(t)
      /\ [o EXCEPT !.carts = S] \in OrderWith(t) /\ o.carts \subseteq Carts
  BY <1>1 DEF OrderWith
<1> QED BY <1>2 DEF OrderOK

LEMMA ReceiveKeeps ==
  ASSUME Inv, NEW r \in Requests, Receive(r)
  PROVE  Inv'
<1>1. PICK o \in Orders :
        \/ Sale(r, o)
        \/ \E cancelled \in BOOLEAN : UpdateStatusLocal(r, o, cancelled)
        \/ CancelOrderLocal(r, o)
        \/ \E c \in Carts :
             \/ \E unit \in EditPrices : UpdateCartPrice(r, o, c, unit)
             \/ UpdateCartPurchasePrice(r, o, c)
             \/ \E q \in 1..MaxQuantity, given \in EditPrices \cup {NoPrice} :
                  UpdateCartQuantity(r, o, c, q, given)
             \/ DeleteCartLine(r, o, c)
  BY DEF Receive
<1>2. OrderOK(order[o]) /\ order[o].carts \subseteq Carts
  BY OrderChanged DEF Inv
<1>3. CASE Sale(r, o)
  BY <1>3, SaleKeeps DEF Sale
<1>4. ASSUME NEW cancelled \in BOOLEAN, UpdateStatusLocal(r, o, cancelled) PROVE Inv'
  <2>1. Begin(r, "status", o, [order[o] EXCEPT !.cancelled = cancelled], NoCart,
              NoJob.lines, {}, "order")
    BY <1>4 DEF UpdateStatusLocal
  <2>2. OrderOK([order[o] EXCEPT !.cancelled = cancelled])
    BY <1>2, OrderChanged
  <2> DEFINE node == [order[o] EXCEPT !.cancelled = cancelled]
             lines == NoJob.lines
  <2>3. OrderOK(node) /\ lines \in [Carts -> Line] /\ (\A d \in Carts : LineOK(lines[d]))
        /\ Begin(r, "status", o, node, NoCart, lines, {}, "order")
    BY <2>1, <2>2, NoJobOK
  <2>4. "status" \in Ops /\ "order" \notin AtLine /\ NoCart \in Carts \cup {NoCart}
    BY DEF Ops, AtLine
  <2> HIDE DEF node, lines
  <2> QED BY <2>3, <2>4, BeginKeeps
<1>5. CASE CancelOrderLocal(r, o)
  <2>1. /\ order[o].carts # {}
        /\ Begin(r, "cancel", o, [order[o] EXCEPT !.cancelled = TRUE], NoCart,
                 NoJob.lines, order[o].carts, "load")
    BY <1>5 DEF CancelOrderLocal
  <2>2. OrderOK([order[o] EXCEPT !.cancelled = TRUE])
    BY <1>2, OrderChanged
  <2> DEFINE node == [order[o] EXCEPT !.cancelled = TRUE]
             lines == NoJob.lines
             S == order[o].carts
  <2>3. OrderOK(node) /\ lines \in [Carts -> Line] /\ (\A d \in Carts : LineOK(lines[d]))
        /\ Begin(r, "cancel", o, node, NoCart, lines, S, "load")
    BY <2>1, <2>2, NoJobOK
  <2>4. S # {} /\ S \in SUBSET Carts /\ "cancel" \in Ops
    BY <2>1, <1>2 DEF Ops
  <2> HIDE DEF node, lines, S
  <2> QED BY <2>3, <2>4, BeginKeeps
<1>6. ASSUME NEW c \in Carts,
             \/ \E unit \in EditPrices : UpdateCartPrice(r, o, c, unit)
             \/ UpdateCartPurchasePrice(r, o, c)
             \/ \E q \in 1..MaxQuantity, given \in EditPrices \cup {NoPrice} :
                  UpdateCartQuantity(r, o, c, q, given)
             \/ DeleteCartLine(r, o, c)
      PROVE  Inv'
  <2> DEFINE n == cart[c]
  <2>1. n.state = "saved" /\ LineOK(n) /\ n \in Line /\ n.product \in Products /\ n.qty \in Nat
    BY <1>6 DEF UpdateCartPrice, UpdateCartPurchasePrice, UpdateCartQuantity,
                DeleteCartLine, EditableLine, Inv, LineOK, Line
  <2> HIDE DEF n
  <2>2. ASSUME NEW unit \in EditPrices, UpdateCartPrice(r, o, c, unit) PROVE Inv'
    <3>1. LineOK(Priced(n, n.qty, unit))
      BY <2>1, PricedOK, TotalsAssumption
    <3>2. Begin(r, "price", o, order[o], c, Only(c, Priced(n, n.qty, unit)), {c}, "cart")
      BY <2>2 DEF UpdateCartPrice, n
    <3> DEFINE m == Priced(n, n.qty, unit)
    <3> HIDE DEF m
    <3>3. LineOK(m) /\ Begin(r, "price", o, order[o], c, Only(c, m), {c}, "cart")
      BY <3>1, <3>2 DEF m
    <3> QED BY <3>3, <1>2, LineBegins DEF Ops
  <2>3. CASE UpdateCartPurchasePrice(r, o, c)
    <3>1. Begin(r, "purchase", o, order[o], c, Only(c, n), {c}, "cart")
      BY <2>3 DEF UpdateCartPurchasePrice, n
    <3> QED BY <3>1, <2>1, <1>2, LineBegins DEF Ops
  <2>4. ASSUME NEW q \in 1..MaxQuantity, NEW given \in EditPrices \cup {NoPrice},
               UpdateCartQuantity(r, o, c, q, given)
        PROVE  Inv'
    <3> DEFINE unit == IF given = NoPrice THEN EffectivePrice(n) ELSE given
               first == IF q = n.qty THEN "cart" ELSE "move"
    <3>1. unit \in Nat /\ q \in Nat
      BY <2>1, EffectiveNat, TotalsAssumption
    <3>2. Begin(r, "quantity", o, order[o], c, Only(c, Priced(n, q, unit)), {c}, first)
      BY <2>4 DEF UpdateCartQuantity, n
    <3> HIDE DEF unit, first
    <3>3. LineOK(Priced(n, q, unit))
      BY <2>1, <3>1, PricedOK
    <3>4. first \in {"cart", "move"}
      BY DEF first
    <3> QED BY <3>2, <3>3, <3>4, <1>2, LineBegins DEF Ops
  <2>5. CASE DeleteCartLine(r, o, c)
    <3>1. Begin(r, "delete", o, [order[o] EXCEPT !.carts = @ \ {c}], c, Only(c, n), {c}, "move")
      BY <2>5 DEF DeleteCartLine, n
    <3>2. OrderOK([order[o] EXCEPT !.carts = @ \ {c}])
      BY <1>2, OrderChanged
    <3> QED BY <3>1, <3>2, <2>1, LineBegins DEF Ops
  <2> QED BY <1>6, <2>2, <2>3, <2>4, <2>5
<1> QED BY <1>1, <1>3, <1>4, <1>5, <1>6

-----------------------------------------------------------------------------
(* The steps.                                                              *)

LEMMA StoredOK ==
  ASSUME Inv, NEW c \in Carts, NEW n, LineOK(n), cart' = Stored(c, n)
  PROVE  DOMAIN cart' = Carts /\ \A d \in Carts : LineOK(cart'[d])
BY DEF Inv, Stored

LEMMA LinesKept ==
  ASSUME Inv, NEW j, JobOK(j), NEW c \in Carts, NEW n, LineOK(n), NEW x
  PROVE  /\ JobOK([j EXCEPT !.lines[c] = n]) /\ [j EXCEPT !.lines[c] = n].op = j.op
         /\ JobOK([j EXCEPT !.lines[c] = n, !.order.total = x])
<1>1. PICK t : j \in JobWith(t)
  BY DEF JobOK
<1> DEFINE k == [j EXCEPT !.lines[c] = n]
           lines == [j.lines EXCEPT ![c] = n]
<1>2. lines \in [Carts -> Line] /\ \A d \in Carts : LineOK(lines[d])
  BY <1>1 DEF JobWith, JobOK, LineOK
<1>3. k \in JobWith(t) /\ k.lines = lines /\ k.op = j.op
  <2> HIDE DEF lines
  <2>1. k = [j EXCEPT !.lines = lines]
    BY DEF lines
  <2> HIDE DEF k
  <2> QED BY <1>1, <1>2, <2>1 DEF JobWith
<1> HIDE DEF lines
<1>4. JobOK(k)
  <2> HIDE DEF k
  <2> QED BY <1>2, <1>3 DEF JobOK
<1>5. JobOK([k EXCEPT !.order.total = x])
  <2> HIDE DEF k
  <2> QED BY <1>4, TotalKeepsJob
<1>6. [k EXCEPT !.order.total = x] = [j EXCEPT !.lines[c] = n, !.order.total = x]
  OBVIOUS
<1> QED BY <1>3, <1>4, <1>5, <1>6

LEMMA CancelLoadKeeps ==
  ASSUME Inv, NEW r \in Requests, CancelLoad(r)
  PROVE  Inv'
<1> DEFINE c == at[r]
<1>1. pc[r] = "load" /\ UNCHANGED <<price, cart, order, started, torn>>
  BY DEF CancelLoad
<1>2. RequestOK(r) /\ c \in Carts /\ LineOK(cart[c]) /\ JobOK(job[r])
  BY <1>1 DEF Inv, RequestOK, AtLine
<1>3. CASE cart[c].state # "saved"
  <2>1. NextLine(r, "load") /\ job' = [job EXCEPT ![r] = job[r]]
    BY <1>3 DEF CancelLoad, Inv, Domains
  <2>2. job[r].op = "cancel"
    BY <1>1, <1>2 DEF RequestOK
  <2> QED BY <2>1, <2>2, <1>1, <1>2, NextLineKeeps DEF Inv
<1>4. CASE cart[c].state = "saved"
  <2> DEFINE j == [job[r] EXCEPT !.lines[c] = cart[c]]
  <2>1. /\ job' = [job EXCEPT ![r] = j] /\ pc' = [pc EXCEPT ![r] = "move"]
        /\ UNCHANGED <<at, todo>>
    BY <1>4 DEF CancelLoad
  <2>2. JobOK(j) /\ j.op = "cancel"
    BY <1>1, <1>2, LinesKept DEF RequestOK
  <2> HIDE DEF j
  <2> QED BY <2>1, <2>2, <1>1, <1>2, SameLineKeeps DEF Inv
<1> QED BY <1>3, <1>4

LEMMA SaveMovementKeeps ==
  ASSUME Inv, NEW r \in Requests, SaveMovement(r)
  PROVE  Inv'
<1> DEFINE c == at[r]
           n == job[r].lines[c]
<1>1. pc[r] = "move" /\ price' = PriceAfter(n) /\ UNCHANGED <<cart, order, started, torn>>
  BY DEF SaveMovement
<1>2. /\ RequestOK(r) /\ c \in Carts /\ JobOK(job[r]) /\ LineOK(n)
      /\ job[r].op \in {"sale", "cancel", "quantity", "delete"}
  BY <1>1 DEF Inv, RequestOK, AtLine, JobOK
<1>3. price' \in [Products -> Nat]
  <2> HIDE DEF n
  <2>1. n.unit \in Nat
    BY <1>2 DEF LineOK, Line
  <2> QED BY <1>1, <2>1 DEF PriceAfter, Inv
<1>4. job' = job => job' = [job EXCEPT ![r] = job[r]]
  BY DEF Inv, Domains
<1>5. CASE job[r].op = "sale"
  <2>1. NextLine(r, "cart") /\ job' = job
    BY <1>5 DEF SaveMovement
  <2> QED BY <2>1, <1>1, <1>2, <1>3, <1>4, NextLineKeeps DEF Inv
<1>6. CASE job[r].op = "cancel"
  <2>1. NextLine(r, "load") /\ job' = job
    BY <1>6 DEF SaveMovement
  <2> QED BY <2>1, <1>1, <1>2, <1>3, <1>4, <1>6, NextLineKeeps DEF Inv
<1>7. CASE job[r].op = "quantity"
  <2>1. pc' = [pc EXCEPT ![r] = "cart"] /\ UNCHANGED <<job, at, todo>>
    BY <1>7 DEF SaveMovement
  <2> QED BY <2>1, <1>1, <1>2, <1>3, <1>4, SameLineKeeps DEF Inv
<1>8. CASE job[r].op = "delete"
  <2>1. StartSum(r)
    BY <1>8 DEF SaveMovement
  <2> QED BY <2>1, <1>1, <1>3, StartSumKeeps DEF Inv
<1> QED BY <1>2, <1>5, <1>6, <1>7, <1>8

LEMMA SaveCartKeeps ==
  ASSUME Inv, NEW r \in Requests, SaveCart(r)
  PROVE  Inv'
<1> DEFINE c == at[r]
           n == job[r].lines[c]
<1>1. pc[r] = "cart" /\ cart' = Stored(c, n) /\ UNCHANGED <<price, order, started, torn>>
  BY DEF SaveCart
<1>2. c \in Carts /\ JobOK(job[r]) /\ LineOK(n)
  BY <1>1 DEF Inv, RequestOK, AtLine, JobOK
<1>3. DOMAIN cart' = Carts /\ \A d \in Carts : LineOK(cart'[d])
  <2> HIDE DEF n
  <2> QED BY <1>1, <1>2, StoredOK
<1>4. CASE job[r].op = "sale"
  <2>1. /\ pc' = [pc EXCEPT ![r] = "move"] /\ UNCHANGED <<job, at, todo>>
        /\ job' = [job EXCEPT ![r] = job[r]]
    BY <1>4 DEF SaveCart, Inv, Domains
  <2> QED BY <2>1, <1>1, <1>2, <1>3, <1>4, SameLineKeeps DEF Inv
<1>5. CASE job[r].op = "purchase"
  <2>1. End(r)
    BY <1>5 DEF SaveCart
  <2> QED BY <2>1, <1>1, <1>3, EndKeeps DEF Inv
<1>6. CASE job[r].op \notin {"sale", "purchase"}
  <2>1. StartSum(r)
    BY <1>6 DEF SaveCart
  <2> QED BY <2>1, <1>1, <1>3, StartSumKeeps DEF Inv
<1> QED BY <1>4, <1>5, <1>6

LEMMA SumLineKeeps ==
  ASSUME Inv, NEW r \in Requests, SumLine(r)
  PROVE  Inv'
<1> DEFINE c == at[r]
           n == cart[c]
           x == job[r].order.total + CountedTotal(r, n)
<1>1. pc[r] = "sum" /\ UNCHANGED <<price, cart, order, started, torn>>
  BY DEF SumLine
<1>2. c \in Carts /\ JobOK(job[r]) /\ LineOK(n)
  BY <1>1 DEF Inv, RequestOK, AtLine
<1>3. CASE n.state = "saved" /\ job[r].op = "quantity"
  <2> DEFINE m == Recomputed(n)
             j == [job[r] EXCEPT !.lines[c] = m, !.order.total = x]
  <2>1. LineOK(m)
    <3> HIDE DEF n
    <3> QED BY <1>2, <1>3, RecomputedOK
  <2>2. JobOK(j)
    <3> HIDE DEF m, x
    <3> QED BY <1>2, <2>1, LinesKept
  <2>3. /\ job' = [job EXCEPT ![r] = j] /\ pc' = [pc EXCEPT ![r] = "resave"]
        /\ UNCHANGED <<at, todo>>
    BY <1>3 DEF SumLine
  <2> HIDE DEF j
  <2> QED BY <2>2, <2>3, <1>1, <1>2, SameLineKeeps DEF Inv
<1>4. CASE n.state = "saved" /\ job[r].op # "quantity"
  <2> DEFINE j == [job[r] EXCEPT !.order.total = x]
  <2>1. NextLine(r, "sum") /\ job' = [job EXCEPT ![r] = j]
    BY <1>4 DEF SumLine
  <2>2. JobOK(j)
    <3> HIDE DEF x
    <3> QED BY <1>2, TotalKeepsJob
  <2> HIDE DEF j
  <2> QED BY <2>1, <2>2, <1>1, NextLineKeeps DEF Inv
<1>5. CASE n.state # "saved"
  <2>1. NextLine(r, "sum") /\ job' = [job EXCEPT ![r] = job[r]]
    BY <1>5 DEF SumLine, Inv, Domains
  <2> QED BY <2>1, <1>1, <1>2, NextLineKeeps DEF Inv
<1> QED BY <1>3, <1>4, <1>5

LEMMA ResaveLineKeeps ==
  ASSUME Inv, NEW r \in Requests, ResaveLine(r)
  PROVE  Inv'
<1> DEFINE c == at[r]
           n == job[r].lines[c]
<1>1. /\ pc[r] = "resave" /\ cart' = Stored(c, n) /\ NextLine(r, "sum")
      /\ UNCHANGED <<price, order, job, started, torn>>
  BY DEF ResaveLine
<1>2. c \in Carts /\ JobOK(job[r]) /\ LineOK(n)
  BY <1>1 DEF Inv, RequestOK, AtLine, JobOK
<1>3. DOMAIN cart' = Carts /\ \A d \in Carts : LineOK(cart'[d])
  <2> HIDE DEF n
  <2> QED BY <1>1, <1>2, StoredOK
<1>4. job' = [job EXCEPT ![r] = job[r]]
  BY <1>1 DEF Inv, Domains
<1> QED BY <1>1, <1>2, <1>3, <1>4, NextLineKeeps DEF Inv

LEMMA SaveOrderKeeps ==
  ASSUME Inv, NEW r \in Requests, SaveOrder(r)
  PROVE  Inv'
<1>1. /\ order' = [order EXCEPT ![job[r].nid] = job[r].order]
      /\ UNCHANGED <<price, cart, started, torn>>
  BY DEF SaveOrder
<1>2. JobOK(job[r]) /\ OrderOK(job[r].order)
  BY DEF Inv, RequestOK, JobOK, JobWith, OrderOK
<1>3. DOMAIN order' = Orders /\ \A o \in Orders : OrderOK(order'[o])
  BY <1>1, <1>2 DEF Inv
<1>4. CASE job[r].op = "delete"
  <2>1. /\ pc' = [pc EXCEPT ![r] = "drop"] /\ UNCHANGED <<at, todo>>
        /\ job' = [job EXCEPT ![r] = job[r]]
    BY <1>4 DEF SaveOrder, Inv, Domains
  <2> QED BY <2>1, <1>1, <1>2, <1>3, SameLineKeeps DEF Inv
<1>5. CASE job[r].op # "delete"
  <2>1. End(r)
    BY <1>5 DEF SaveOrder
  <2> QED BY <2>1, <1>1, <1>3, EndKeeps DEF Inv
<1> QED BY <1>4, <1>5

LEMMA DropCartKeeps ==
  ASSUME Inv, NEW r \in Requests, DropCart(r)
  PROVE  Inv'
<1> DEFINE none == [NoLine EXCEPT !.state = "deleted"]
<1>1. /\ cart' = [cart EXCEPT ![job[r].line] = none] /\ End(r)
      /\ UNCHANGED <<price, order, started>>
  BY DEF DropCart
<1>2. LineOK(none)
  BY NoLineOK
<1> HIDE DEF none
<1>3. DOMAIN cart' = Carts /\ \A d \in Carts : LineOK(cart'[d])
  BY <1>1, <1>2 DEF Inv
<1> QED BY <1>1, <1>3, EndKeeps DEF Inv

-----------------------------------------------------------------------------

LEMMA InitInv == Init => Inv
<1> SUFFICES ASSUME Init PROVE Inv
  OBVIOUS
<1>1. price \in [Products -> Nat]
  BY TotalsAssumption DEF Init
<1>2. DOMAIN cart = Carts /\ \A c \in Carts : LineOK(cart[c])
  BY NoLineOK DEF Init
<1>3. DOMAIN order = Orders /\ \A o \in Orders : OrderOK(order[o])
  <2>1. Blank \in OrderWith(0)
    BY DEF Blank, OrderWith
  <2> QED BY <2>1 DEF Init, OrderOK
<1>4. Domains
  BY DEF Init, Domains
<1>5. \A r \in Requests : RequestOK(r)
  BY NoJobOK DEF Init, RequestOK, AtLine
<1> QED BY <1>1, <1>2, <1>3, <1>4, <1>5 DEF Inv

LEMMA NextKeepsInv ==
  ASSUME Inv, [Next]_vars
  PROVE  Inv'
<1>1. CASE UNCHANGED vars
  BY <1>1 DEF vars, Inv, Domains, RequestOK
<1>2. ASSUME NEW r \in Requests, Receive(r) PROVE Inv'
  BY <1>2, ReceiveKeeps
<1>3. ASSUME NEW r \in Requests, Step(r) PROVE Inv'
  BY <1>3, CancelLoadKeeps, SaveMovementKeeps, SaveCartKeeps, SumLineKeeps,
     ResaveLineKeeps, SaveOrderKeeps, DropCartKeeps DEF Step
<1>4. ASSUME NEW r \in Requests, Fail(r) PROVE Inv'
  BY <1>4, EndKeeps DEF Fail, Inv
<1> QED BY <1>1, <1>2, <1>3, <1>4 DEF Next

\* A line that has a price of its own has the total that goes with its
\* quantity, whatever requests write it at a time or are stopped: every save
\* of a cart in OrderLocalController writes the two together.
THEOREM LineStaysPriced == Spec => []LinePriced
<1>1. Inv => LinePriced
  BY DEF Inv, LineOK, LinePriced
<1>2. Spec => []Inv
  BY InitInv, NextKeepsInv, PTL DEF Spec
<1> QED BY <1>1, <1>2, PTL

-----------------------------------------------------------------------------
(* Sums over a set of lines.  TotalOf adds up the set one line after the   *)
(* other, as CHOOSE takes them; to be free of the order, a sum is shown to *)
(* be the number of pairs of a line and a unit of its total.               *)

Less == OpToRel(<, Nat)

LEMMA LeastNumber ==
  ASSUME NEW T \in SUBSET Nat, T # {}
  PROVE  \E n \in T : \A m \in T : n <= m
<1>1. \E n \in T : \A m \in T : ~ (<<m, n>> \in Less)
  BY NatLessThanWellFounded, WFMin, Zenon DEF Less
<1>2. PICK n \in T : \A m \in T : ~ (<<m, n>> \in Less)
  BY <1>1
<1>3. ASSUME NEW m \in T PROVE n <= m
  <2>1. <<m, n>> \in Less <=> m < n
    BY DEF Less, OpToRel
  <2> QED BY <1>2, <2>1
<1> QED BY <1>3

\* What holds of a set if it holds of it without any one of its elements.
LEMMA SetInduction ==
  ASSUME NEW S, IsFiniteSet(S), NEW T, {} \in T,
         \A s \in SUBSET S : s # {} /\ (\A x \in s : s \ {x} \in T) => s \in T
  PROVE  SUBSET S \subseteq T
<1> SUFFICES ASSUME (SUBSET S) \ T # {} PROVE FALSE
  OBVIOUS
<1> DEFINE Sizes == {Cardinality(s) : s \in (SUBSET S) \ T}
<1>1. \A s \in SUBSET S : IsFiniteSet(s) /\ Cardinality(s) \in Nat
  BY FS_Subset, FS_CardinalityType
<1>2. Sizes \in SUBSET Nat /\ Sizes # {}
  BY <1>1
<1>3. PICK n \in Sizes : \A m \in Sizes : n <= m
  <2> HIDE DEF Sizes
  <2> QED BY <1>2, LeastNumber
<1>4. PICK s \in (SUBSET S) \ T : n = Cardinality(s)
  BY <1>3
<1>5. ASSUME NEW x \in s PROVE s \ {x} \in T
  <2>1. Cardinality(s \ {x}) = Cardinality(s) - 1
    BY <1>1, <1>4, FS_RemoveElement
  <2>2. Cardinality(s) \in Nat /\ s \ {x} \in SUBSET S
    BY <1>1, <1>4
  <2>3. s \ {x} \notin T => Cardinality(s \ {x}) \in Sizes
    BY <2>2
  <2> QED BY <2>1, <2>2, <2>3, <1>3, <1>4
<1>6. s # {}
  BY <1>4
<1> QED BY <1>4, <1>5, <1>6

Pairs(S, f) == UNION {{c} \X (1..f[c].total) : c \in S}

Totals(S, f) == \A c \in S : f[c].total \in Nat

LEMMA PairsMore ==
  ASSUME NEW f, NEW S, NEW x \in S, Totals(S, f), IsFiniteSet(Pairs(S \ {x}, f))
  PROVE  /\ IsFiniteSet(Pairs(S, f))
         /\ Cardinality(Pairs(S, f)) = f[x].total + Cardinality(Pairs(S \ {x}, f))
<1> DEFINE I == 1..f[x].total
           A == {x} \X I
           B == Pairs(S \ {x}, f)
<1>1. f[x].total \in Nat
  BY DEF Totals
<1>2. IsFiniteSet(I) /\ Cardinality(I) = f[x].total
  <2>1. PICK n : n = f[x].total
    OBVIOUS
  <2>2. n \in Nat /\ IsFiniteSet(1..n) /\ Cardinality(1..n) = IF 1 > n THEN 0 ELSE n - 1 + 1
    BY <1>1, <2>1, FS_Interval
  <2>3. Cardinality(1..n) = n
    BY <2>2
  <2> QED BY <2>1, <2>2, <2>3
<1>3. IsFiniteSet({x}) /\ Cardinality({x}) = 1
  BY FS_Singleton
<1>4. IsFiniteSet(A) /\ Cardinality(A) = Cardinality({x}) * Cardinality(I)
  <2> HIDE DEF I
  <2> QED BY <1>2, <1>3, FS_Product
<1>5. Pairs(S, f) = A \cup B /\ A \cap B = {}
  BY DEF Pairs
<1>6. IsFiniteSet(A \cup B)
      /\ Cardinality(A \cup B) = Cardinality(A) + Cardinality(B) - Cardinality(A \cap B)
  <2> HIDE DEF A
  <2> QED BY <1>4, FS_Union
<1>7. Cardinality(A \cap B) = 0 /\ Cardinality(B) \in Nat
  BY <1>5, FS_EmptySet, FS_CardinalityType
<1> HIDE DEF A, B, I
<1>8. Cardinality(A) = f[x].total
  BY <1>1, <1>2, <1>3, <1>4
<1>9. Cardinality(Pairs(S, f)) = f[x].total + Cardinality(B)
  BY <1>1, <1>5, <1>6, <1>7, <1>8
<1> QED BY <1>5, <1>6, <1>9 DEF B

LEMMA PairsFinite ==
  ASSUME NEW f, NEW S, IsFiniteSet(S), Totals(S, f)
  PROVE  \A s \in SUBSET S : IsFiniteSet(Pairs(s, f)) /\ Totals(s, f)
<1> DEFINE T == {s \in SUBSET S : IsFiniteSet(Pairs(s, f))}
<1>1. {} \in T
  BY FS_EmptySet DEF Pairs
<1>2. ASSUME NEW s \in SUBSET S, s # {}, \A x \in s : s \ {x} \in T PROVE s \in T
  <2>1. PICK x : x \in s
    BY <1>2
  <2>2. IsFiniteSet(Pairs(s \ {x}, f)) /\ Totals(s, f)
    BY <1>2, <2>1 DEF Totals
  <2> QED BY <2>1, <2>2, PairsMore
<1>3. SUBSET S \subseteq T
  <2> HIDE DEF T
  <2> QED BY <1>1, <1>2, SetInduction
<1> QED BY <1>3 DEF Totals
LEMMA CountsAdd ==
  ASSUME NEW f, NEW S, IsFiniteSet(S), Totals(S, f)
  PROVE  TotalOf(S, f) = Cardinality(Pairs(S, f))
<1> DEFINE Last(s) == CHOOSE x \in s : TRUE
           Adds(h) == h = [s \in SUBSET S |-> IF s = {} THEN 0
                             ELSE f[Last(s)].total + h[s \ {Last(s)}]]
           count == [s \in SUBSET S |-> Cardinality(Pairs(s, f))]
<1>1. \A s \in SUBSET S : IsFiniteSet(Pairs(s, f)) /\ Totals(s, f)
  BY PairsFinite
<1>2. \A s \in SUBSET S : s # {} => Last(s) \in s /\ s \ {Last(s)} \in SUBSET S
  OBVIOUS
<1>3. Cardinality(Pairs({}, f)) = 0
  BY FS_EmptySet DEF Pairs
<1>4. ASSUME NEW s \in SUBSET S, s # {}, NEW x \in s
      PROVE  Cardinality(Pairs(s, f)) = f[x].total + Cardinality(Pairs(s \ {x}, f))
  <2>1. IsFiniteSet(Pairs(s \ {x}, f)) /\ Totals(s, f)
    BY <1>1
  <2> QED BY <2>1, PairsMore
<1>5. Adds(count)
  <2> HIDE DEF Last
  <2>1. \A s \in SUBSET S : count[s] = IF s = {} THEN 0
                             ELSE f[Last(s)].total + count[s \ {Last(s)}]
    BY <1>2, <1>3, <1>4
  <2> QED BY <2>1
<1>6. ASSUME NEW h, Adds(h) PROVE h[S] = count[S]
  <2> DEFINE T == {s \in SUBSET S : h[s] = count[s]}
  <2> HIDE DEF Last
  <2>1. \A s \in SUBSET S : h[s] = IF s = {} THEN 0
                                    ELSE f[Last(s)].total + h[s \ {Last(s)}]
    BY <1>6, Zenon
  <2>2. {} \in T
    BY <2>1, <1>3
  <2>3. ASSUME NEW s \in SUBSET S, s # {}, \A x \in s : s \ {x} \in T PROVE s \in T
    <3>1. PICK x : x = Last(s)
      OBVIOUS
    <3>2. x \in s /\ s \ {x} \in SUBSET S
      BY <1>2, <2>3, <3>1
    <3>3. h[s \ {x}] = count[s \ {x}]
      BY <2>3, <3>2
    <3>4. h[s] = f[x].total + h[s \ {x}]
      BY <2>1, <2>3, <3>1
    <3>5. count[s] = f[x].total + count[s \ {x}]
      BY <1>4, <2>3, <3>2
    <3> QED BY <3>3, <3>4, <3>5
  <2>4. SUBSET S \subseteq T
    <3> HIDE DEF T
    <3> QED BY <2>2, <2>3, SetInduction
  <2> QED BY <2>4
<1>7. TotalOf(S, f) = (CHOOSE h : Adds(h))[S]
  BY Zenon DEF TotalOf, MapThenSumSet, MapThenFoldSet
<1> HIDE DEF Adds, count
<1>8. Adds(CHOOSE h : Adds(h))
  BY <1>5
<1>9. TotalOf(S, f) = count[S]
  BY <1>6, <1>7, <1>8
<1> QED BY <1>9 DEF count

LEMMA TotalNone == ASSUME NEW f PROVE TotalOf({}, f) = 0
<1>1. IsFiniteSet({}) /\ Totals({}, f) /\ Pairs({}, f) = {} /\ Cardinality({}) = 0
  BY FS_EmptySet DEF Totals, Pairs
<1>2. TotalOf({}, f) = Cardinality(Pairs({}, f))
  BY <1>1, CountsAdd
<1> QED BY <1>1, <1>2

LEMMA TotalNat ==
  ASSUME NEW f, NEW S, IsFiniteSet(S), Totals(S, f)
  PROVE  TotalOf(S, f) \in Nat
<1>1. TotalOf(S, f) = Cardinality(Pairs(S, f))
  BY CountsAdd
<1>2. IsFiniteSet(Pairs(S, f))
  BY PairsFinite
<1> QED BY <1>1, <1>2, FS_CardinalityType

\* Whatever line is taken last.
LEMMA TotalLess ==
  ASSUME NEW f, NEW S, IsFiniteSet(S), Totals(S, f), NEW x \in S
  PROVE  TotalOf(S, f) = TotalOf(S \ {x}, f) + f[x].total
<1>1. IsFiniteSet(S \ {x}) /\ Totals(S \ {x}, f)
  BY FS_RemoveElement DEF Totals
<1>2. TotalOf(S, f) = Cardinality(Pairs(S, f))
      /\ TotalOf(S \ {x}, f) = Cardinality(Pairs(S \ {x}, f))
  BY <1>1, CountsAdd
<1>3. IsFiniteSet(Pairs(S \ {x}, f))
  BY <1>1, PairsFinite
<1>4. Cardinality(Pairs(S, f)) = f[x].total + Cardinality(Pairs(S \ {x}, f))
  BY <1>3, PairsMore
<1>5. Cardinality(Pairs(S \ {x}, f)) \in Nat /\ f[x].total \in Nat
  BY <1>3, FS_CardinalityType DEF Totals
<1> QED BY <1>2, <1>4, <1>5

LEMMA TotalSame ==
  ASSUME NEW f, NEW g, NEW S, IsFiniteSet(S), Totals(S, f),
         \A c \in S : f[c].total = g[c].total
  PROVE  TotalOf(S, f) = TotalOf(S, g)
<1>1. Totals(S, g) /\ Pairs(S, f) = Pairs(S, g)
  BY DEF Totals, Pairs
<1> QED BY <1>1, CountsAdd

-----------------------------------------------------------------------------
(* Who may write what.                                                     *)

Works(r) == pc[r] # "idle"

\* The lines a request has in hand: those its order will have, and the one
\* it deletes.
Hand(j) == j.order.carts \cup (IF j.op = "delete" THEN {j.line} ELSE {})

\* The lines a sale has still to write.
ToWrite(step, j, c, T) ==
  IF j.op # "sale" THEN {} ELSE T \cup (IF step = "cart" THEN {c} ELSE {})

Summing == {"price", "quantity", "delete"}

\* The steps of each handler.
StepOf(step, op) ==
  \/ step = "load" /\ op = "cancel"
  \/ step = "move" /\ op \in {"sale", "cancel", "quantity", "delete"}
  \/ step = "cart" /\ op \in {"sale", "price", "purchase", "quantity"}
  \/ step = "sum" /\ op \in Summing
  \/ step = "resave" /\ op = "quantity"
  \/ step = "order" /\ op \in Ops \ {"purchase"}
  \/ step = "drop" /\ op = "delete"

\* A request with this step, this job, this line and these lines to come is
\* at one of the lines it has in hand, and what it will write are lines.
Placed(step, j, c, T) ==
  /\ j.nid \in Orders
  /\ StepOf(step, j.op)
  /\ T \subseteq j.order.carts
  /\ step \in AtLine => c \in Hand(j)
  /\ step \in {"sum", "resave"} => c \in j.order.carts
  /\ step = "order" => T = {}
  /\ step \in {"cart", "resave"} \/ (j.op = "quantity" /\ step = "move")
       => j.lines[c].state = "saved"
  /\ j.op = "delete" => j.line \in Carts \ j.order.carts
  /\ j.op = "quantity" /\ step \in {"cart", "move"} => c = j.line
  /\ j.op = "sale" => \A d \in j.order.carts : j.lines[d].state = "saved"

At(r) == Placed(pc[r], job[r], at[r], todo[r])

\* The lines in hand exist, but for those a sale has still to write.
Exist(r) ==
  \A c \in Hand(job[r]) \ ToWrite(pc[r], job[r], at[r], todo[r]) : cart[c].state # "unused"

\* The lines of an order, and those a request at work on it has in hand.
Claims(o) ==
  {c \in Carts : c \in order[o].carts
                 \/ \E r \in Requests : Works(r) /\ job[r].nid = o /\ c \in Hand(job[r])}

Owned ==
  /\ \A r \in Requests : IF Works(r) THEN At(r) /\ Exist(r) ELSE job[r] = NoJob
  /\ \A o \in Orders : \A c \in order[o].carts : cart[c].state # "unused"
  /\ \A c \in Carts : cart[c].state # "saved" => cart[c].total = 0
  /\ \A o, p \in Orders : o # p => Claims(o) \cap Claims(p) = {}
  /\ \A q, r \in Requests :
       Works(q) /\ Works(r) /\ job[q].nid = job[r].nid /\ job[r].nid \notin SharedOrders
         => q = r

\* A step of r: other requests stay, and r writes its order and its lines only.
Touches(r) ==
  /\ OthersStay(r)
  /\ IF Works(r)' THEN job'[r].nid = job[r].nid /\ Hand(job'[r]) = Hand(job[r])
                  ELSE job'[r] = NoJob
  /\ \A o \in Orders : \/ order'[o] = order[o]
                       \/ /\ o = job[r].nid /\ pc[r] = "order"
                          /\ order'[o] = job[r].order
  /\ \A c \in Carts : \/ cart'[c] = cart[c]
                      \/ /\ c \in Hand(job[r])
                         /\ cart'[c].state # "unused"
                         /\ cart'[c].state # "saved" => cart'[c].total = 0

-----------------------------------------------------------------------------

LEMMA Shapes ==
  ASSUME Inv
  PROVE  /\ \A o \in Orders : order[o].carts \subseteq Carts
         /\ \A r \in Requests : /\ job[r].order.carts \subseteq Carts
                                /\ job[r].lines \in [Carts -> Line]
                                /\ job[r].op \in Ops
         /\ \A c \in Carts : cart[c] \in Line
<1>1. \A o \in Orders : order[o].carts \subseteq Carts
  BY DEF Inv, OrderOK, OrderWith
<1>2. ASSUME NEW r \in Requests
      PROVE  /\ job[r].order.carts \subseteq Carts /\ job[r].lines \in [Carts -> Line]
             /\ job[r].op \in Ops
  BY DEF Inv, RequestOK, JobOK, JobWith, OrderWith
<1>3. \A c \in Carts : cart[c] \in Line
  BY DEF Inv, LineOK
<1> QED BY <1>1, <1>2, <1>3

LEMMA HandInCarts ==
  ASSUME Inv, NEW r \in Requests, At(r)
  PROVE  Hand(job[r]) \subseteq Carts
BY Shapes DEF At, Placed, Hand

\* What request r has in hand is claimed by its order.
LEMMA HandClaimed ==
  ASSUME Inv, Owned, NEW r \in Requests, Works(r)
  PROVE  job[r].nid \in Orders /\ Hand(job[r]) \subseteq Claims(job[r].nid)
<1>1. At(r)
  BY DEF Owned
<1>2. job[r].nid \in Orders
  BY <1>1 DEF At, Placed
<1> QED BY <1>1, <1>2, HandInCarts DEF Claims

LEMMA ClaimsShrink ==
  ASSUME Inv, Owned, NEW r \in Requests, Works(r), Touches(r), NEW o \in Orders
  PROVE  Claims(o)' \subseteq Claims(o)
<1>1. SUFFICES ASSUME NEW c \in Carts, c \in Claims(o)' PROVE c \in Claims(o)
  BY DEF Claims
<1>2. CASE c \in order'[o].carts
  <2>1. CASE order'[o] = order[o]
    BY <1>2, <2>1 DEF Claims
  <2>2. CASE o = job[r].nid /\ order'[o] = job[r].order
    <3>1. c \in Hand(job[r])
      BY <1>2, <2>2 DEF Hand
    <3> QED BY <2>2, <3>1 DEF Claims
  <2> QED BY <2>1, <2>2 DEF Touches
<1>3. ASSUME NEW q \in Requests, Works(q)', job'[q].nid = o, c \in Hand(job'[q])
      PROVE  c \in Claims(o)
  <2>1. Works(q) /\ job[q].nid = o /\ Hand(job[q]) = Hand(job'[q])
    <3>1. CASE q = r
      BY <1>3, <3>1 DEF Touches
    <3>2. CASE q # r
      BY <1>3, <3>2 DEF Touches, OthersStay, Works
    <3> QED BY <3>1, <3>2
  <2> QED BY <1>3, <2>1 DEF Claims
<1>4. \/ c \in order'[o].carts
      \/ \E q \in Requests : Works(q)' /\ job'[q].nid = o /\ c \in Hand(job'[q])
  BY <1>1 DEF Claims
<1> QED BY <1>2, <1>3, <1>4

LEMMA OwnedMoves ==
  ASSUME Inv, Owned, NEW r \in Requests, Works(r), Touches(r),
         Works(r)' => At(r)' /\ Exist(r)'
  PROVE  Owned'
<1>1. \A c \in Carts : cart'[c].state = "unused" => cart[c].state = "unused"
  BY DEF Touches
<1>2. ASSUME NEW q \in Requests
      PROVE  IF Works(q)' THEN At(q)' /\ Exist(q)' ELSE job'[q] = NoJob
  <2>1. CASE q = r
    BY <2>1 DEF Touches
  <2>2. CASE q # r
    <3>1. pc'[q] = pc[q] /\ job'[q] = job[q] /\ at'[q] = at[q] /\ todo'[q] = todo[q]
      BY <2>2 DEF Touches, OthersStay
    <3>2. ASSUME ~Works(q)' PROVE job'[q] = NoJob
      BY <3>1, <3>2 DEF Owned, Works
    <3>3. ASSUME Works(q)' PROVE At(q)' /\ Exist(q)'
      <4>1. At(q) /\ Exist(q)
        BY <3>1, <3>3 DEF Owned, Works
      <4>2. At(q)'
        BY <3>1, <4>1 DEF At
      <4>3. Hand(job[q]) \subseteq Carts
        BY <4>1, HandInCarts
      <4>4. Exist(q)'
        BY <1>1, <3>1, <4>1, <4>3 DEF Exist
      <4> QED BY <4>2, <4>4
    <3> QED BY <3>2, <3>3
  <2> QED BY <2>1, <2>2
<1>3. ASSUME NEW o \in Orders, NEW c \in order'[o].carts PROVE cart'[c].state # "unused"
  <2>1. CASE order'[o] = order[o]
    <3>1. c \in Carts /\ cart[c].state # "unused"
      BY <2>1, <1>3, Shapes DEF Owned
    <3> QED BY <1>1, <3>1
  <2>2. CASE pc[r] = "order" /\ order'[o] = job[r].order
    <3>1. At(r) /\ Exist(r)
      BY DEF Owned
    <3>2. ToWrite(pc[r], job[r], at[r], todo[r]) = {}
      BY <2>2, <3>1 DEF At, Placed, ToWrite
    <3>3. c \in Hand(job[r]) /\ c \in Carts
      BY <2>2, Shapes DEF Hand
    <3>4. cart[c].state # "unused"
      BY <3>1, <3>2, <3>3 DEF Exist
    <3> QED BY <1>1, <3>3, <3>4
  <2> QED BY <2>1, <2>2 DEF Touches
<1>4. \A c \in Carts : cart'[c].state # "saved" => cart'[c].total = 0
  BY DEF Touches, Owned
<1>5. ASSUME NEW o \in Orders, NEW p \in Orders, o # p
      PROVE  Claims(o)' \cap Claims(p)' = {}
  <2>1. Claims(o)' \subseteq Claims(o) /\ Claims(p)' \subseteq Claims(p)
    BY ClaimsShrink
  <2>2. Claims(o) \cap Claims(p) = {}
    BY <1>5 DEF Owned
  <2> QED BY <2>1, <2>2
<1>6. ASSUME NEW q \in Requests, NEW u \in Requests, Works(q)', Works(u)',
             job'[q].nid = job'[u].nid, job'[u].nid \notin SharedOrders
      PROVE  q = u
  <2>1. \A v \in Requests : Works(v)' => Works(v) /\ job'[v].nid = job[v].nid
    BY DEF Touches, OthersStay, Works
  <2>2. Works(q) /\ Works(u) /\ job[q].nid = job[u].nid /\ job[u].nid \notin SharedOrders
    BY <2>1, <1>6
  <2> QED BY <2>2 DEF Owned
<1> QED BY <1>2, <1>3, <1>4, <1>5, <1>6 DEF Owned

-----------------------------------------------------------------------------
(* What the sum of a request has come to.                                  *)

Agrees(o) == order[o].total = TotalOf(order[o].carts, cart)

\* A sale has the total of the lines it writes.
SaleSum(step, j, c, T) ==
  /\ j.order.total = TotalOf(j.order.carts, j.lines)
  /\ c \notin T
  /\ \A d \in ToWrite(step, j, c, T) : cart[d].state = "unused"
  /\ \A d \in j.order.carts \ ToWrite(step, j, c, T) : cart[d] = j.lines[d]

\* A request that does not add up keeps the total of the order it read.
CopySum(step, j, c) ==
  /\ Agrees(j.nid)
  /\ j.order.carts = order[j.nid].carts /\ j.order.total = order[j.nid].total
  /\ j.op = "purchase" /\ step = "cart" => j.lines[c] = cart[c]

\* An edit adds up the lines of the order one after the other.
EditSum(step, j, c, T) ==
  /\ step \in {"sum", "resave"} => c \notin T
  /\ step = "sum" => j.order.total = TotalOf(j.order.carts \ (T \cup {c}), cart)
  /\ step = "resave" =>
       j.order.total = TotalOf(j.order.carts \ (T \cup {c}), cart) + j.lines[c].total
  /\ step = "order" => j.order.total = TotalOf(j.order.carts, cart)
  /\ step = "drop" => Agrees(j.nid) /\ order[j.nid].carts = j.order.carts

SumAs(step, j, c, T) ==
  /\ j.op = "sale" => SaleSum(step, j, c, T)
  /\ j.op \in {"status", "cancel", "purchase"} => CopySum(step, j, c)
  /\ j.op \in Summing => EditSum(step, j, c, T)

SumOK(r) == SumAs(pc[r], job[r], at[r], todo[r])

\* A line about to be saved again has the quantity and the unit price it had.
Knows(r) ==
  pc[r] = "resave" =>
    LET n == job[r].lines[at[r]]  m == cart[at[r]]
    IN  m.state = "saved" /\ n.unit = m.unit /\ n.qty = m.qty

Known == \A r \in Requests : Works(r) /\ job[r].nid \notin SharedOrders => Knows(r)

Sums ==
  /\ \A r \in Requests : Works(r) /\ job[r].nid \notin SharedOrders \cup torn => SumOK(r)
  /\ \A o \in Orders \ (SharedOrders \cup torn) : ~Busy(o) => Agrees(o)

LEMMA CartTotals ==
  ASSUME Inv, NEW S \in SUBSET Carts
  PROVE  IsFiniteSet(S) /\ Totals(S, cart)
<1>1. IsFiniteSet(S)
  BY TotalsAssumption, FS_Subset
<1> QED BY <1>1, Shapes DEF Totals, Line

\* A sum over lines that stay as they are.
LEMMA SumStays ==
  ASSUME Inv, NEW S \in SUBSET Carts, \A c \in S : cart'[c] = cart[c]
  PROVE  TotalOf(S, cart') = TotalOf(S, cart)
<1>1. IsFiniteSet(S) /\ Totals(S, cart)
  BY CartTotals
<1>2. PICK f : f = cart
  OBVIOUS
<1>3. PICK g : g = cart'
  OBVIOUS
<1>4. TotalOf(S, f) = TotalOf(S, g)
  BY <1>1, <1>2, <1>3, TotalSame
<1> QED BY <1>2, <1>3, <1>4

LEMMA AgreesStays ==
  ASSUME Inv, NEW o \in Orders, Agrees(o), order'[o].total = order[o].total,
         order'[o].carts = order[o].carts, \A c \in order[o].carts : cart'[c] = cart[c]
  PROVE  Agrees(o)'
<1>1. TotalOf(order[o].carts, cart') = TotalOf(order[o].carts, cart)
  BY Shapes, SumStays
<1> QED BY <1>1 DEF Agrees

-----------------------------------------------------------------------------
(* Where the steps lead a request.                                         *)

Now(r, step, j, c, T) ==
  /\ OthersStay(r)
  /\ pc'[r] = step /\ job'[r] = j /\ at'[r] = c /\ todo'[r] = T

LEMMA EndDoes ==
  ASSUME Inv, NEW r \in Requests, End(r)
  PROVE  Now(r, "idle", NoJob, NoCart, {})
BY DEF End, Inv, Domains, OthersStay, Now

LEMMA StayDoes ==
  ASSUME Inv, NEW r \in Requests, NEW step, pc' = [pc EXCEPT ![r] = step],
         UNCHANGED <<at, todo>>, NEW j, job' = [job EXCEPT ![r] = j]
  PROVE  Now(r, step, j, at[r], todo[r])
BY DEF Inv, Domains, OthersStay, Now

LEMMA NextLineDoes ==
  ASSUME Inv, NEW r \in Requests, NEW step, NextLine(r, step),
         NEW j, job' = [job EXCEPT ![r] = j]
  PROVE  \/ todo[r] = {} /\ Now(r, "order", j, at[r], {})
         \/ \E c \in todo[r] : Now(r, step, j, c, todo[r] \ {c})
<1>1. CASE todo[r] = {}
  BY <1>1 DEF NextLine, Inv, Domains, OthersStay, Now
<1>2. CASE todo[r] # {}
  <2>1. PICK c \in todo[r] :
          at' = [at EXCEPT ![r] = c] /\ todo' = [todo EXCEPT ![r] = @ \ {c}]
    BY <1>2 DEF NextLine
  <2>2. pc' = [pc EXCEPT ![r] = step]
    BY <1>2 DEF NextLine
  <2> QED BY <2>1, <2>2 DEF Inv, Domains, OthersStay, Now
<1> QED BY <1>1, <1>2

\* The same job with another total.
Resummed(j, k, x) ==
  /\ k.op = j.op /\ k.nid = j.nid /\ k.line = j.line
  /\ k.order.carts = j.order.carts /\ k.order.total = x

LEMMA JobFields ==
  ASSUME NEW j, JobOK(j), NEW c, NEW n, NEW x
  PROVE  /\ Resummed(j, [j EXCEPT !.order.total = x], x)
         /\ [j EXCEPT !.order.total = x].lines = j.lines
         /\ Resummed(j, [j EXCEPT !.lines[c] = n], j.order.total)
         /\ [j EXCEPT !.lines[c] = n].lines = [j.lines EXCEPT ![c] = n]
         /\ Resummed(j, [j EXCEPT !.lines[c] = n, !.order.total = x], x)
         /\ [j EXCEPT !.lines[c] = n, !.order.total = x].lines = [j.lines EXCEPT ![c] = n]
<1>1. PICK t : j \in JobWith(t)
  BY DEF JobOK
<1> DEFINE k == [j EXCEPT !.lines[c] = n]
           m == [j.lines EXCEPT ![c] = n]
<1>2. k = [j EXCEPT !.lines = m]
  OBVIOUS
<1>3. Resummed(j, [j EXCEPT !.lines = m], j.order.total) /\ [j EXCEPT !.lines = m].lines = m
  <2> HIDE DEF m
  <2> QED BY <1>1 DEF JobWith, OrderWith, Resummed
<1>4. [j EXCEPT !.lines[c] = n, !.order.total = x]
        = [[j EXCEPT !.lines = m] EXCEPT !.order = [j.order EXCEPT !.total = x]]
  <2>1. k.order = j.order
    BY <1>1 DEF JobWith
  <2> QED BY <1>2, <2>1
<1>5. [j EXCEPT !.order.total = x] = [j EXCEPT !.order = [j.order EXCEPT !.total = x]]
  OBVIOUS
<1>6. /\ Resummed(j, [j EXCEPT !.order = [j.order EXCEPT !.total = x]], x)
      /\ [j EXCEPT !.order = [j.order EXCEPT !.total = x]].lines = j.lines
  BY <1>1 DEF JobWith, OrderWith, Resummed
<1> DEFINE u == [[j EXCEPT !.lines = m] EXCEPT !.order = [j.order EXCEPT !.total = x]]
<1>7. Resummed(j, u, x) /\ u.lines = m
  <2> HIDE DEF m
  <2> QED BY <1>1 DEF JobWith, OrderWith, Resummed
<1> QED BY <1>2, <1>3, <1>4, <1>5, <1>6, <1>7

LEMMA StartSumDoes ==
  ASSUME Inv, NEW r \in Requests, StartSum(r)
  PROVE  \E c \in job[r].order.carts :
           Now(r, "sum", [job[r] EXCEPT !.order.total = 0], c, job[r].order.carts \ {c})
<1> DEFINE j == [job[r] EXCEPT !.order.total = 0]
<1>1. PICK c \in job[r].order.carts :
        /\ at' = [at EXCEPT ![r] = c]
        /\ todo' = [todo EXCEPT ![r] = job[r].order.carts \ {c}]
  BY DEF StartSum
<1>2. job' = [job EXCEPT ![r] = j] /\ pc' = [pc EXCEPT ![r] = "sum"]
  BY DEF StartSum
<1> HIDE DEF j
<1>3. Now(r, "sum", j, c, job[r].order.carts \ {c})
  BY <1>1, <1>2 DEF Inv, Domains, OthersStay, Now
<1> QED BY <1>3 DEF j

-----------------------------------------------------------------------------
(* The handlers.                                                           *)

\* Request r begins with this step, and what is claimed and summed is right.
Begun(r, step, j, c, T) ==
  /\ pc[r] = "idle" /\ step # "idle" /\ step # "resave"
  /\ Now(r, step, j, c, T) /\ UNCHANGED <<price, cart, order, torn>>
  /\ j.nid \in SharedOrders \/ ~Busy(j.nid)
  /\ Placed(step, j, c, T)
  /\ \A d \in Hand(j) \ ToWrite(step, j, c, T) : cart[d].state # "unused"
  /\ \A d \in Hand(j), p \in Orders \ {j.nid} : d \notin Claims(p)
  /\ j.nid \notin SharedOrders \cup torn /\ Agrees(j.nid) => SumAs(step, j, c, T)

LEMMA BeginDoes ==
  ASSUME Inv, NEW r \in Requests, NEW op, NEW o, NEW node, NEW c, NEW lines,
         NEW S, NEW first, Begin(r, op, o, node, c, lines, S, first),
         NEW j, j = [op |-> op, nid |-> o, order |-> node, line |-> c, lines |-> lines]
  PROVE  /\ pc[r] = "idle" /\ UNCHANGED <<price, cart, order, torn>>
         /\ \E d \in IF S = {} THEN {NoCart} ELSE S : Now(r, first, j, d, S \ {d})
<1>1. /\ pc[r] = "idle" /\ UNCHANGED <<price, cart, order, torn>>
      /\ job' = [job EXCEPT ![r] = j] /\ pc' = [pc EXCEPT ![r] = first]
  BY DEF Begin
<1>2. PICK d \in IF S = {} THEN {NoCart} ELSE S :
        at' = [at EXCEPT ![r] = d] /\ todo' = [todo EXCEPT ![r] = S \ {d}]
  BY DEF Begin
<1>3. Now(r, first, j, d, S \ {d})
  BY <1>1, <1>2 DEF Inv, Domains, OthersStay, Now
<1> QED BY <1>1, <1>2, <1>3

LEMMA LinesClaimed ==
  ASSUME Inv, Owned, NEW o \in Orders, NEW p \in Orders \ {o}, NEW c \in order[o].carts
  PROVE  c \notin Claims(p) /\ cart[c].state # "unused"
<1>1. c \in Claims(o)
  BY Shapes DEF Claims
<1> QED BY <1>1 DEF Owned

LEMMA EditBegun ==
  ASSUME Inv, Owned, NEW r \in Requests, NEW o \in Orders, NEW c \in Carts,
         EditableLine(o, c), NEW op \in {"price", "purchase", "quantity", "delete"},
         NEW node, node.total = order[o].total,
         node.carts = IF op = "delete" THEN order[o].carts \ {c} ELSE order[o].carts,
         NEW first, StepOf(first, op), first \in {"cart", "move"},
         NEW n, op # "delete" => n.state = "saved", op = "purchase" => n = cart[c],
         Begin(r, op, o, node, c, Only(c, n), {c}, first)
  PROVE  \E j : Begun(r, first, j, c, {})
<1>1. /\ o \in SharedOrders \/ ~Busy(o)
      /\ cart[c].state = "saved" /\ c \in order[o].carts
  BY DEF EditableLine, Addressed
<1>2. PICK lines : lines = Only(c, n)
  OBVIOUS
<1>3. lines[c] = n
  BY <1>2 DEF Only
<1>4. PICK j : j = [op |-> op, nid |-> o, order |-> node, line |-> c, lines |-> lines]
  OBVIOUS
<1>5. j.op = op /\ j.nid = o /\ j.order = node /\ j.line = c /\ j.lines = lines
  BY <1>4
<1>6. Begin(r, op, o, node, c, lines, {c}, first)
  BY <1>2
<1>7. pc[r] = "idle" /\ UNCHANGED <<price, cart, order, torn>>
      /\ \E d \in IF {c} = {} THEN {NoCart} ELSE {c} : Now(r, first, j, d, {c} \ {d})
  <2>1. PICK S : S = {c}
    OBVIOUS
  <2>2. Begin(r, op, o, node, c, lines, S, first)
    BY <1>6, <2>1
  <2>3. pc[r] = "idle" /\ UNCHANGED <<price, cart, order, torn>>
        /\ \E d \in IF S = {} THEN {NoCart} ELSE S : Now(r, first, j, d, S \ {d})
    BY <1>4, <2>2, BeginDoes
  <2> QED BY <2>1, <2>3
<1>8. Now(r, first, j, c, {})
  <2>1. PICK d \in {c} : Now(r, first, j, d, {c} \ {d})
    BY <1>7
  <2>2. d = c /\ {c} \ {d} = {}
    OBVIOUS
  <2> QED BY <2>1, <2>2
<1>9. Hand(j) = order[o].carts
  BY <1>1, <1>5 DEF Hand
<1>10. Placed(first, j, c, {})
  <2>1. j.op = "delete" => j.line \in Carts \ j.order.carts
    BY <1>5
  <2>2. j.lines[c] = n
    BY <1>3, <1>5
  <2>3. first = "cart" => op # "delete"
    BY DEF StepOf, Summing
  <2> QED BY <1>1, <1>5, <1>9, <2>1, <2>2, <2>3 DEF Placed
<1>11. ToWrite(first, j, c, {}) = {}
  BY <1>5 DEF ToWrite
<1>12. \A d \in Hand(j), p \in Orders \ {o} : d \notin Claims(p)
  BY <1>9, LinesClaimed
<1>13. \A d \in Hand(j) : cart[d].state # "unused"
  BY <1>9 DEF Owned
<1>14. Agrees(o) => SumAs(first, j, c, {})
  <2>1. op = "purchase" /\ Agrees(o) => CopySum(first, j, c)
    BY <1>3, <1>5 DEF CopySum
  <2>2. EditSum(first, j, c, {})
    BY DEF EditSum
  <2> QED BY <1>5, <2>1, <2>2 DEF SumAs
<1>15. first # "idle" /\ first # "resave"
  OBVIOUS
<1>16. j.nid \in SharedOrders \/ ~Busy(j.nid)
  BY <1>1, <1>5
<1>17. Begun(r, first, j, c, {})
  BY <1>5, <1>7, <1>8, <1>10, <1>11, <1>12, <1>13, <1>14, <1>15, <1>16 DEF Begun
<1> QED BY <1>17

LEMMA StatusBegun ==
  ASSUME Inv, Owned, NEW r \in Requests, NEW o \in Orders, Addressed(o),
         NEW cancelled \in BOOLEAN, NEW op \in {"status", "cancel"}, NEW S,
         IF op = "cancel" THEN S = order[o].carts /\ S # {} ELSE S = {},
         Begin(r, op, o, [order[o] EXCEPT !.cancelled = cancelled], NoCart,
               NoJob.lines, S, IF op = "cancel" THEN "load" ELSE "order")
  PROVE  \E step, j, c, T : Begun(r, step, j, c, T)
<1>1. o \in SharedOrders \/ ~Busy(o)
  BY DEF Addressed
<1>2. PICK node : node = [order[o] EXCEPT !.cancelled = cancelled]
  OBVIOUS
<1>3. node.carts = order[o].carts /\ node.total = order[o].total
  <2>1. PICK t : order[o] \in OrderWith(t)
    BY DEF Inv, OrderOK
  <2> QED BY <1>2, <2>1 DEF OrderWith
<1>4. PICK lines : lines = NoJob.lines
  OBVIOUS
<1>5. PICK step : step = IF op = "cancel" THEN "load" ELSE "order"
  OBVIOUS
<1>6. PICK j : j = [op |-> op, nid |-> o, order |-> node, line |-> NoCart, lines |-> lines]
  OBVIOUS
<1>7. j.op = op /\ j.nid = o /\ j.order = node
  BY <1>6
<1>8. Begin(r, op, o, node, NoCart, lines, S, step)
  BY <1>2, <1>4, <1>5
<1>9. pc[r] = "idle" /\ UNCHANGED <<price, cart, order, torn>>
      /\ \E d \in IF S = {} THEN {NoCart} ELSE S : Now(r, step, j, d, S \ {d})
  BY <1>6, <1>8, BeginDoes
<1>10. PICK c \in IF S = {} THEN {NoCart} ELSE S : Now(r, step, j, c, S \ {c})
  BY <1>9
<1>11. Hand(j) = order[o].carts
  BY <1>3, <1>7 DEF Hand
<1>12. Placed(step, j, c, S \ {c})
  <2>1. op = "cancel" => c \in order[o].carts /\ S \ {c} \subseteq order[o].carts
    OBVIOUS
  <2>2. op = "status" => step = "order" /\ S \ {c} = {}
    BY <1>5
  <2> QED BY <1>3, <1>5, <1>7, <1>11, <2>1, <2>2 DEF Placed, StepOf, AtLine, Ops
<1>13. ToWrite(step, j, c, S \ {c}) = {}
  BY <1>7 DEF ToWrite
<1>14. \A d \in Hand(j), p \in Orders \ {o} : d \notin Claims(p)
  BY <1>11, LinesClaimed
<1>15. \A d \in Hand(j) : cart[d].state # "unused"
  BY <1>11 DEF Owned
<1>16. Agrees(o) => SumAs(step, j, c, S \ {c})
  <2>1. Agrees(o) => CopySum(step, j, c)
    BY <1>3, <1>7 DEF CopySum
  <2> QED BY <1>7, <2>1 DEF SumAs, Summing
<1>17. step # "idle" /\ step # "resave"
  BY <1>5
<1>18. j.nid \in SharedOrders \/ ~Busy(j.nid)
  BY <1>1, <1>7
<1>19. Begun(r, step, j, c, S \ {c})
  BY <1>7, <1>9, <1>10, <1>12, <1>13, <1>14, <1>15, <1>16, <1>17, <1>18 DEF Begun
<1> QED BY <1>19

LEMMA SaleBegun ==
  ASSUME Inv, Owned, NEW r \in Requests, NEW o \in Orders, NEW S \in SUBSET Carts,
         NEW product \in [S -> Products], NEW quantity \in [S -> 1..MaxQuantity],
         NEW unit \in [S -> SalePrices], SaveOrderLocal(r, o, S, product, quantity, unit)
  PROVE  \E step, j, c, T : Begun(r, step, j, c, T)
<1> DEFINE row(c) == [NoLine EXCEPT !.state = "saved", !.product = product[c]]
<1>1. PICK lines : lines = [c \in Carts |-> IF c \in S
                                THEN Priced(row(c), quantity[c], unit[c]) ELSE NoLine]
  OBVIOUS
<1>2. ASSUME NEW c \in S PROVE lines[c].state = "saved"
  <2>1. lines[c] = Priced(row(c), quantity[c], unit[c])
    BY <1>1
  <2> QED BY <2>1 DEF Priced, NoLine
<1>3. PICK node : node = [saved |-> TRUE, cancelled |-> FALSE, carts |-> S,
                          total |-> TotalOf(S, lines)]
  OBVIOUS
<1>4. node.carts = S /\ node.total = TotalOf(S, lines)
  BY <1>3
<1>5. S # {} /\ ~Busy(o) /\ Begin(r, "sale", o, node, NoCart, lines, S, "cart")
  BY <1>1, <1>3 DEF SaveOrderLocal
<1>6. \A c \in S : cart[c].state = "unused" /\ \A q \in Requests : c \notin job[q].order.carts
  BY DEF SaveOrderLocal
<1>7. PICK j : j = [op |-> "sale", nid |-> o, order |-> node, line |-> NoCart,
                    lines |-> lines]
  OBVIOUS
<1>8. j.op = "sale" /\ j.nid = o /\ j.order = node /\ j.lines = lines
  BY <1>7
<1>9. pc[r] = "idle" /\ UNCHANGED <<price, cart, order, torn>>
      /\ \E d \in IF S = {} THEN {NoCart} ELSE S : Now(r, "cart", j, d, S \ {d})
  BY <1>5, <1>7, BeginDoes
<1>10. PICK c \in S : Now(r, "cart", j, c, S \ {c})
  BY <1>5, <1>9
<1>11. Hand(j) = S /\ ToWrite("cart", j, c, S \ {c}) = S
  BY <1>4, <1>8 DEF Hand, ToWrite
<1>12. Placed("cart", j, c, S \ {c})
  BY <1>2, <1>4, <1>8, <1>11 DEF Placed, StepOf
<1>13. ASSUME NEW d \in S, NEW p \in Orders \ {o}, d \in Claims(p) PROVE FALSE
  <2>1. d \notin order[p].carts
    BY <1>6 DEF Owned
  <2>2. PICK q \in Requests : Works(q) /\ d \in Hand(job[q])
    BY <1>13, <2>1 DEF Claims
  <2>3. d \notin job[q].order.carts /\ cart[d].state = "unused"
    BY <1>6
  <2>4. job[q].op = "delete"
    BY <2>2, <2>3 DEF Hand
  <2>5. d \in Hand(job[q]) \ ToWrite(pc[q], job[q], at[q], todo[q])
    BY <2>2, <2>4 DEF ToWrite
  <2> QED BY <2>2, <2>3, <2>5 DEF Owned, Exist
<1>14. SumAs("cart", j, c, S \ {c})
  <2>1. SaleSum("cart", j, c, S \ {c})
    BY <1>4, <1>6, <1>8, <1>11 DEF SaleSum
  <2> QED BY <1>8, <2>1 DEF SumAs, Summing
<1>15. \A d \in Hand(j) \ ToWrite("cart", j, c, S \ {c}) : cart[d].state # "unused"
  BY <1>11
<1>16. \A d \in Hand(j), p \in Orders \ {j.nid} : d \notin Claims(p)
  BY <1>8, <1>11, <1>13
<1>17. Begun(r, "cart", j, c, S \ {c})
  BY <1>5, <1>8, <1>9, <1>10, <1>12, <1>14, <1>15, <1>16 DEF Begun
<1> QED BY <1>17

LEMMA ReceiveBegun ==
  ASSUME Inv, Owned, NEW r \in Requests, Receive(r)
  PROVE  \E step, j, c, T : Begun(r, step, j, c, T)
<1>1. PICK o \in Orders :
        \/ Sale(r, o)
        \/ \E cancelled \in BOOLEAN : UpdateStatusLocal(r, o, cancelled)
        \/ CancelOrderLocal(r, o)
        \/ \E c \in Carts :
             \/ \E unit \in EditPrices : UpdateCartPrice(r, o, c, unit)
             \/ UpdateCartPurchasePrice(r, o, c)
             \/ \E q \in 1..MaxQuantity, given \in EditPrices \cup {NoPrice} :
                  UpdateCartQuantity(r, o, c, q, given)
             \/ DeleteCartLine(r, o, c)
  BY DEF Receive
<1>2. CASE Sale(r, o)
  BY <1>2, SaleBegun DEF Sale
<1>3. ASSUME NEW cancelled \in BOOLEAN, UpdateStatusLocal(r, o, cancelled)
      PROVE  \E step, j, c, T : Begun(r, step, j, c, T)
  <2>1. /\ Addressed(o)
        /\ Begin(r, "status", o, [order[o] EXCEPT !.cancelled = cancelled], NoCart,
                 NoJob.lines, {}, IF "status" = "cancel" THEN "load" ELSE "order")
    BY <1>3 DEF UpdateStatusLocal
  <2>2. IF "status" = "cancel" THEN {} = order[o].carts /\ {} # {} ELSE {} = {}
    OBVIOUS
  <2> QED BY <2>1, <2>2, StatusBegun
<1>4. CASE CancelOrderLocal(r, o)
  <2>1. PICK S : S = order[o].carts
    OBVIOUS
  <2>2. /\ Addressed(o) /\ S # {}
        /\ Begin(r, "cancel", o, [order[o] EXCEPT !.cancelled = TRUE], NoCart,
                 NoJob.lines, S, IF "cancel" = "cancel" THEN "load" ELSE "order")
    BY <1>4, <2>1 DEF CancelOrderLocal
  <2>3. IF "cancel" = "cancel" THEN S = order[o].carts /\ S # {} ELSE S = {}
    BY <2>1, <2>2
  <2> QED BY <2>2, <2>3, StatusBegun
<1>5. ASSUME NEW c \in Carts,
             \/ \E unit \in EditPrices : UpdateCartPrice(r, o, c, unit)
             \/ UpdateCartPurchasePrice(r, o, c)
             \/ \E q \in 1..MaxQuantity, given \in EditPrices \cup {NoPrice} :
                  UpdateCartQuantity(r, o, c, q, given)
             \/ DeleteCartLine(r, o, c)
      PROVE  \E step, j, d, T : Begun(r, step, j, d, T)
  <2>1. PICK t : order[o] \in OrderWith(t)
    BY DEF Inv, OrderOK
  <2>2. /\ EditableLine(o, c) /\ cart[c].state = "saved" /\ cart[c] \in Line
    BY <1>5, Shapes DEF UpdateCartPrice, UpdateCartPurchasePrice, UpdateCartQuantity,
                        DeleteCartLine, EditableLine
  <2>3. \A q, u : Priced(cart[c], q, u).state = "saved"
    BY <2>2 DEF Priced, Line
  <2>4. ASSUME NEW unit \in EditPrices, UpdateCartPrice(r, o, c, unit)
        PROVE  \E j : Begun(r, "cart", j, c, {})
    <3>1. PICK n : n = Priced(cart[c], cart[c].qty, unit)
      OBVIOUS
    <3>2. Begin(r, "price", o, order[o], c, Only(c, n), {c}, "cart")
      BY <2>4, <3>1 DEF UpdateCartPrice
    <3>3. StepOf("cart", "price") /\ n.state = "saved"
      BY <2>3, <3>1 DEF StepOf
    <3> QED BY <2>2, <3>2, <3>3, EditBegun
  <2>5. CASE UpdateCartPurchasePrice(r, o, c)
    <3>1. Begin(r, "purchase", o, order[o], c, Only(c, cart[c]), {c}, "cart")
      BY <2>5 DEF UpdateCartPurchasePrice
    <3>2. StepOf("cart", "purchase")
      BY DEF StepOf
    <3> QED BY <2>2, <3>1, <3>2, EditBegun
  <2>6. ASSUME NEW q \in 1..MaxQuantity, NEW given \in EditPrices \cup {NoPrice},
               UpdateCartQuantity(r, o, c, q, given)
        PROVE  \E step, j : Begun(r, step, j, c, {})
    <3>1. PICK n : n = Priced(cart[c], q, IF given = NoPrice THEN EffectivePrice(cart[c])
                                                             ELSE given)
      OBVIOUS
    <3>2. PICK first : first = IF q = cart[c].qty THEN "cart" ELSE "move"
      OBVIOUS
    <3>3. Begin(r, "quantity", o, order[o], c, Only(c, n), {c}, first)
      BY <2>6, <3>1, <3>2 DEF UpdateCartQuantity
    <3>4. StepOf(first, "quantity") /\ n.state = "saved" /\ first \in {"cart", "move"}
      BY <2>3, <3>1, <3>2 DEF StepOf
    <3> QED BY <2>2, <3>3, <3>4, EditBegun
  <2>7. CASE DeleteCartLine(r, o, c)
    <3>1. PICK node : node = [order[o] EXCEPT !.carts = @ \ {c}]
      OBVIOUS
    <3>2. Begin(r, "delete", o, node, c, Only(c, cart[c]), {c}, "move")
      BY <2>7, <3>1 DEF DeleteCartLine
    <3>3. node.total = order[o].total /\ node.carts = order[o].carts \ {c}
      BY <2>1, <3>1 DEF OrderWith
    <3>4. StepOf("move", "delete")
      BY DEF StepOf
    <3> QED BY <2>2, <3>2, <3>3, <3>4, EditBegun
  <2> QED BY <1>5, <2>4, <2>5, <2>6, <2>7
<1> QED BY <1>1, <1>2, <1>3, <1>4, <1>5

LEMMA OwnedBegins ==
  ASSUME Inv, Inv', Owned, NEW r \in Requests, NEW step, NEW j, NEW c, NEW T,
         Begun(r, step, j, c, T)
  PROVE  Owned'
<1>1. /\ pc'[r] = step /\ job'[r] = j /\ at'[r] = c /\ todo'[r] = T /\ OthersStay(r)
      /\ UNCHANGED <<cart, order>> /\ ~Works(r) /\ Works(r)'
  BY DEF Begun, Now, Works
<1>2. j.nid \in Orders
  BY DEF Begun, Placed
<1>3. \A q \in Requests \ {r} : pc'[q] = pc[q] /\ job'[q] = job[q] /\ at'[q] = at[q]
                                /\ todo'[q] = todo[q]
  BY <1>1 DEF OthersStay
<1>4. ASSUME NEW q \in Requests
      PROVE  IF Works(q)' THEN At(q)' /\ Exist(q)' ELSE job'[q] = NoJob
  <2>1. CASE q = r
    <3>1. At(r)'
      BY <1>1 DEF At, Begun
    <3>2. Exist(r)'
      BY <1>1 DEF Exist, Begun
    <3> QED BY <1>1, <2>1, <3>1, <3>2
  <2>2. CASE q # r
    <3>1. (Works(q)' <=> Works(q)) /\ (At(q)' <=> At(q)) /\ (Exist(q)' <=> Exist(q))
      BY <1>1, <1>3, <2>2 DEF Works, At, Exist
    <3>2. job'[q] = job[q]
      BY <1>3, <2>2
    <3> QED BY <3>1, <3>2 DEF Owned
  <2> QED BY <2>1, <2>2
<1>5. /\ \A o \in Orders : \A d \in order'[o].carts : cart'[d].state # "unused"
      /\ \A d \in Carts : cart'[d].state # "saved" => cart'[d].total = 0
  BY <1>1 DEF Owned
<1>6. ASSUME NEW o \in Orders, NEW d \in Claims(o)'
      PROVE  d \in Claims(o) \/ (o = j.nid /\ d \in Hand(j))
  <2>1. CASE d \in order'[o].carts
    BY <1>1, <1>6, <2>1 DEF Claims
  <2>2. ASSUME NEW q \in Requests, Works(q)', job'[q].nid = o, d \in Hand(job'[q])
        PROVE  d \in Claims(o) \/ (o = j.nid /\ d \in Hand(j))
    <3>1. CASE q = r
      BY <1>1, <2>2, <3>1
    <3>2. CASE q # r
      BY <1>3, <1>6, <2>2, <3>2 DEF Claims, Works
    <3> QED BY <3>1, <3>2
  <2> QED BY <1>6, <2>1, <2>2 DEF Claims
<1>7. ASSUME NEW o \in Orders, NEW p \in Orders, o # p
      PROVE  Claims(o)' \cap Claims(p)' = {}
  <2>1. Claims(o) \cap Claims(p) = {}
    BY <1>7 DEF Owned
  <2>2. \A d \in Hand(j) : \A u \in Orders \ {j.nid} : d \notin Claims(u)
    BY DEF Begun
  <2> QED BY <1>6, <1>7, <2>1, <2>2
<1>8. ASSUME NEW q \in Requests, NEW u \in Requests, Works(q)', Works(u)',
             job'[q].nid = job'[u].nid, job'[u].nid \notin SharedOrders
      PROVE  q = u
  <2>1. ASSUME NEW v \in Requests, v # r, Works(v)', job'[v].nid = j.nid,
               j.nid \notin SharedOrders
        PROVE  FALSE
    <3>1. Busy(j.nid)
      BY <1>3, <2>1 DEF Busy, Works
    <3> QED BY <2>1, <3>1 DEF Begun
  <2>2. CASE q # r /\ u # r
    BY <1>3, <1>8, <2>2 DEF Works, Owned
  <2> QED BY <1>1, <1>8, <2>1, <2>2
<1> QED BY <1>4, <1>5, <1>7, <1>8 DEF Owned

-----------------------------------------------------------------------------
(* The steps.                                                              *)

\* What a step of r does to what is claimed, known and summed.
Fine(r) ==
  /\ Touches(r)
  /\ Works(r)' => At(r)' /\ Exist(r)'
  /\ job[r].nid \notin SharedOrders /\ Works(r)' => Knows(r)'
  /\ \A o \in Orders \ (SharedOrders \cup torn') :
       o = job[r].nid /\ SumOK(r) /\ Knows(r)
         => IF Works(r)' THEN SumOK(r)' ELSE Agrees(o)'

\* How a step may change the lines.
Writes(r) ==
  \A c \in Carts : \/ cart'[c] = cart[c]
                   \/ /\ c \in Hand(job[r])
                      /\ cart'[c].state # "unused"
                      /\ cart'[c].state # "saved" => cart'[c].total = 0

\* Request r goes on to this step with this job.
LEMMA GoesOn ==
  ASSUME Inv, Owned, NEW r \in Requests, Works(r),
         NEW step, NEW j, NEW c, NEW T, Now(r, step, j, c, T), step # "idle",
         NEW x, Resummed(job[r], j, x), Placed(step, j, c, T),
         \A d \in Hand(j) \ ToWrite(step, j, c, T) :
           d \in ToWrite(pc[r], job[r], at[r], todo[r]) => cart'[d].state # "unused",
         \/ order' = order
         \/ pc[r] = "order" /\ order' = [order EXCEPT ![job[r].nid] = job[r].order],
         Writes(r), UNCHANGED torn,
         step = "resave" => /\ cart'[c].state = "saved"
                            /\ j.lines[c].unit = cart'[c].unit /\ j.lines[c].qty = cart'[c].qty,
         job[r].nid \notin SharedOrders \cup torn /\ SumOK(r) /\ Knows(r) => SumAs(step, j, c, T)'
  PROVE  Fine(r)
<1>1. /\ OthersStay(r) /\ pc'[r] = step /\ job'[r] = j /\ at'[r] = c /\ todo'[r] = T
      /\ Works(r)'
  BY DEF Now, Works
<1>2. Hand(j) = Hand(job[r]) /\ j.nid = job[r].nid
  BY DEF Resummed, Hand
<1>3. \A o \in Orders : \/ order'[o] = order[o]
                        \/ o = job[r].nid /\ pc[r] = "order" /\ order'[o] = job[r].order
  BY DEF Inv
<1>4. Touches(r)
  BY <1>1, <1>2, <1>3 DEF Touches, Writes
<1>5. At(r)'
  BY <1>1 DEF At
<1>6. Hand(j) \subseteq Carts
  BY <1>2, HandInCarts DEF Owned
<1>7. \A d \in Hand(j) \ ToWrite(step, j, c, T) : cart'[d].state # "unused"
  BY <1>2, <1>6 DEF Owned, Exist, Writes
<1>8. Exist(r)'
  BY <1>1, <1>7 DEF Exist
<1>9. Knows(r)'
  BY <1>1 DEF Knows
<1>10. ASSUME job[r].nid \notin SharedOrders \cup torn', SumOK(r), Knows(r)
       PROVE  SumOK(r)'
  <2>1. SumAs(step, j, c, T)'
    BY <1>10
  <2> QED BY <1>1, <2>1 DEF SumOK
<1> QED BY <1>1, <1>4, <1>5, <1>8, <1>9, <1>10 DEF Fine

LEMMA Ends ==
  ASSUME Inv, Owned, NEW r \in Requests, Works(r), End(r),
         \/ order' = order
         \/ pc[r] = "order" /\ order' = [order EXCEPT ![job[r].nid] = job[r].order],
         Writes(r),
         \A o \in Orders \ (SharedOrders \cup torn') :
           o = job[r].nid /\ SumOK(r) /\ Knows(r) => Agrees(o)'
  PROVE  Fine(r)
<1>1. OthersStay(r) /\ ~Works(r)' /\ job'[r] = NoJob
  BY EndDoes DEF Now, Works
<1>2. \A o \in Orders : \/ order'[o] = order[o]
                        \/ o = job[r].nid /\ pc[r] = "order" /\ order'[o] = job[r].order
  BY DEF Inv
<1>3. Touches(r)
  BY <1>1, <1>2 DEF Touches, Writes
<1> QED BY <1>1, <1>3 DEF Fine

LEMMA SameResummed == ASSUME NEW j PROVE Resummed(j, j, j.order.total)
BY DEF Resummed

\* What r has to write, if its operation is not a sale.
LEMMA NothingToWrite ==
  ASSUME NEW j, j.op # "sale", NEW step, NEW c, NEW T
  PROVE  ToWrite(step, j, c, T) = {}
BY DEF ToWrite

LEMMA SumBegins ==
  ASSUME Inv, Owned, NEW r \in Requests, Works(r), StartSum(r), order' = order, Writes(r),
         UNCHANGED torn, job[r].op \in Summing
  PROVE  Fine(r)
<1>1. PICK j : j = [job[r] EXCEPT !.order.total = 0]
  OBVIOUS
<1>2. PICK T : T = job[r].order.carts
  OBVIOUS
<1>3. PICK c \in T : Now(r, "sum", j, c, T \ {c})
  BY <1>1, <1>2, StartSumDoes
<1>4. Resummed(job[r], j, 0) /\ j.lines = job[r].lines
  <2>1. JobOK(job[r])
    BY DEF Inv, RequestOK
  <2> QED BY <1>1, <2>1, JobFields
<1>5. Placed("sum", j, c, T \ {c})
  <2>1. At(r)
    BY DEF Owned
  <2>2. Hand(j) = Hand(job[r]) /\ T \subseteq Hand(j)
    BY <1>2, <1>4 DEF Hand, Resummed
  <2> QED BY <1>2, <1>4, <2>1, <2>2 DEF At, Placed, Resummed, StepOf, Summing
<1>6. ToWrite(pc[r], job[r], at[r], todo[r]) = {}
  BY NothingToWrite DEF Summing
<1>7. SumAs("sum", j, c, T \ {c})'
  <2>1. j.order.carts \ ((T \ {c}) \cup {c}) = {} /\ j.order.total = 0 /\ c \notin T \ {c}
    BY <1>2, <1>4 DEF Resummed
  <2>2. EditSum("sum", j, c, T \ {c})'
    BY <2>1, TotalNone DEF EditSum
  <2> QED BY <1>4, <2>2 DEF SumAs, Resummed, Summing
<1>8. "sum" # "idle" /\ "sum" # "resave"
  OBVIOUS
<1> QED BY <1>3, <1>4, <1>5, <1>6, <1>7, <1>8, GoesOn

LEMMA CancelLoadFine ==
  ASSUME Inv, Owned, NEW r \in Requests, CancelLoad(r)
  PROVE  Fine(r)
<1>1. /\ pc[r] = "load" /\ UNCHANGED <<price, cart, order, started, torn>>
      /\ Works(r) /\ Writes(r)
  BY DEF CancelLoad, Works, Writes
<1>2. At(r) /\ JobOK(job[r]) /\ job[r].op = "cancel" /\ at[r] \in Hand(job[r])
  BY <1>1 DEF Owned, At, Placed, StepOf, Inv, RequestOK, AtLine
<1>3. ToWrite(pc[r], job[r], at[r], todo[r]) = {}
  BY <1>2, NothingToWrite
<1>4. ASSUME SumOK(r), NEW step, NEW j, NEW c, NEW T,
             Resummed(job[r], j, job[r].order.total)
      PROVE  SumAs(step, j, c, T)'
  <2>1. CopySum(step, j, c)
    BY <1>2, <1>4 DEF SumOK, SumAs, CopySum, Resummed
  <2>2. CopySum(step, j, c)'
    BY <1>1, <2>1 DEF CopySum, Agrees
  <2> QED BY <1>2, <1>4, <2>2 DEF SumAs, Resummed, Summing
<1>5. CASE cart[at[r]].state # "saved"
  <2>1. NextLine(r, "load") /\ job' = [job EXCEPT ![r] = job[r]]
    BY <1>5 DEF CancelLoad, Inv, Domains
  <2>2. \/ todo[r] = {} /\ Now(r, "order", job[r], at[r], {})
        \/ \E c \in todo[r] : Now(r, "load", job[r], c, todo[r] \ {c})
    BY <2>1, NextLineDoes
  <2>3. CASE Now(r, "order", job[r], at[r], {})
    <3>1. Placed("order", job[r], at[r], {})
      BY <1>2 DEF At, Placed, StepOf, Ops, AtLine
    <3> QED BY <1>1, <1>3, <1>4, <2>3, <3>1, SameResummed, GoesOn
  <2>4. ASSUME NEW c \in todo[r], Now(r, "load", job[r], c, todo[r] \ {c}) PROVE Fine(r)
    <3>1. c \in Hand(job[r]) /\ todo[r] \ {c} \subseteq job[r].order.carts
      BY <1>2 DEF At, Placed, Hand
    <3>2. Placed("load", job[r], c, todo[r] \ {c})
      BY <1>2, <3>1 DEF At, Placed, StepOf, AtLine
    <3> QED BY <1>1, <1>3, <1>4, <2>4, <3>2, SameResummed, GoesOn
  <2> QED BY <2>2, <2>3, <2>4
<1>6. CASE cart[at[r]].state = "saved"
  <2>1. PICK n : n = cart[at[r]]
    OBVIOUS
  <2>2. PICK c : c = at[r]
    OBVIOUS
  <2>3. PICK j : j = [job[r] EXCEPT !.lines[c] = n]
    OBVIOUS
  <2>4. /\ job' = [job EXCEPT ![r] = j] /\ pc' = [pc EXCEPT ![r] = "move"]
        /\ UNCHANGED <<at, todo>>
    BY <1>6, <2>1, <2>2, <2>3 DEF CancelLoad
  <2>5. Resummed(job[r], j, job[r].order.total)
    BY <1>2, <2>3, JobFields
  <2>6. Now(r, "move", j, at[r], todo[r])
    BY <2>4, StayDoes
  <2>7. Placed("move", j, at[r], todo[r])
    <3>1. Hand(j) = Hand(job[r])
      BY <2>5 DEF Resummed, Hand
    <3> QED BY <1>2, <2>5, <3>1 DEF At, Placed, StepOf, AtLine, Resummed
  <2> QED BY <1>1, <1>3, <1>4, <2>5, <2>6, <2>7, GoesOn
<1> QED BY <1>5, <1>6

LEMMA SaveMovementFine ==
  ASSUME Inv, Owned, NEW r \in Requests, SaveMovement(r)
  PROVE  Fine(r)
<1> PICK j : j = job[r]
  OBVIOUS
<1> PICK a : a = at[r]
  OBVIOUS
<1> PICK L : L = todo[r]
  OBVIOUS
<1>1. pc[r] = "move" /\ UNCHANGED <<cart, order, started, torn>> /\ Works(r) /\ Writes(r)
  BY DEF SaveMovement, Works, Writes
<1>2. /\ At(r) /\ a \in Hand(j) /\ L \subseteq j.order.carts
      /\ j.op \in {"sale", "cancel", "quantity", "delete"}
  BY <1>1 DEF Owned, At, Placed, StepOf, AtLine
<1>3. job' = job => job' = [job EXCEPT ![r] = job[r]]
  BY DEF Inv, Domains
<1>4. CASE j.op = "sale"
  <2>1. NextLine(r, "cart") /\ job' = [job EXCEPT ![r] = job[r]]
    BY <1>3, <1>4 DEF SaveMovement
  <2>2. \/ L = {} /\ Now(r, "order", j, a, {})
        \/ \E c \in L : Now(r, "cart", j, c, L \ {c})
    BY <2>1, NextLineDoes
  <2>3. ToWrite(pc[r], j, a, L) = L
    BY <1>1, <1>4 DEF ToWrite
  <2>4. ASSUME NEW step, NEW c, NEW T, ToWrite(step, j, c, T) = L, c \notin T,
               SumOK(r)
        PROVE  SumAs(step, j, c, T)'
    <3>1. SaleSum(pc[r], j, a, L)
      BY <1>4, <2>4 DEF SumOK, SumAs
    <3>2. SaleSum(step, j, c, T)'
      BY <1>1, <2>3, <2>4, <3>1 DEF SaleSum
    <3> QED BY <1>4, <3>2 DEF SumAs, Summing
  <2>5. CASE L = {} /\ Now(r, "order", j, a, {})
    <3>1. Placed("order", j, a, {})
      BY <1>2, <1>4 DEF At, Placed, StepOf, Ops, AtLine
    <3>2. ToWrite("order", j, a, {}) = L
      BY <2>5, <1>4 DEF ToWrite
    <3>3. SumOK(r) => SumAs("order", j, a, {})'
      BY <2>4, <3>2
    <3> QED BY <1>1, <2>3, <2>5, <3>1, <3>2, <3>3, SameResummed, GoesOn
  <2>6. ASSUME NEW c \in L, Now(r, "cart", j, c, L \ {c}) PROVE Fine(r)
    <3>1. c \in Hand(j) /\ c \in j.order.carts
      BY <1>2, <2>6 DEF Hand
    <3>2. Placed("cart", j, c, L \ {c})
      BY <1>2, <1>4, <3>1 DEF At, Placed, StepOf, AtLine
    <3>3. ToWrite("cart", j, c, L \ {c}) = L
      BY <1>4 DEF ToWrite
    <3>4. SumOK(r) => SumAs("cart", j, c, L \ {c})'
      BY <2>4, <3>3
    <3> QED BY <1>1, <2>3, <2>6, <3>2, <3>3, <3>4, SameResummed, GoesOn
  <2> QED BY <2>2, <2>5, <2>6
<1>5. CASE j.op = "cancel"
  <2>1. NextLine(r, "load") /\ job' = [job EXCEPT ![r] = job[r]]
    BY <1>3, <1>5 DEF SaveMovement
  <2>2. \/ L = {} /\ Now(r, "order", j, a, {})
        \/ \E c \in L : Now(r, "load", j, c, L \ {c})
    BY <2>1, NextLineDoes
  <2>3. ToWrite(pc[r], j, a, L) = {}
    BY <1>5, NothingToWrite
  <2>4. ASSUME SumOK(r), NEW step, NEW c, NEW T PROVE SumAs(step, j, c, T)'
    <3>1. CopySum(step, j, c)
      BY <1>5, <2>4 DEF SumOK, SumAs, CopySum
    <3>2. CopySum(step, j, c)'
      BY <1>1, <3>1 DEF CopySum, Agrees
    <3> QED BY <1>5, <3>2 DEF SumAs, Summing
  <2>5. CASE Now(r, "order", j, a, {})
    <3>1. Placed("order", j, a, {})
      BY <1>2, <1>5 DEF At, Placed, StepOf, Ops, AtLine
    <3> QED BY <1>1, <2>3, <2>4, <2>5, <3>1, SameResummed, GoesOn
  <2>6. ASSUME NEW c \in L, Now(r, "load", j, c, L \ {c}) PROVE Fine(r)
    <3>1. c \in Hand(j)
      BY <1>2, <2>6 DEF Hand
    <3>2. Placed("load", j, c, L \ {c})
      BY <1>2, <1>5, <3>1 DEF At, Placed, StepOf, AtLine
    <3> QED BY <1>1, <2>3, <2>4, <2>6, <3>2, SameResummed, GoesOn
  <2> QED BY <2>2, <2>5, <2>6
<1>6. CASE j.op = "quantity"
  <2>1. pc' = [pc EXCEPT ![r] = "cart"] /\ UNCHANGED <<job, at, todo>>
    BY <1>6 DEF SaveMovement
  <2>2. Now(r, "cart", j, a, L)
    BY <1>3, <2>1, StayDoes
  <2>3. j.lines[a].state = "saved"
    BY <1>1, <1>2, <1>6 DEF At, Placed
  <2>4. Placed("cart", j, a, L)
    BY <1>1, <1>2, <1>6, <2>3 DEF At, Placed, StepOf, AtLine
  <2>5. SumAs("cart", j, a, L)'
    BY <1>6 DEF SumAs, EditSum, Summing
  <2>6. ToWrite(pc[r], j, a, L) = {}
    BY <1>6, NothingToWrite
  <2> QED BY <1>1, <2>2, <2>4, <2>5, <2>6, SameResummed, GoesOn
<1>7. CASE j.op = "delete"
  <2>1. StartSum(r)
    BY <1>7 DEF SaveMovement
  <2> QED BY <1>1, <1>7, <2>1, SumBegins DEF Summing
<1> QED BY <1>2, <1>4, <1>5, <1>6, <1>7

\* A line of r that is there, or that a sale writes, takes what is saved.
LEMMA StoredWrites ==
  ASSUME Inv, NEW r \in Requests, NEW c \in Carts, c \in Hand(job[r]), NEW n,
         n.state = "saved", cart' = Stored(c, n)
  PROVE  /\ Writes(r) /\ cart'[c].state # "unused"
         /\ cart[c].state # "deleted" => cart'[c] = n
         /\ \A d \in Carts \ {c} : cart'[d] = cart[d]
<1>1. CASE cart[c].state = "deleted"
  BY <1>1 DEF Stored, Writes
<1>2. CASE cart[c].state # "deleted"
  <2>1. cart' = [cart EXCEPT ![c] = n] /\ DOMAIN cart = Carts
    BY <1>2 DEF Stored, Inv
  <2>2. cart'[c] = n /\ \A d \in Carts \ {c} : cart'[d] = cart[d]
    BY <2>1
  <2> QED BY <2>2 DEF Writes
<1> QED BY <1>1, <1>2

LEMMA SaveCartFine ==
  ASSUME Inv, Owned, NEW r \in Requests, SaveCart(r)
  PROVE  Fine(r)
<1> PICK j : j = job[r]
  OBVIOUS
<1> PICK c : c = at[r]
  OBVIOUS
<1> PICK L : L = todo[r]
  OBVIOUS
<1>1. /\ pc[r] = "cart" /\ UNCHANGED <<price, order, started, torn>> /\ Works(r)
      /\ cart' = Stored(c, j.lines[c])
  BY DEF SaveCart, Works
<1>2. /\ At(r) /\ c \in Hand(j) /\ L \subseteq j.order.carts
      /\ j.op \in {"sale", "price", "purchase", "quantity"} /\ j.lines[c].state = "saved"
      /\ j.nid \in Orders
  BY <1>1 DEF Owned, At, Placed, StepOf, AtLine, Summing
<1>3. c \in Carts /\ j.order.carts \subseteq Carts
  BY <1>2, HandInCarts, Shapes
<1>4. /\ Writes(r) /\ cart'[c].state # "unused"
      /\ cart[c].state # "deleted" => cart'[c] = j.lines[c]
      /\ \A d \in Carts \ {c} : cart'[d] = cart[d]
  BY <1>1, <1>2, <1>3, StoredWrites
<1>5. CASE j.op = "sale"
  <2>1. pc' = [pc EXCEPT ![r] = "move"] /\ UNCHANGED <<job, at, todo>>
    BY <1>5 DEF SaveCart
  <2>2. Now(r, "move", j, c, L)
    <3>1. job' = [job EXCEPT ![r] = job[r]]
      BY <2>1 DEF Inv, Domains
    <3> QED BY <2>1, <3>1, StayDoes
  <2>3. Placed("move", j, c, L)
    BY <1>1, <1>2, <1>5 DEF At, Placed, StepOf, AtLine
  <2>4. ToWrite(pc[r], j, c, L) = L \cup {c} /\ ToWrite("move", j, c, L) = L
    BY <1>1, <1>5 DEF ToWrite
  <2>5. \A d \in Hand(j) \ ToWrite("move", j, c, L) :
          d \in ToWrite(pc[r], j, c, L) => cart'[d].state # "unused"
    BY <1>4, <2>4
  <2>6. ASSUME SumOK(r) PROVE SumAs("move", j, c, L)'
    <3>1. SaleSum(pc[r], j, c, L)
      BY <1>5, <2>6 DEF SumOK, SumAs
    <3>2. c \notin L /\ cart[c].state = "unused"
      BY <2>4, <3>1 DEF SaleSum
    <3>3. cart'[c] = j.lines[c]
      BY <1>4, <3>2
    <3>4. \A d \in L : cart'[d].state = "unused"
      BY <1>2, <1>3, <1>4, <2>4, <3>1, <3>2 DEF SaleSum
    <3>5. \A d \in j.order.carts \ L : cart'[d] = j.lines[d]
      BY <1>3, <1>4, <2>4, <3>1, <3>3 DEF SaleSum
    <3>6. j.order.total = TotalOf(j.order.carts, j.lines)
      BY <3>1 DEF SaleSum
    <3>7. SaleSum("move", j, c, L)'
      BY <2>4, <3>2, <3>4, <3>5, <3>6 DEF SaleSum
    <3> QED BY <1>5, <3>7 DEF SumAs, Summing
  <2> QED BY <1>1, <1>4, <2>2, <2>3, <2>5, <2>6, SameResummed, GoesOn
<1>6. CASE j.op = "purchase"
  <2>1. End(r)
    BY <1>6 DEF SaveCart
  <2>2. ASSUME NEW o \in Orders, o = job[r].nid, SumOK(r) PROVE Agrees(o)'
    <3>1. CopySum("cart", j, c)
      BY <1>1, <1>6, <2>2 DEF SumOK, SumAs
    <3>2. Agrees(o) /\ j.lines[c] = cart[c] /\ cart[c].state = "saved"
      BY <1>2, <1>6, <2>2, <3>1 DEF CopySum
    <3>3. \A d \in Carts : cart'[d] = cart[d]
      BY <1>4, <3>2
    <3> QED BY <1>1, <3>2, <3>3, Shapes, AgreesStays
  <2> QED BY <1>1, <1>4, <2>1, <2>2, Ends
<1>7. CASE j.op \in {"price", "quantity"}
  <2>1. StartSum(r) /\ job[r].op \in Summing
    BY <1>7 DEF SaveCart, Summing
  <2> QED BY <1>1, <1>4, <2>1, SumBegins
<1> QED BY <1>2, <1>5, <1>6, <1>7

\* The next line to add up, or the order when all lines are in the sum.
LEMMA SumGoesOn ==
  ASSUME Inv, Owned, NEW r \in Requests, pc[r] \in {"sum", "resave"}, NextLine(r, "sum"),
         NEW j, job' = [job EXCEPT ![r] = j], NEW x, Resummed(job[r], j, x),
         order' = order, Writes(r), UNCHANGED torn,
         job[r].nid \notin SharedOrders \cup torn /\ SumOK(r) /\ Knows(r)
           => x = TotalOf(j.order.carts \ todo[r], cart')
  PROVE  Fine(r)
<1> PICK c : c = at[r]
  OBVIOUS
<1> PICK L : L = todo[r]
  OBVIOUS
<1>1. Works(r) /\ At(r) /\ L \subseteq j.order.carts /\ j.op \in Summing /\ Hand(j) = Hand(job[r])
  BY DEF Works, Owned, At, Placed, StepOf, Resummed, Hand, Summing
<1>2. ToWrite(pc[r], job[r], c, L) = {}
  BY <1>1, NothingToWrite DEF Resummed, Summing
<1>3. \/ L = {} /\ Now(r, "order", j, c, {})
      \/ \E d \in L : Now(r, "sum", j, d, L \ {d})
  BY NextLineDoes
<1>4. CASE L = {} /\ Now(r, "order", j, c, {})
  <2>1. Placed("order", j, c, {})
    BY <1>1 DEF At, Placed, StepOf, Ops, AtLine, Resummed, Summing
  <2>2. ASSUME x = TotalOf(j.order.carts \ L, cart') PROVE SumAs("order", j, c, {})'
    <3>1. j.order.total = TotalOf(j.order.carts, cart')
      <4>1. j.order.carts \ L = j.order.carts
        BY <1>4
      <4> QED BY <2>2, <4>1 DEF Resummed
    <3> QED BY <1>1, <3>1 DEF SumAs, EditSum, Summing
  <2> QED BY <1>1, <1>2, <1>4, <2>1, <2>2, GoesOn
<1>5. ASSUME NEW d \in L, Now(r, "sum", j, d, L \ {d}) PROVE Fine(r)
  <2>1. Placed("sum", j, d, L \ {d})
    BY <1>1, <1>5 DEF At, Placed, StepOf, AtLine, Resummed, Summing, Hand
  <2>2. ASSUME x = TotalOf(j.order.carts \ L, cart') PROVE SumAs("sum", j, d, L \ {d})'
    <3>1. j.order.carts \ ((L \ {d}) \cup {d}) = j.order.carts \ L
      BY <1>5
    <3>2. j.order.total = TotalOf(j.order.carts \ ((L \ {d}) \cup {d}), cart')
      BY <2>2, <3>1 DEF Resummed
    <3> QED BY <1>1, <3>2 DEF SumAs, EditSum, Summing
  <2> QED BY <1>1, <1>2, <1>5, <2>1, <2>2, GoesOn
<1> QED BY <1>3, <1>4, <1>5

\* The sum with one line more.
LEMMA OneMore ==
  ASSUME Inv, NEW U \in SUBSET Carts, NEW c \in U, NEW W, W = U \ {c}
  PROVE  TotalOf(U, cart) = TotalOf(W, cart) + cart[c].total /\ TotalOf(W, cart) \in Nat
<1>1. IsFiniteSet(U) /\ Totals(U, cart) /\ IsFiniteSet(W) /\ Totals(W, cart)
  BY CartTotals
<1>2. PICK f : f = cart
  OBVIOUS
<1>3. TotalOf(U, f) = TotalOf(U \ {c}, f) + f[c].total
  BY <1>1, <1>2, TotalLess
<1>4. TotalOf(W, f) \in Nat
  BY <1>1, <1>2, TotalNat
<1> QED BY <1>2, <1>3, <1>4

LEMMA SumLineFine ==
  ASSUME Inv, Owned, NEW r \in Requests, SumLine(r)
  PROVE  Fine(r)
<1> PICK j : j = job[r]
  OBVIOUS
<1> PICK c : c = at[r]
  OBVIOUS
<1> PICK L : L = todo[r]
  OBVIOUS
<1> PICK n : n = cart[c]
  OBVIOUS
<1>1. pc[r] = "sum" /\ UNCHANGED <<price, cart, order, started, torn>> /\ Works(r) /\ Writes(r)
  BY DEF SumLine, Works, Writes
<1>2. /\ At(r) /\ JobOK(j) /\ j.op \in Summing /\ c \in j.order.carts
      /\ j.order.carts \subseteq Carts /\ c \in Carts
  BY <1>1, Shapes DEF Owned, At, Placed, StepOf, Inv, RequestOK, Summing
<1>3. ASSUME SumOK(r)
      PROVE  /\ c \notin L /\ j.order.total = TotalOf(j.order.carts \ (L \cup {c}), cart)
             /\ TotalOf(j.order.carts \ L, cart) = j.order.total + n.total
             /\ j.order.total \in Nat
  <2>1. EditSum("sum", j, c, L)
    BY <1>1, <1>2, <1>3 DEF SumOK, SumAs
  <2>2. c \notin L /\ j.order.total = TotalOf(j.order.carts \ (L \cup {c}), cart)
    BY <2>1 DEF EditSum
  <2>3. PICK U : U = j.order.carts \ L
    OBVIOUS
  <2>4. PICK W : W = j.order.carts \ (L \cup {c})
    OBVIOUS
  <2>5. U \in SUBSET Carts /\ c \in U /\ W = U \ {c}
    BY <1>2, <2>2, <2>3, <2>4
  <2>6. TotalOf(U, cart) = TotalOf(W, cart) + cart[c].total /\ TotalOf(W, cart) \in Nat
    BY <2>5, OneMore
  <2> QED BY <2>2, <2>3, <2>4, <2>6
<1>4. CASE n.state = "saved" /\ j.op = "quantity"
  <2>1. PICK m : m = Recomputed(n)
    OBVIOUS
  <2>2. PICK x : x = j.order.total + m.total
    OBVIOUS
  <2>3. PICK k : k = [j EXCEPT !.lines[c] = m, !.order.total = x]
    OBVIOUS
  <2>4. CountedTotal(r, n) = m.total
    BY <1>4, <2>1 DEF CountedTotal
  <2>5. /\ job' = [job EXCEPT ![r] = k] /\ pc' = [pc EXCEPT ![r] = "resave"]
        /\ UNCHANGED <<at, todo>>
    <3>1. /\ job' = [job EXCEPT ![r].lines[c] = m,
                                ![r].order.total = @ + CountedTotal(r, n)]
          /\ pc' = [pc EXCEPT ![r] = "resave"] /\ UNCHANGED <<at, todo>>
      BY <1>4, <2>1 DEF SumLine
    <3> QED BY <2>2, <2>3, <2>4, <3>1
  <2>6. Now(r, "resave", k, c, L)
    BY <2>5, StayDoes
  <2>7. Resummed(j, k, x) /\ k.lines = [j.lines EXCEPT ![c] = m]
    <3>1. PICK lines : lines = [j.lines EXCEPT ![c] = m]
      OBVIOUS
    <3>2. PICK u : u = [j.order EXCEPT !.total = x]
      OBVIOUS
    <3>3. PICK i : i = [j EXCEPT !.lines[c] = m]
      OBVIOUS
    <3>4. i = [j EXCEPT !.lines = lines]
      BY <3>1, <3>3
    <3>5. PICK t : j \in JobWith(t)
      BY <1>2 DEF JobOK
    <3>6. i.order = j.order
      BY <3>4, <3>5 DEF JobWith
    <3>7. k = [i EXCEPT !.order.total = x]
      BY <2>3, <3>3
    <3>8. k = [i EXCEPT !.order = u]
      BY <3>2, <3>6, <3>7
    <3>9. k = [j EXCEPT !.lines = lines, !.order = u]
      BY <3>4, <3>8
    <3>10. Resummed(j, k, x) /\ k.lines = lines
      <4>1. k.order = u /\ k.lines = lines /\ k.op = j.op /\ k.nid = j.nid /\ k.line = j.line
        BY <3>5, <3>9 DEF JobWith
      <4> QED BY <3>2, <3>5, <4>1 DEF JobWith, OrderWith, Resummed
    <3> QED BY <3>1, <3>10
  <2>8. k.lines[c] = m /\ m.state = "saved" /\ m.unit = n.unit /\ m.qty = n.qty
    <3>1. j.lines \in [Carts -> Line] /\ n \in Line
      BY <1>2, Shapes
    <3> QED BY <1>2, <1>4, <2>1, <2>7, <3>1 DEF Recomputed, Line
  <2>9. Placed("resave", k, c, L)
    <3>1. Hand(k) = Hand(j) /\ c \in Hand(j)
      BY <1>2, <2>7 DEF Hand, Resummed
    <3> QED BY <1>1, <1>2, <1>4, <2>7, <2>8, <3>1 DEF At, Placed, StepOf, Resummed
  <2>10. ToWrite(pc[r], j, c, L) = {}
    BY <1>4, NothingToWrite
  <2>11. ASSUME SumOK(r) PROVE SumAs("resave", k, c, L)'
    <3>1. k.order.total = TotalOf(k.order.carts \ (L \cup {c}), cart') + k.lines[c].total
      BY <1>1, <1>3, <2>2, <2>7, <2>8, <2>11 DEF Resummed
    <3>2. c \notin L
      BY <1>3, <2>11
    <3>3. EditSum("resave", k, c, L)'
      BY <3>1, <3>2 DEF EditSum
    <3> QED BY <1>4, <2>7, <3>3 DEF SumAs, Resummed, Summing
  <2>12. cart'[c].state = "saved" /\ k.lines[c].unit = cart'[c].unit
         /\ k.lines[c].qty = cart'[c].qty
    BY <1>1, <1>4, <2>8
  <2> QED BY <1>1, <2>6, <2>7, <2>9, <2>10, <2>11, <2>12, GoesOn
<1>5. CASE n.state = "saved" /\ j.op # "quantity"
  <2>1. PICK x : x = j.order.total + n.total
    OBVIOUS
  <2>2. PICK k : k = [j EXCEPT !.order.total = x]
    OBVIOUS
  <2>3. NextLine(r, "sum") /\ job' = [job EXCEPT ![r].order.total = @ + CountedTotal(r, n)]
    BY <1>5 DEF SumLine
  <2>4. CountedTotal(r, n) = n.total
    BY <1>5 DEF CountedTotal
  <2>5. job' = [job EXCEPT ![r] = k]
    BY <2>1, <2>2, <2>3, <2>4
  <2>6. Resummed(j, k, x)
    BY <1>2, <2>2, JobFields
  <2>7. SumOK(r) => x = TotalOf(k.order.carts \ L, cart')
    BY <1>1, <1>3, <2>1, <2>6 DEF Resummed
  <2> QED BY <1>1, <2>3, <2>5, <2>6, <2>7, SumGoesOn
<1>6. CASE n.state # "saved"
  <2>1. NextLine(r, "sum") /\ job' = [job EXCEPT ![r] = job[r]]
    BY <1>6 DEF SumLine, Inv, Domains
  <2>2. n.total = 0
    BY <1>2, <1>6 DEF Owned
  <2>3. SumOK(r) => j.order.total = TotalOf(j.order.carts \ L, cart')
    BY <1>1, <1>3, <2>2
  <2> QED BY <1>1, <2>1, <2>3, SameResummed, SumGoesOn
<1> QED BY <1>4, <1>5, <1>6

LEMMA ResaveLineFine ==
  ASSUME Inv, Inv', Owned, NEW r \in Requests, ResaveLine(r)
  PROVE  Fine(r)
<1> PICK j : j = job[r]
  OBVIOUS
<1> PICK c : c = at[r]
  OBVIOUS
<1> PICK L : L = todo[r]
  OBVIOUS
<1>1. /\ pc[r] = "resave" /\ UNCHANGED <<price, order, job, started, torn>> /\ Works(r)
      /\ cart' = Stored(c, j.lines[c]) /\ NextLine(r, "sum")
      /\ job' = [job EXCEPT ![r] = j]
  BY DEF ResaveLine, Works, Inv, Domains
<1>2. /\ At(r) /\ c \in Hand(j) /\ j.op = "quantity" /\ j.lines[c].state = "saved"
      /\ c \in j.order.carts /\ j.order.carts \subseteq Carts /\ c \in Carts
  BY <1>1, Shapes DEF Owned, At, Placed, StepOf, AtLine
<1>3. /\ Writes(r) /\ cart'[c].state # "unused"
      /\ cart[c].state # "deleted" => cart'[c] = j.lines[c]
      /\ \A d \in Carts \ {c} : cart'[d] = cart[d]
  BY <1>1, <1>2, StoredWrites
<1>4. ASSUME SumOK(r), Knows(r)
      PROVE  j.order.total = TotalOf(j.order.carts \ L, cart')
  <2>1. EditSum("resave", j, c, L)
    BY <1>1, <1>2, <1>4 DEF SumOK, SumAs, Summing
  <2>2. c \notin L
    BY <2>1 DEF EditSum
  <2>3. PICK U : U = j.order.carts \ L
    OBVIOUS
  <2>4. PICK W : W = j.order.carts \ (L \cup {c})
    OBVIOUS
  <2>5. U \in SUBSET Carts /\ c \in U /\ W = U \ {c} /\ W \in SUBSET Carts
    BY <1>2, <2>2, <2>3, <2>4
  <2>6. j.order.total = TotalOf(W, cart) + j.lines[c].total
    BY <2>1, <2>4 DEF EditSum
  <2>7. TotalOf(W, cart') = TotalOf(W, cart)
    BY <1>3, <2>5, SumStays
  <2>8. cart'[c] = j.lines[c]
    BY <1>1, <1>3, <1>4 DEF Knows
  <2>9. TotalOf(U, cart') = TotalOf(W, cart') + cart'[c].total
    <3>1. PICK f : f = cart'
      OBVIOUS
    <3>2. IsFiniteSet(U)
      BY <2>5, CartTotals
    <3>3. Totals(U, f)
      BY <2>5, <3>1 DEF Inv, LineOK, Line, Totals
    <3>4. TotalOf(U, f) = TotalOf(U \ {c}, f) + f[c].total
      BY <2>5, <3>2, <3>3, TotalLess
    <3> QED BY <2>5, <3>1, <3>4
  <2> QED BY <2>3, <2>6, <2>7, <2>8, <2>9
<1>5. SumOK(r) /\ Knows(r) => j.order.total = TotalOf(j.order.carts \ todo[r], cart')
  BY <1>4
<1>6. Resummed(job[r], j, j.order.total)
  BY SameResummed
<1> QED BY <1>1, <1>3, <1>5, <1>6, SumGoesOn

LEMMA SaveOrderFine ==
  ASSUME Inv, Owned, NEW r \in Requests, SaveOrder(r)
  PROVE  Fine(r)
<1> PICK j : j = job[r]
  OBVIOUS
<1> PICK c : c = at[r]
  OBVIOUS
<1>1. /\ pc[r] = "order" /\ UNCHANGED <<price, cart, started, torn>> /\ Works(r) /\ Writes(r)
      /\ order' = [order EXCEPT ![job[r].nid] = job[r].order]
  BY DEF SaveOrder, Works, Writes
<1>2. /\ At(r) /\ todo[r] = {} /\ j.nid \in Orders /\ j.order.carts \subseteq Carts
      /\ j.op \in Ops \ {"purchase"} /\ order'[j.nid] = j.order
  BY <1>1, Shapes DEF Owned, At, Placed, StepOf, Inv, Summing, Ops
<1>3. ASSUME SumOK(r) PROVE j.order.total = TotalOf(j.order.carts, cart)
  <2>1. CASE j.op = "sale"
    <3>1. SaleSum("order", j, c, {})
      BY <1>1, <1>2, <1>3, <2>1 DEF SumOK, SumAs
    <3>2. ToWrite("order", j, c, {}) = {}
      BY DEF ToWrite
    <3>3. \A d \in j.order.carts : cart[d] = j.lines[d]
      BY <3>1, <3>2 DEF SaleSum
    <3>4. PICK f : f = cart
      OBVIOUS
    <3>5. PICK g : g = j.lines
      OBVIOUS
    <3>6. IsFiniteSet(j.order.carts) /\ Totals(j.order.carts, f)
      BY <1>2, <3>4, CartTotals
    <3>7. TotalOf(j.order.carts, f) = TotalOf(j.order.carts, g)
      BY <3>3, <3>4, <3>5, <3>6, TotalSame
    <3> QED BY <3>1, <3>4, <3>5, <3>7 DEF SaleSum
  <2>2. CASE j.op \in {"status", "cancel"}
    BY <1>3, <2>2 DEF SumOK, SumAs, CopySum, Agrees
  <2>3. CASE j.op \in Summing
    BY <1>1, <1>3, <2>3 DEF SumOK, SumAs, EditSum
  <2> QED BY <1>2, <2>1, <2>2, <2>3 DEF Ops, Summing
<1>4. ASSUME NEW o, o = j.nid, SumOK(r) PROVE Agrees(o)'
  BY <1>1, <1>2, <1>3, <1>4 DEF Agrees
<1>5. CASE j.op = "delete"
  <2>1. pc' = [pc EXCEPT ![r] = "drop"] /\ UNCHANGED <<job, at, todo>>
    BY <1>5 DEF SaveOrder
  <2>2. Now(r, "drop", j, c, {})
    <3>1. job' = [job EXCEPT ![r] = j]
      BY <2>1 DEF Inv, Domains
    <3>2. Now(r, "drop", j, at[r], todo[r])
      BY <2>1, <3>1, StayDoes
    <3> QED BY <1>2, <3>2
  <2>3. Placed("drop", j, c, {})
    BY <1>2, <1>5 DEF At, Placed, StepOf, AtLine
  <2>4. ToWrite(pc[r], j, c, todo[r]) = {}
    BY <1>5, NothingToWrite
  <2>5. ASSUME SumOK(r) PROVE SumAs("drop", j, c, {})'
    <3>1. Agrees(j.nid)'
      BY <1>4, <2>5
    <3>2. EditSum("drop", j, c, {})'
      BY <1>2, <3>1 DEF EditSum
    <3> QED BY <1>5, <3>2 DEF SumAs, Summing
  <2> QED BY <1>1, <2>2, <2>3, <2>4, <2>5, SameResummed, GoesOn
<1>6. CASE j.op # "delete"
  <2>1. End(r)
    BY <1>6 DEF SaveOrder
  <2> QED BY <1>1, <1>4, <2>1, Ends
<1> QED BY <1>5, <1>6

LEMMA DropCartFine ==
  ASSUME Inv, Owned, NEW r \in Requests, DropCart(r)
  PROVE  Fine(r)
<1> PICK j : j = job[r]
  OBVIOUS
<1>1. /\ pc[r] = "drop" /\ UNCHANGED <<price, order, started, torn>> /\ Works(r) /\ End(r)
      /\ cart' = [cart EXCEPT ![j.line] = [NoLine EXCEPT !.state = "deleted"]]
  BY DEF DropCart, Works
<1>2. /\ At(r) /\ j.op = "delete" /\ j.line \in Carts \ j.order.carts /\ j.line \in Hand(j)
      /\ j.nid \in Orders
  BY <1>1 DEF Owned, At, Placed, StepOf, Hand, Summing
<1>3. /\ \A d \in Carts \ {j.line} : cart'[d] = cart[d]
      /\ cart'[j.line].state = "deleted" /\ cart'[j.line].total = 0
  BY <1>1, <1>2 DEF Inv, NoLine
<1>4. Writes(r)
  BY <1>2, <1>3 DEF Writes
<1>5. ASSUME NEW o \in Orders, o = j.nid, SumOK(r) PROVE Agrees(o)'
  <2>1. EditSum("drop", j, at[r], todo[r])
    BY <1>1, <1>2, <1>5 DEF SumOK, SumAs, Summing
  <2>2. Agrees(o) /\ order[o].carts = j.order.carts
    BY <1>5, <2>1 DEF EditSum
  <2>3. \A d \in order[o].carts : cart'[d] = cart[d]
    BY <1>2, <1>3, <2>2, Shapes
  <2> QED BY <1>1, <2>2, <2>3, AgreesStays
<1> QED BY <1>1, <1>4, <1>5, Ends

LEMMA FailFine ==
  ASSUME Inv, Owned, NEW r \in Requests, Fail(r)
  PROVE  Fine(r)
<1>1. /\ Works(r) /\ End(r) /\ torn' = torn \cup {job[r].nid}
      /\ UNCHANGED <<price, cart, order, started>> /\ Writes(r)
  BY DEF Fail, Works, Writes
<1>2. \A o \in Orders \ (SharedOrders \cup torn') : o # job[r].nid
  BY <1>1
<1> QED BY <1>1, <1>2, Ends

LEMMA StepFine ==
  ASSUME Inv, Inv', Owned, NEW r \in Requests, Step(r) \/ Fail(r)
  PROVE  Fine(r) /\ Works(r)
<1>1. Fine(r)
  BY CancelLoadFine, SaveMovementFine, SaveCartFine, SumLineFine, ResaveLineFine,
     SaveOrderFine, DropCartFine, FailFine DEF Step
<1>2. pc[r] # "idle"
  BY DEF Step, CancelLoad, SaveMovement, SaveCart, SumLine, ResaveLine, SaveOrder,
         DropCart, Fail
<1> QED BY <1>1, <1>2 DEF Works

-----------------------------------------------------------------------------
(* The invariants.                                                         *)

\* A sum is not disturbed by writes of other lines and orders.
LEMMA SumAsStays ==
  ASSUME Inv, NEW step, NEW j, NEW c, NEW T, Placed(step, j, c, T),
         j.order.carts \subseteq Carts, order'[j.nid] = order[j.nid],
         \A d \in order[j.nid].carts : cart'[d] = cart[d],
         \A d \in Hand(j) : cart'[d] = cart[d], SumAs(step, j, c, T)
  PROVE  SumAs(step, j, c, T)'
<1>1. /\ j.nid \in Orders /\ T \subseteq j.order.carts /\ j.order.carts \subseteq Hand(j)
      /\ order[j.nid].carts \subseteq Carts
  BY Shapes DEF Placed, Hand
<1>2. Agrees(j.nid) => Agrees(j.nid)'
  <2>1. PICK o : o = j.nid
    OBVIOUS
  <2>2. Agrees(o) => Agrees(o)'
    BY <1>1, <2>1, AgreesStays
  <2> QED BY <2>1, <2>2
<1>3. CASE j.op = "sale"
  <2>1. SaleSum(step, j, c, T)
    BY <1>3 DEF SumAs
  <2>2. ToWrite(step, j, c, T) \subseteq Hand(j)
    BY <1>1, <1>3 DEF ToWrite, Placed, AtLine
  <2>3. SaleSum(step, j, c, T)'
    BY <1>1, <2>1, <2>2 DEF SaleSum
  <2> QED BY <1>3, <2>3 DEF SumAs, Summing
<1>4. CASE j.op \in {"status", "cancel", "purchase"}
  <2>1. CopySum(step, j, c)
    BY <1>4 DEF SumAs
  <2>2. step = "cart" => c \in Hand(j)
    BY DEF Placed, AtLine
  <2>3. CopySum(step, j, c)'
    BY <1>2, <2>1, <2>2 DEF CopySum
  <2> QED BY <1>4, <2>3 DEF SumAs, Summing
<1>5. CASE j.op \in Summing
  <2>1. EditSum(step, j, c, T)
    BY <1>5 DEF SumAs
  <2>2. ASSUME NEW S, S \subseteq j.order.carts
        PROVE  TotalOf(S, cart') = TotalOf(S, cart)
    <3>1. S \in SUBSET Carts /\ \A d \in S : cart'[d] = cart[d]
      BY <1>1, <2>2
    <3> QED BY <3>1, SumStays
  <2>3. PICK W : W = j.order.carts \ (T \cup {c})
    OBVIOUS
  <2>4. /\ TotalOf(W, cart') = TotalOf(W, cart)
        /\ TotalOf(j.order.carts, cart') = TotalOf(j.order.carts, cart)
    BY <2>2, <2>3
  <2>5. EditSum(step, j, c, T)'
    BY <1>2, <2>1, <2>3, <2>4 DEF EditSum
  <2> QED BY <1>5, <2>5 DEF SumAs, Summing
<1> QED BY <1>3, <1>4, <1>5 DEF SumAs

\* A step of r leaves alone what another order claims.
LEMMA ClaimsStay ==
  ASSUME Inv, Owned, NEW r \in Requests, Works(r), Touches(r),
         NEW o \in Orders, o # job[r].nid
  PROVE  order'[o] = order[o] /\ \A c \in Claims(o) : cart'[c] = cart[c]
<1>1. job[r].nid \in Orders /\ Hand(job[r]) \subseteq Claims(job[r].nid)
  BY HandClaimed
<1>2. Claims(o) \cap Claims(job[r].nid) = {}
  BY <1>1 DEF Owned
<1> QED BY <1>1, <1>2 DEF Touches, Claims

LEMMA OtherSum ==
  ASSUME Inv, Inv', Owned, NEW r \in Requests, Works(r), Touches(r),
         NEW q \in Requests, q # r, Works(q), job[q].nid \notin SharedOrders
  PROVE  (SumOK(q) => SumOK(q)') /\ (Knows(q) => Knows(q)')
<1> PICK j : j = job[q]
  OBVIOUS
<1>1. /\ pc'[q] = pc[q] /\ job'[q] = job[q] /\ at'[q] = at[q] /\ todo'[q] = todo[q]
  BY DEF Touches, OthersStay
<1>2. j.nid # job[r].nid
  BY DEF Owned
<1>3. At(q) /\ j.nid \in Orders /\ Hand(j) \subseteq Claims(j.nid)
  BY HandClaimed DEF Owned
<1>4. order'[j.nid] = order[j.nid] /\ \A c \in Claims(j.nid) : cart'[c] = cart[c]
  BY <1>2, <1>3, ClaimsStay
<1>5. order[j.nid].carts \subseteq Claims(j.nid) /\ j.order.carts \subseteq Carts
  BY <1>3, Shapes DEF Claims
<1>6. ASSUME SumOK(q) PROVE SumOK(q)'
  <2> PICK step : step = pc[q]
    OBVIOUS
  <2> PICK c : c = at[q]
    OBVIOUS
  <2> PICK T : T = todo[q]
    OBVIOUS
  <2>1. Placed(step, j, c, T) /\ SumAs(step, j, c, T)
    BY <1>3, <1>6 DEF At, SumOK
  <2>2. /\ \A d \in order[j.nid].carts : cart'[d] = cart[d]
        /\ \A d \in Hand(j) : cart'[d] = cart[d]
    BY <1>3, <1>4, <1>5
  <2>3. SumAs(step, j, c, T)'
    BY <1>4, <1>5, <2>1, <2>2, SumAsStays
  <2>4. pc'[q] = step /\ job'[q] = j /\ at'[q] = c /\ todo'[q] = T
    BY <1>1
  <2> QED BY <2>3, <2>4 DEF SumOK
<1>7. ASSUME Knows(q) PROVE Knows(q)'
  <2>1. pc[q] = "resave" => at[q] \in Hand(j)
    BY <1>3 DEF At, Placed, AtLine
  <2>2. pc[q] = "resave" => cart'[at[q]] = cart[at[q]]
    BY <1>3, <1>4, <2>1
  <2> QED BY <1>1, <1>7, <2>2 DEF Knows
<1> QED BY <1>6, <1>7

LEMMA SumsMove ==
  ASSUME Inv, Inv', Owned, Known, Sums, NEW r \in Requests, Works(r), Fine(r),
         torn \subseteq torn'
  PROVE  Owned' /\ Known' /\ Sums'
<1>1. Touches(r) /\ (Works(r)' => At(r)' /\ Exist(r)')
  BY DEF Fine
<1>2. Owned'
  BY <1>1, OwnedMoves
<1>3. \A q \in Requests : Works(q)' => Works(q) /\ job'[q].nid = job[q].nid
  BY <1>1 DEF Touches, OthersStay, Works
<1>4. ASSUME NEW q \in Requests, Works(q)', job'[q].nid \notin SharedOrders PROVE Knows(q)'
  <2>1. CASE q = r
    BY <1>3, <1>4, <2>1 DEF Fine
  <2>2. CASE q # r
    BY <1>1, <1>3, <1>4, <2>2, OtherSum DEF Known
  <2> QED BY <2>1, <2>2
<1>5. ASSUME NEW q \in Requests, Works(q)', job'[q].nid \notin SharedOrders \cup torn'
      PROVE  SumOK(q)'
  <2>1. Works(q) /\ job'[q].nid = job[q].nid /\ SumOK(q) /\ Knows(q)
    BY <1>3, <1>5 DEF Sums, Known
  <2>2. CASE q = r
    <3>1. job[r].nid \in Orders
      BY HandClaimed
    <3> QED BY <1>5, <2>1, <2>2, <3>1 DEF Fine
  <2>3. CASE q # r
    BY <1>1, <1>5, <2>1, <2>3, OtherSum
  <2> QED BY <2>2, <2>3
<1>6. ASSUME NEW o \in Orders \ (SharedOrders \cup torn'), ~Busy(o)' PROVE Agrees(o)'
  <2>1. CASE o = job[r].nid
    <3>1. ~Works(r)'
      BY <1>3, <1>6, <2>1 DEF Busy, Works
    <3>2. SumOK(r) /\ Knows(r)
      BY <1>6, <2>1 DEF Sums, Known
    <3> QED BY <1>6, <2>1, <3>1, <3>2 DEF Fine
  <2>2. CASE o # job[r].nid
    <3>1. ~Busy(o)
      <4>1. SUFFICES ASSUME NEW q \in Requests, Works(q), job[q].nid = o PROVE FALSE
        BY DEF Busy, Works
      <4>2. q # r
        BY <2>2, <4>1
      <4> QED BY <1>1, <1>6, <4>1, <4>2 DEF Touches, OthersStay, Works, Busy
    <3>2. Agrees(o)
      BY <1>6, <3>1 DEF Sums
    <3>3. order'[o] = order[o] /\ \A c \in order[o].carts : cart'[c] = cart[c]
      BY <1>1, <2>2, ClaimsStay, Shapes DEF Claims
    <3> QED BY <3>2, <3>3, AgreesStays
  <2> QED BY <2>1, <2>2
<1> QED BY <1>2, <1>4, <1>5, <1>6 DEF Known, Sums

LEMMA SumsBegin ==
  ASSUME Inv, Inv', Owned, Known, Sums, NEW r \in Requests,
         NEW step, NEW j, NEW c, NEW T, Begun(r, step, j, c, T)
  PROVE  Owned' /\ Known' /\ Sums'
<1>1. Owned'
  BY OwnedBegins
<1>2. /\ pc'[r] = step /\ job'[r] = j /\ at'[r] = c /\ todo'[r] = T /\ OthersStay(r)
      /\ UNCHANGED <<cart, order, torn>> /\ ~Works(r) /\ Works(r)' /\ step # "resave"
      /\ j.nid \in Orders
  BY DEF Begun, Now, Works, Placed
<1>3. \A q \in Requests \ {r} : pc'[q] = pc[q] /\ job'[q] = job[q] /\ at'[q] = at[q]
                                /\ todo'[q] = todo[q]
  BY <1>2 DEF OthersStay
<1>4. ASSUME NEW q \in Requests, Works(q)', job'[q].nid \notin SharedOrders PROVE Knows(q)'
  <2>1. CASE q = r
    BY <1>2, <2>1 DEF Knows
  <2>2. CASE q # r
    BY <1>2, <1>3, <1>4, <2>2 DEF Known, Knows, Works
  <2> QED BY <2>1, <2>2
<1>5. ASSUME NEW q \in Requests, Works(q)', job'[q].nid \notin SharedOrders \cup torn'
      PROVE  SumOK(q)'
  <2>1. CASE q = r
    <3>1. j.nid \notin SharedOrders \cup torn /\ ~Busy(j.nid)
      BY <1>2, <1>5, <2>1 DEF Begun
    <3>2. Agrees(j.nid)
      BY <1>2, <3>1 DEF Sums
    <3>3. SumAs(step, j, c, T)
      BY <3>1, <3>2 DEF Begun
    <3>4. SumAs(step, j, c, T)'
      BY <1>2, <3>3 DEF SumAs, SaleSum, CopySum, EditSum, Agrees
    <3> QED BY <1>2, <2>1, <3>4 DEF SumOK
  <2>2. CASE q # r
    <3>1. SumOK(q)
      BY <1>2, <1>3, <1>5, <2>2 DEF Sums, Works
    <3> QED BY <1>2, <1>3, <2>2, <3>1 DEF SumOK, SumAs, SaleSum, CopySum, EditSum, Agrees
  <2> QED BY <2>1, <2>2
<1>6. ASSUME NEW o \in Orders \ (SharedOrders \cup torn'), ~Busy(o)' PROVE Agrees(o)'
  <2>1. ~Busy(o)
    BY <1>2, <1>3, <1>6 DEF Busy, Works
  <2>2. Agrees(o)
    BY <1>2, <1>6, <2>1 DEF Sums
  <2> QED BY <1>2, <2>2 DEF Agrees
<1> QED BY <1>1, <1>4, <1>5, <1>6 DEF Known, Sums

TotalsInv == Inv /\ Owned /\ Known /\ Sums

LEMMA InitTotals == Init => TotalsInv
<1> SUFFICES ASSUME Init PROVE TotalsInv
  OBVIOUS
<1>1. Inv
  BY InitInv
<1>2. /\ \A r \in Requests : ~Works(r) /\ job[r] = NoJob
      /\ \A o \in Orders : order[o] = Blank
      /\ \A c \in Carts : cart[c] = NoLine
  BY DEF Init, Works
<1>3. Blank.carts = {} /\ Blank.total = 0 /\ NoLine.total = 0
  BY DEF Blank, NoLine
<1>4. \A o \in Orders : Claims(o) = {}
  BY <1>2, <1>3 DEF Claims
<1>5. Owned
  BY <1>2, <1>3, <1>4 DEF Owned
<1>6. Known
  BY <1>2 DEF Known
<1>7. \A o \in Orders : Agrees(o)
  BY <1>2, <1>3, TotalNone DEF Agrees
<1> QED BY <1>1, <1>2, <1>5, <1>6, <1>7 DEF TotalsInv, Sums

LEMMA NextKeepsTotals ==
  ASSUME TotalsInv, [Next]_vars
  PROVE  TotalsInv'
<1>1. Inv /\ Owned /\ Known /\ Sums /\ Inv'
  BY NextKeepsInv DEF TotalsInv
<1>2. CASE UNCHANGED vars
  BY <1>1, <1>2 DEF vars, TotalsInv, Owned, Known, Sums, Works, At, Exist, Claims, Busy,
     Knows, SumOK, SumAs, SaleSum, CopySum, EditSum, Agrees
<1>3. ASSUME NEW r \in Requests, Receive(r) PROVE TotalsInv'
  <2>1. PICK step, j, c, T : Begun(r, step, j, c, T)
    BY <1>1, <1>3, ReceiveBegun
  <2> QED BY <1>1, <2>1, SumsBegin DEF TotalsInv
<1>4. ASSUME NEW r \in Requests, Step(r) \/ Fail(r) PROVE TotalsInv'
  <2>1. torn \subseteq torn'
    BY <1>4 DEF Step, Fail, CancelLoad, SaveMovement, SaveCart, SumLine, ResaveLine,
                SaveOrder, DropCart
  <2> QED BY <1>1, <1>4, <2>1, StepFine, SumsMove DEF TotalsInv
<1> QED BY <1>2, <1>3, <1>4 DEF Next

LEMMA AlwaysTotals == Spec => []TotalsInv
BY InitTotals, NextKeepsTotals, PTL DEF Spec

\* The total saveOrderLocal, updateCartPrice, updateCartQuantity and
\* deleteCartLine leave in an order is the sum of the totals its lines have,
\* for any number of orders, lines and requests at a time: an order is exempt
\* only if it is open to two requests at a time or one of them stopped half-way.
THEOREM TotalsAlwaysAgree == Spec => []TotalsAgree
<1>1. TotalsInv => TotalsAgree
  BY DEF TotalsInv, Sums, TotalsAgree, Agrees
<1> QED BY <1>1, AlwaysTotals, PTL

\* An edit of a quantity saves every line of its order again (updateCartQuantity),
\* and leaves each other than its own with the quantity and the unit price it had.
THEOREM OtherLinesStay == Spec => OtherLinesKept
<1> DEFINE Kept(r, c) ==
      /\ pc[r] # "idle" /\ job[r].op = "quantity" /\ job[r].nid \notin SharedOrders
      /\ <<pc[r], at[r]>>' # <<pc[r], at[r]>> /\ c # job[r].line
      => cart'[c].unit = cart[c].unit /\ cart'[c].qty = cart[c].qty
<1>1. ASSUME TotalsInv, [Next]_vars, NEW r \in Requests, NEW c \in Carts PROVE Kept(r, c)
  <2>1. SUFFICES ASSUME Works(r), job[r].op = "quantity", job[r].nid \notin SharedOrders,
                        <<pc[r], at[r]>>' # <<pc[r], at[r]>>, c # job[r].line
                 PROVE  cart'[c].unit = cart[c].unit /\ cart'[c].qty = cart[c].qty
    BY DEF Works
  <2>2. Inv /\ Owned /\ Known /\ Sums /\ Inv'
    BY <1>1, NextKeepsInv DEF TotalsInv
  <2>3. Step(r) \/ Fail(r)
    <3>1. CASE UNCHANGED vars
      BY <2>1, <3>1 DEF vars
    <3>2. PICK q \in Requests : Receive(q) \/ Step(q) \/ Fail(q)
      BY <1>1, <2>1 DEF Next, vars
    <3>3. OthersStay(q)
      <4>1. CASE Receive(q)
        <5>1. PICK step, j, d, T : Begun(q, step, j, d, T)
          BY <2>2, <4>1, ReceiveBegun
        <5> QED BY <5>1 DEF Begun, Now
      <4>2. CASE Step(q) \/ Fail(q)
        BY <2>2, <4>2, StepFine DEF Fine, Touches
      <4> QED BY <3>2, <4>1, <4>2
    <3>4. q = r
      BY <2>1, <3>3 DEF OthersStay
    <3>5. ~Receive(r)
      <4>1. SUFFICES ASSUME Receive(r) PROVE FALSE
        OBVIOUS
      <4>2. PICK step, j, d, T : Begun(r, step, j, d, T)
        BY <2>2, <4>1, ReceiveBegun
      <4> QED BY <2>1, <4>2 DEF Begun, Works
    <3> QED BY <3>2, <3>4, <3>5
  <2>4. At(r) /\ Knows(r)
    BY <2>1, <2>2 DEF Owned, Known
  <2>5. CASE cart' = cart
    BY <2>5
  <2>6. CASE SaveCart(r)
    <3>1. cart' = Stored(at[r], job[r].lines[at[r]]) /\ at[r] = job[r].line
      BY <2>1, <2>4, <2>6 DEF SaveCart, At, Placed
    <3> QED BY <2>1, <3>1, <2>2 DEF Stored, Inv
  <2>7. CASE ResaveLine(r)
    <3>1. cart' = Stored(at[r], job[r].lines[at[r]]) /\ pc[r] = "resave"
      BY <2>7 DEF ResaveLine
    <3>2. /\ cart[at[r]].state = "saved"
          /\ job[r].lines[at[r]].unit = cart[at[r]].unit
          /\ job[r].lines[at[r]].qty = cart[at[r]].qty
      BY <2>4, <3>1 DEF Knows
    <3> QED BY <2>2, <3>1, <3>2 DEF Stored, Inv
  <2>8. CASE DropCart(r)
    BY <2>1, <2>4, <2>8 DEF DropCart, At, Placed, StepOf
  <2> QED BY <2>3, <2>5, <2>6, <2>7, <2>8 DEF Step, Fail, CancelLoad, SaveMovement, SumLine,
                                               SaveOrder
<1>2. TotalsInv /\ [Next]_vars => [\A r \in Requests, c \in Carts : Kept(r, c)]_vars
  BY <1>1
<1>3. Spec => [][\A r \in Requests, c \in Carts : Kept(r, c)]_vars
  BY <1>2, AlwaysTotals, PTL DEF Spec
<1> QED BY <1>3 DEF OtherLinesKept
=============================================================================
