------------------------ MODULE TransferBoutique_proofs ------------------------
(* Theorems about TransferBoutique, for any number of products, lines and  *)
(* requests at a time, any of which may fail in a line or be killed.       *)
EXTENDS TransferBoutique, FiniteSetTheorems, TLAPS

CartNode == [state : {"unused", "saved", "deleted"}, pcnid : Commandes \cup {NoItem},
             qty : Int, transferred : BOOLEAN]

OrderNode == [saved : BOOLEAN, cancelled : BOOLEAN, carts : SUBSET Carts]

Steps == {"idle", "newcart", "pick", "find", "create", "in", "out", "droppc", "cart",
          "dropcart", "order"}

Job == [op : {"sale", "transfer"}, nid : Orders \cup {NoOrder}, order : OrderNode,
        ask : [Carts -> Nat], pcs : [Carts -> Commandes \cup {NoItem}],
        line : CartNode, product : Products \cup {NoItem}, dirty : BOOLEAN]

TypesOK ==
  /\ item \in [Items -> ItemNode]
  /\ cart \in [Carts -> CartNode]
  /\ order \in [Orders -> OrderNode]
  /\ pc \in [Requests -> Steps]
  /\ job \in [Requests -> Job]
  /\ at \in [Requests -> Carts \cup {NoCart}]
  /\ todo \in [Requests -> SUBSET Carts]
  /\ seen \in [Requests -> [Items -> Int \cup {Unread}]]
  /\ ordered \in [Carts -> Int] /\ received \in [Carts -> Int]
  /\ torn \subseteq Orders

Running(r) == pc[r] # "idle"

\* The steps at a line that has been picked.
AtLine == {"find", "create", "in", "out", "droppc", "cart", "dropcart"}

\* A running request is at a line, and knows its nodes, when its step needs them.
RequestOK(r) ==
  Running(r) =>
    /\ job[r].nid \in Orders
    /\ pc[r] # "order" => at[r] \in Carts
    /\ pc[r] \in AtLine => job[r].line.pcnid \in Commandes
    /\ pc[r] \in AtLine \ {"find", "create"} => job[r].product \in Products
    /\ pc[r] = "newcart" => \A c \in todo[r] \cup {at[r]} :
                              job[r].pcs[c] \in Commandes /\ job[r].ask[c] > 0

Typed ==
  /\ TypesOK
  /\ \A c \in Carts : cart[c].state = "saved" => cart[c].pcnid \in Commandes
  /\ \A r \in Requests : RequestOK(r)

\* The requests other than r stay where they are.
OthersStay(r) ==
  \A q \in Requests \ {r} :
    /\ pc'[q] = pc[q] /\ job'[q] = job[q] /\ at'[q] = at[q]
    /\ todo'[q] = todo[q] /\ seen'[q] = seen[q]

\* What the requests hold stays well formed.
ProcessesTyped ==
  /\ pc \in [Requests -> Steps]
  /\ job \in [Requests -> Job]
  /\ at \in [Requests -> Carts \cup {NoCart}]
  /\ todo \in [Requests -> SUBSET Carts]
  /\ seen \in [Requests -> [Items -> Int \cup {Unread}]]

-----------------------------------------------------------------------------
(* Types.                                                                  *)

LEMMA NoJobType ==
  NoJob \in Job /\ NoLine \in CartNode /\ Blank \in OrderNode
  /\ NothingRead \in [Items -> Int \cup {Unread}]
<1>1. NoLine \in CartNode /\ Blank \in OrderNode
  BY DEF NoLine, CartNode, Blank, OrderNode
<1>2. NoJob \in Job
  BY <1>1 DEF NoJob, Job
<1> QED BY <1>1, <1>2 DEF NothingRead

LEMMA EndEffect ==
  ASSUME TypesOK, NEW r \in Requests, End(r)
  PROVE  pc'[r] = "idle" /\ OthersStay(r) /\ ProcessesTyped'
<1>1. pc'[r] = "idle" /\ OthersStay(r)
  BY DEF End, TypesOK, OthersStay
<1>2. ProcessesTyped'
  BY NoJobType DEF End, TypesOK, ProcessesTyped, Steps
<1> QED BY <1>1, <1>2

\* What NextLine leaves of the request r.
Turned(r, node, dirty) ==
  \/ /\ pc'[r] = "pick" /\ at'[r] \in todo[r] /\ todo'[r] = todo[r] \ {at'[r]}
     /\ job'[r] = [job[r] EXCEPT !.order = node, !.dirty = dirty]
  \/ /\ pc'[r] = "order" /\ todo[r] = {} /\ dirty
     /\ at'[r] = at[r] /\ todo'[r] = todo[r]
     /\ job'[r] = [job[r] EXCEPT !.order = node, !.dirty = dirty]
  \/ pc'[r] = "idle" /\ todo[r] = {} /\ ~dirty

LEMMA NextLineEffect ==
  ASSUME TypesOK, NEW r \in Requests, NEW node \in OrderNode, NEW dirty \in BOOLEAN,
         NextLine(r, node, dirty)
  PROVE  Turned(r, node, dirty) /\ OthersStay(r) /\ ProcessesTyped'
<1>0. job[r] \in Job
  BY DEF TypesOK
<1>1. CASE todo[r] # {}
  <2>1. PICK c \in todo[r] : /\ at' = [at EXCEPT ![r] = c]
                             /\ todo' = [todo EXCEPT ![r] = @ \ {c}]
    BY <1>1 DEF NextLine
  <2>2. /\ pc' = [pc EXCEPT ![r] = "pick"] /\ UNCHANGED seen
        /\ job' = [job EXCEPT ![r].order = node, ![r].dirty = dirty]
    BY <1>1 DEF NextLine
  <2>3. job'[r] = [job[r] EXCEPT !.order = node, !.dirty = dirty]
    BY <2>2 DEF TypesOK
  <2>4. [job[r] EXCEPT !.order = node, !.dirty = dirty] \in Job
    BY <1>0 DEF Job
  <2>5. job' \in [Requests -> Job] /\ \A q \in Requests \ {r} : job'[q] = job[q]
    BY <2>2, <2>3, <2>4 DEF TypesOK
  <2> QED BY <2>1, <2>2, <2>3, <2>5 DEF TypesOK, Turned, OthersStay, ProcessesTyped, Steps
<1>2. CASE todo[r] = {} /\ dirty
  <2>2. /\ pc' = [pc EXCEPT ![r] = "order"] /\ UNCHANGED <<at, todo, seen>>
        /\ job' = [job EXCEPT ![r].order = node, ![r].dirty = dirty]
    BY <1>2 DEF NextLine
  <2>3. job'[r] = [job[r] EXCEPT !.order = node, !.dirty = dirty]
    BY <2>2 DEF TypesOK
  <2>4. [job[r] EXCEPT !.order = node, !.dirty = dirty] \in Job
    BY <1>0 DEF Job
  <2>5. job' \in [Requests -> Job] /\ \A q \in Requests \ {r} : job'[q] = job[q]
    BY <2>2, <2>3, <2>4 DEF TypesOK
  <2> QED BY <1>2, <2>2, <2>3, <2>5 DEF TypesOK, Turned, OthersStay, ProcessesTyped, Steps
<1>3. CASE todo[r] = {} /\ ~dirty
  <2>1. End(r)
    BY <1>3 DEF NextLine
  <2> QED BY <1>3, <2>1, EndEffect DEF Turned
<1> QED BY <1>1, <1>2, <1>3

\* What the start of a request changes.
Begun(r, op, o, node, ask, pcs, S, first) ==
  /\ pc[r] = "idle" /\ pc'[r] = first
  /\ job'[r] = [NoJob EXCEPT !.op = op, !.nid = o, !.order = node, !.ask = ask, !.pcs = pcs]
  /\ at'[r] \in S /\ todo'[r] = S \ {at'[r]}
  /\ UNCHANGED <<item, cart, order, ordered, received, torn>>

LEMMA BeginEffect ==
  ASSUME TypesOK, NEW r \in Requests, NEW op \in {"sale", "transfer"}, NEW o \in Orders,
         NEW node \in OrderNode, NEW ask \in [Carts -> Nat],
         NEW pcs \in [Carts -> Commandes \cup {NoItem}], NEW S \in SUBSET Carts,
         NEW first \in Steps, Begin(r, op, o, node, ask, pcs, S, first)
  PROVE  Begun(r, op, o, node, ask, pcs, S, first) /\ OthersStay(r) /\ ProcessesTyped'
<1>1. PICK c \in S : at' = [at EXCEPT ![r] = c] /\ todo' = [todo EXCEPT ![r] = S \ {c}]
  BY DEF Begin
<1> DEFINE j == [NoJob EXCEPT !.op = op, !.nid = o, !.order = node, !.ask = ask, !.pcs = pcs]
<1>2. /\ pc[r] = "idle" /\ pc' = [pc EXCEPT ![r] = first]
      /\ job' = [job EXCEPT ![r] = j]
      /\ UNCHANGED <<item, cart, order, seen, ordered, received, torn>>
  BY DEF Begin
<1>3. j \in Job
  BY NoJobType DEF Job
<1> HIDE DEF j
<1>4. ProcessesTyped' /\ OthersStay(r)
  BY <1>1, <1>2, <1>3 DEF TypesOK, ProcessesTyped, OthersStay
<1>5. pc'[r] = first /\ job'[r] = j /\ at'[r] = c /\ todo'[r] = S \ {c}
  BY <1>1, <1>2 DEF TypesOK
<1>6. Begun(r, op, o, node, ask, pcs, S, first)
  BY <1>1, <1>2, <1>5 DEF Begun, j
<1> QED BY <1>4, <1>6

LEMMA OthersOK ==
  ASSUME NEW r \in Requests, OthersStay(r), NEW q \in Requests \ {r}, RequestOK(q)
  PROVE  RequestOK(q)'
BY DEF OthersStay, RequestOK, Running

(* A sale on order starts with new lines, ...                              *)
LEMMA SaleBegins ==
  ASSUME Typed, NEW r \in Requests, NEW o \in Orders, Sale(r, o)
  PROVE  /\ Typed' /\ OthersStay(r)
         /\ \E S \in SUBSET Carts, node \in OrderNode, ask \in [Carts -> Nat],
               pcs \in [Carts -> Commandes \cup {NoItem}] :
              /\ Begun(r, "sale", o, node, ask, pcs, S, "newcart")
              /\ node.saved /\ ~node.cancelled /\ node.carts = S
              /\ ~order[o].saved /\ ~Busy(o)
              /\ \A c \in S : /\ cart[c].state = "unused" /\ ask[c] > 0
                              /\ \A q \in Requests : c \notin job[q].order.carts
<1>1. PICK S \in SUBSET Carts :
        \E pcs \in [S -> Commandes], quantity \in [S -> 1..MaxQuantity] :
          SaveOrderCommande(r, o, S, pcs, quantity)
  BY DEF Sale
<1>2. PICK pcs \in [S -> Commandes], quantity \in [S -> 1..MaxQuantity] :
        SaveOrderCommande(r, o, S, pcs, quantity)
  BY <1>1
<1> DEFINE node == [saved |-> TRUE, cancelled |-> FALSE, carts |-> S]
           ask == [c \in Carts |-> IF c \in S THEN quantity[c] ELSE 0]
           p == [c \in Carts |-> IF c \in S THEN pcs[c] ELSE NoItem]
<1>3. /\ Begin(r, "sale", o, node, ask, p, S, "newcart")
      /\ ~order[o].saved /\ ~Busy(o)
      /\ \A c \in S : /\ cart[c].state = "unused"
                      /\ \A q \in Requests : c \notin job[q].order.carts
  BY <1>2 DEF SaveOrderCommande
<1>4. \A c \in S : quantity[c] \in Nat /\ quantity[c] > 0
  BY TransferAssumption
<1>5. /\ node \in OrderNode /\ ask \in [Carts -> Nat]
      /\ p \in [Carts -> Commandes \cup {NoItem}]
      /\ \A c \in S : ask[c] > 0 /\ p[c] \in Commandes
      /\ node.saved /\ ~node.cancelled /\ node.carts = S
  BY <1>4 DEF OrderNode
<1> HIDE DEF node, ask, p
<1>6. /\ Begun(r, "sale", o, node, ask, p, S, "newcart")
      /\ OthersStay(r) /\ ProcessesTyped'
  BY <1>3, <1>5, BeginEffect DEF Typed, Steps
<1>7. TypesOK'
  BY <1>6 DEF Typed, TypesOK, ProcessesTyped, Begun
<1>8. RequestOK(r)'
  BY <1>5, <1>6, NoJobType DEF RequestOK, Begun, AtLine, Job
<1>9. Typed'
  BY <1>6, <1>7, <1>8, OthersOK DEF Typed, Begun
<1> QED BY <1>3, <1>5, <1>6, <1>9

(* ... and a transfer with lines of its order.                             *)
LEMMA TransferBegins ==
  ASSUME Typed, NEW r \in Requests, NEW o \in Orders, Transfer(r, o)
  PROVE  /\ Typed' /\ OthersStay(r)
         /\ \E S \in SUBSET order[o].carts, ask \in [Carts -> Nat],
               pcs \in [Carts -> Commandes \cup {NoItem}] :
              /\ Begun(r, "transfer", o, order[o], ask, pcs, S, "pick")
              /\ order[o].saved /\ (o \in SharedOrders \/ ~Busy(o))
<1>1. PICK S \in SUBSET order[o].carts : \E quantity \in [S -> 0..MaxQuantity] :
        TransferCartLines(r, o, S, quantity)
  BY DEF Transfer
<1>2. PICK quantity \in [S -> 0..MaxQuantity] : TransferCartLines(r, o, S, quantity)
  BY <1>1
<1> DEFINE ask == [c \in Carts |-> IF c \in S THEN quantity[c] ELSE 0]
<1>3. /\ Begin(r, "transfer", o, order[o], ask, NoJob.pcs, S, "pick")
      /\ order[o].saved /\ (o \in SharedOrders \/ ~Busy(o))
  BY <1>2 DEF TransferCartLines, Addressed
<1>4. /\ ask \in [Carts -> Nat] /\ order[o] \in OrderNode /\ S \in SUBSET Carts
      /\ NoJob.pcs \in [Carts -> Commandes \cup {NoItem}]
  BY TransferAssumption, NoJobType DEF Typed, TypesOK, OrderNode, Job
<1> HIDE DEF ask
<1>5. /\ Begun(r, "transfer", o, order[o], ask, NoJob.pcs, S, "pick")
      /\ OthersStay(r) /\ ProcessesTyped'
  BY <1>3, <1>4, BeginEffect DEF Typed, Steps
<1>6. TypesOK'
  BY <1>5 DEF Typed, TypesOK, ProcessesTyped, Begun
<1>7. RequestOK(r)'
  BY <1>4, <1>5, NoJobType DEF RequestOK, Begun, AtLine, Job
<1>8. Typed'
  BY <1>5, <1>6, <1>7, OthersOK DEF Typed, Begun
<1> QED BY <1>3, <1>4, <1>5, <1>8

(* What each step keeps in shape.                                          *)
LEMMA TypedFrom ==
  ASSUME Typed, NEW r \in Requests, OthersStay(r), TypesOK', RequestOK(r)',
         \A c \in Carts : cart'[c].state = "saved" => cart'[c].pcnid \in Commandes
  PROVE  Typed'
BY OthersOK DEF Typed

LEMMA TurnedOK ==
  ASSUME Typed, NEW r \in Requests, NEW node \in OrderNode, NEW dirty \in BOOLEAN,
         Running(r), Turned(r, node, dirty), ProcessesTyped'
  PROVE  RequestOK(r)'
<1>1. job[r] \in Job /\ job[r].nid \in Orders /\ todo[r] \subseteq Carts
  BY DEF Typed, TypesOK, RequestOK
<1>2. [job[r] EXCEPT !.order = node, !.dirty = dirty].nid = job[r].nid
  BY <1>1 DEF Job
<1>3. CASE pc'[r] = "pick" /\ at'[r] \in todo[r]
             /\ job'[r] = [job[r] EXCEPT !.order = node, !.dirty = dirty]
  BY <1>1, <1>2, <1>3 DEF RequestOK, Running, AtLine
<1>4. CASE pc'[r] = "order" /\ job'[r] = [job[r] EXCEPT !.order = node, !.dirty = dirty]
  BY <1>1, <1>2, <1>4 DEF RequestOK, Running, AtLine
<1>5. CASE pc'[r] = "idle"
  BY <1>5 DEF RequestOK, Running
<1> QED BY <1>3, <1>4, <1>5 DEF Turned

LEMMA SaveNewCartTyped ==
  ASSUME Typed, NEW r \in Requests, SaveNewCart(r)
  PROVE  Typed' /\ OthersStay(r)
<1> DEFINE c == at[r]
           line == [state |-> "saved", pcnid |-> job[r].pcs[c], qty |-> job[r].ask[c],
                    transferred |-> FALSE]
<1>1. /\ pc[r] = "newcart" /\ cart' = [cart EXCEPT ![c] = line]
      /\ ordered' = [ordered EXCEPT ![c] = job[r].ask[c]]
      /\ UNCHANGED <<item, order, job, seen, started, received, torn>>
  BY DEF SaveNewCart
<1>2. \/ pc' = [pc EXCEPT ![r] = "order"] /\ UNCHANGED <<at, todo>>
      \/ /\ UNCHANGED pc
         /\ \E d \in todo[r] : /\ at' = [at EXCEPT ![r] = d]
                               /\ todo' = [todo EXCEPT ![r] = @ \ {d}]
  BY DEF SaveNewCart
<1>3. /\ job[r] \in Job /\ c \in Carts /\ job[r].nid \in Orders
      /\ \A d \in todo[r] \cup {c} : job[r].pcs[d] \in Commandes /\ job[r].ask[d] > 0
      /\ todo[r] \subseteq Carts
  BY <1>1 DEF Typed, TypesOK, RequestOK, Running
<1>4. line \in CartNode /\ job[r].ask[c] \in Int /\ line.pcnid \in Commandes
  BY <1>3 DEF Job, CartNode
<1> HIDE DEF line
<1>5. /\ cart' \in [Carts -> CartNode] /\ ordered' \in [Carts -> Int]
      /\ \A d \in Carts : cart'[d].state = "saved" => cart'[d].pcnid \in Commandes
  BY <1>1, <1>3, <1>4 DEF Typed, TypesOK
<1>6. /\ pc' \in [Requests -> Steps] /\ at' \in [Requests -> Carts \cup {NoCart}]
      /\ todo' \in [Requests -> SUBSET Carts]
      /\ \A q \in Requests \ {r} : pc'[q] = pc[q] /\ at'[q] = at[q] /\ todo'[q] = todo[q]
  BY <1>2, <1>3 DEF Typed, TypesOK, Steps
<1>7. OthersStay(r)
  BY <1>1, <1>6 DEF OthersStay
<1>8. TypesOK'
  BY <1>1, <1>5, <1>6 DEF Typed, TypesOK
<1>9. RequestOK(r)'
  <2>1. CASE pc' = [pc EXCEPT ![r] = "order"]
    BY <1>1, <1>3, <2>1 DEF RequestOK, Running, AtLine, Typed, TypesOK
  <2>2. CASE UNCHANGED pc
    <3>1. PICK d \in todo[r] : /\ at' = [at EXCEPT ![r] = d]
                               /\ todo' = [todo EXCEPT ![r] = @ \ {d}]
      BY <1>1, <1>2, <2>2 DEF Typed, TypesOK
    <3>2. at'[r] = d /\ todo'[r] = todo[r] \ {d}
      BY <3>1 DEF Typed, TypesOK
    <3> QED BY <1>1, <1>3, <2>2, <3>2 DEF RequestOK, Running, AtLine
  <2> QED BY <1>2, <2>1, <2>2
<1> QED BY <1>5, <1>7, <1>8, <1>9, TypedFrom

LEMMA LoadedType ==
  ASSUME TypesOK, NEW r \in Requests, NEW x \in Items
  PROVE  Loaded(r, x) \in Int
<1>1. item[x].qty \in Int /\ seen[r][x] \in Int \cup {Unread}
  BY DEF TypesOK, ItemNode
<1> QED BY <1>1 DEF Loaded

\* The line r is at is one that can be transferred.
Picked(r) ==
  /\ cart[at[r]].state = "saved" /\ ~cart[at[r]].transferred
  /\ job'[r] = [job[r] EXCEPT !.line = cart[at[r]],
                              !.ask[at[r]] = Asked(r, at[r], cart[at[r]])]
  /\ Asked(r, at[r], cart[at[r]]) > 0
  /\ Asked(r, at[r], cart[at[r]]) <= cart[at[r]].qty
  /\ pc'[r] = "find" /\ at'[r] = at[r] /\ todo'[r] = todo[r]

LEMMA PickLineTyped ==
  ASSUME Typed, NEW r \in Requests, PickLine(r)
  PROVE  /\ Typed' /\ OthersStay(r)
         /\ Picked(r) \/ Turned(r, job[r].order, job[r].dirty)
<1> DEFINE c == at[r]
           n == Asked(r, c, cart[c])
           x == cart[c].pcnid
<1>1. pc[r] = "pick" /\ UNCHANGED <<item, cart, order, started, ordered, received, torn>>
  BY DEF PickLine
<1>2. job[r] \in Job /\ c \in Carts /\ cart[c] \in CartNode /\ job[r].nid \in Orders
  BY <1>1 DEF Typed, TypesOK, RequestOK, Running
<1>3. CASE NextLine(r, job[r].order, job[r].dirty)
  <2>1. job[r].order \in OrderNode /\ job[r].dirty \in BOOLEAN
    BY <1>2 DEF Job
  <2>2. Turned(r, job[r].order, job[r].dirty) /\ OthersStay(r) /\ ProcessesTyped'
    BY <1>3, <2>1, NextLineEffect DEF Typed
  <2>3. TypesOK'
    BY <1>1, <2>2 DEF Typed, TypesOK, ProcessesTyped
  <2>4. RequestOK(r)'
    BY <1>1, <2>1, <2>2, TurnedOK DEF Running
  <2>5. \A d \in Carts : cart'[d].state = "saved" => cart'[d].pcnid \in Commandes
    BY <1>1 DEF Typed
  <2> QED BY <2>2, <2>3, <2>4, <2>5, TypedFrom
<1>4. CASE ~NextLine(r, job[r].order, job[r].dirty)
  <2>1. /\ cart[c].state = "saved" /\ ~cart[c].transferred
        /\ n > 0 /\ n <= cart[c].qty
        /\ pc' = [pc EXCEPT ![r] = "find"] /\ UNCHANGED <<at, todo>>
        /\ job' = [job EXCEPT ![r].line = cart[c], ![r].ask[c] = n]
        /\ seen' = [seen EXCEPT ![r][x] = Loaded(r, x)]
    BY <1>4 DEF PickLine, Transferable
  <2>2. n \in Nat
    BY <1>2, <2>1 DEF Asked, Job, CartNode
  <2>3. x \in Commandes
    BY <1>2, <2>1 DEF Typed
  <2>4. job'[r] = [job[r] EXCEPT !.line = cart[c], !.ask[c] = n]
    BY <2>1 DEF Typed, TypesOK
  <2> HIDE DEF n
  <2>5. [job[r] EXCEPT !.line = cart[c], !.ask[c] = n] \in Job
    BY <1>2, <2>2 DEF Job
  <2>6. job' \in [Requests -> Job] /\ \A q \in Requests \ {r} : job'[q] = job[q]
    BY <2>1, <2>4, <2>5 DEF Typed, TypesOK
  <2>7. Loaded(r, x) \in Int
    BY <2>3, LoadedType DEF Typed, Items
  <2>8. seen' \in [Requests -> [Items -> Int \cup {Unread}]]
        /\ \A q \in Requests \ {r} : seen'[q] = seen[q]
    BY <2>1, <2>7 DEF Typed, TypesOK
  <2>9. TypesOK' /\ OthersStay(r)
    BY <1>1, <2>1, <2>6, <2>8 DEF Typed, TypesOK, OthersStay, Steps
  <2>10. pc'[r] = "find"
    BY <2>1 DEF Typed, TypesOK
  <2>11. job'[r].nid = job[r].nid /\ job'[r].line = cart[c]
    BY <1>2, <2>4 DEF Job
  <2>12. RequestOK(r)'
    BY <1>2, <2>1, <2>3, <2>10, <2>11 DEF RequestOK, AtLine
  <2>13. \A d \in Carts : cart'[d].state = "saved" => cart'[d].pcnid \in Commandes
    BY <1>1 DEF Typed
  <2>14. Picked(r)
    BY <2>1, <2>4, <2>10 DEF Picked, n
  <2> QED BY <2>9, <2>12, <2>13, <2>14, TypedFrom
<1> QED BY <1>3, <1>4

\* The request r goes from one step of its line to another.
Moved(r, step) ==
  /\ pc'[r] = step /\ at'[r] = at[r] /\ todo'[r] = todo[r]
  /\ \E p \in Products \cup {NoItem} : job'[r] = [job[r] EXCEPT !.product = p]

LEMMA MovedTyped ==
  ASSUME Typed, NEW r \in Requests, NEW step \in AtLine, pc[r] \in AtLine,
         NEW p \in Products \cup {NoItem}, job' = [job EXCEPT ![r].product = p],
         p \in Products \/ step \in {"find", "create"},
         pc' = [pc EXCEPT ![r] = step], NEW seenOfR \in [Items -> Int \cup {Unread}],
         seen' = [seen EXCEPT ![r] = seenOfR],
         item' \in [Items -> ItemNode], received' \in [Carts -> Int],
         UNCHANGED <<cart, order, at, todo, ordered, torn>>
  PROVE  Typed' /\ OthersStay(r) /\ Moved(r, step)
<1>1. /\ job[r] \in Job /\ at[r] \in Carts /\ job[r].nid \in Orders
      /\ job[r].line.pcnid \in Commandes
  BY DEF Typed, TypesOK, RequestOK, Running, AtLine
<1>2. job'[r] = [job[r] EXCEPT !.product = p]
  BY DEF Typed, TypesOK
<1>3. [job[r] EXCEPT !.product = p] \in Job
  BY <1>1 DEF Job
<1>4. job' \in [Requests -> Job] /\ \A q \in Requests \ {r} : job'[q] = job[q]
  BY <1>2, <1>3 DEF Typed, TypesOK
<1>5. step \in Steps
  BY DEF Steps, AtLine
<1>6. TypesOK' /\ OthersStay(r)
  BY <1>4, <1>5 DEF Typed, TypesOK, OthersStay
<1>7. pc'[r] = step
  BY DEF Typed, TypesOK
<1>8. /\ job'[r].nid = job[r].nid /\ job'[r].line = job[r].line
      /\ job'[r].product = p
  BY <1>1, <1>2 DEF Job
<1>9. RequestOK(r)'
  BY <1>1, <1>7, <1>8 DEF RequestOK, AtLine
<1>10. \A d \in Carts : cart'[d].state = "saved" => cart'[d].pcnid \in Commandes
  BY DEF Typed
<1>11. Moved(r, step)
  BY <1>2, <1>7 DEF Moved
<1> QED BY <1>6, <1>9, <1>10, <1>11, TypedFrom

LEMMA SameProduct ==
  ASSUME TypesOK, NEW r \in Requests
  PROVE  /\ job = [job EXCEPT ![r].product = job[r].product]
         /\ seen = [seen EXCEPT ![r] = seen[r]]
<1>1. [job[r] EXCEPT !.product = job[r].product] = job[r] /\ job[r] \in Job
  BY DEF TypesOK, Job
<1> QED BY <1>1 DEF TypesOK

LEMMA StockType ==
  ASSUME TypesOK, NEW x \in Items, NEW v \in Int
  PROVE  [item EXCEPT ![x].qty = v] \in [Items -> ItemNode]
<1>1. item[x] \in ItemNode
  BY DEF TypesOK
<1>2. [item[x] EXCEPT !.qty = v] \in ItemNode
  BY <1>1 DEF ItemNode
<1> QED BY <1>2 DEF TypesOK

LEMMA SeenType ==
  ASSUME TypesOK, NEW r \in Requests, NEW x \in Items, NEW v \in Int \cup {Unread}
  PROVE  /\ [seen[r] EXCEPT ![x] = v] \in [Items -> Int \cup {Unread}]
         /\ [seen EXCEPT ![r][x] = v] = [seen EXCEPT ![r] = [seen[r] EXCEPT ![x] = v]]
BY DEF TypesOK

LEMMA FindProductTyped ==
  ASSUME Typed, NEW r \in Requests, FindProduct(r)
  PROVE  Typed' /\ OthersStay(r) /\ (Moved(r, "in") \/ Moved(r, "create"))
<1> DEFINE sku == Trimmed[item[job[r].line.pcnid].sku]
<1>1. /\ pc[r] = "find" /\ pc[r] \in AtLine
      /\ UNCHANGED <<item, cart, order, at, todo, started, ordered, received, torn>>
  BY DEF FindProduct, AtLine
<1>2. CASE sku # NoSku /\ WithSku(sku) # {}
  <2>1. PICK p \in WithSku(sku) :
          /\ job' = [job EXCEPT ![r].product = p]
          /\ seen' = [seen EXCEPT ![r][p] = Loaded(r, p)]
          /\ pc' = [pc EXCEPT ![r] = "in"]
    BY <1>2 DEF FindProduct
  <2>2. p \in Products /\ p \in Items
    BY DEF WithSku, Items
  <2>3. Loaded(r, p) \in Int \cup {Unread}
    BY <2>2, LoadedType DEF Typed
  <2>4. /\ seen' = [seen EXCEPT ![r] = [seen[r] EXCEPT ![p] = Loaded(r, p)]]
        /\ [seen[r] EXCEPT ![p] = Loaded(r, p)] \in [Items -> Int \cup {Unread}]
    BY <2>1, <2>2, <2>3, SeenType DEF Typed
  <2>5. item' \in [Items -> ItemNode] /\ received' \in [Carts -> Int] /\ "in" \in AtLine
    BY <1>1 DEF Typed, TypesOK, AtLine
  <2> QED BY <1>1, <2>1, <2>2, <2>4, <2>5, MovedTyped
<1>3. CASE ~(sku # NoSku /\ WithSku(sku) # {})
  <2>1. pc' = [pc EXCEPT ![r] = "create"] /\ UNCHANGED <<job, seen>>
    BY <1>3 DEF FindProduct
  <2>2. /\ job' = [job EXCEPT ![r].product = job[r].product]
        /\ seen' = [seen EXCEPT ![r] = seen[r]]
        /\ job[r].product \in Products \cup {NoItem}
        /\ seen[r] \in [Items -> Int \cup {Unread}]
    BY <2>1, SameProduct DEF Typed, TypesOK, Job
  <2>3. item' \in [Items -> ItemNode] /\ received' \in [Carts -> Int] /\ "create" \in AtLine
    BY <1>1 DEF Typed, TypesOK, AtLine
  <2> QED BY <1>1, <2>1, <2>2, <2>3, MovedTyped
<1> QED BY <1>2, <1>3

LEMMA CreateProductTyped ==
  ASSUME Typed, NEW r \in Requests, CreateProduct(r)
  PROVE  Typed' /\ OthersStay(r) /\ Moved(r, "in")
<1>1. /\ pc[r] = "create" /\ pc[r] \in AtLine /\ pc' = [pc EXCEPT ![r] = "in"]
      /\ UNCHANGED <<cart, order, at, todo, seen, started, ordered, received, torn>>
  BY DEF CreateProduct, AtLine
<1>2. PICK p \in Products :
        /\ item' = [item EXCEPT ![p] = [state |-> "saved", qty |-> 0,
                                        sku |-> item[job[r].line.pcnid].sku]]
        /\ job' = [job EXCEPT ![r].product = p]
  BY DEF CreateProduct
<1>3. job[r].line.pcnid \in Items
  BY <1>1 DEF Typed, RequestOK, Running, Items
<1>4. item[job[r].line.pcnid] \in ItemNode
  BY <1>3 DEF Typed, TypesOK
<1>5. [state |-> "saved", qty |-> 0, sku |-> item[job[r].line.pcnid].sku] \in ItemNode
  BY <1>4 DEF ItemNode
<1>6. item' \in [Items -> ItemNode]
  BY <1>2, <1>5 DEF Typed, TypesOK
<1>7. /\ seen' = [seen EXCEPT ![r] = seen[r]] /\ seen[r] \in [Items -> Int \cup {Unread}]
      /\ received' \in [Carts -> Int] /\ "in" \in AtLine
  BY <1>1, SameProduct DEF Typed, TypesOK, AtLine
<1> QED BY <1>1, <1>2, <1>6, <1>7, MovedTyped

LEMMA NodesAtHand ==
  ASSUME Typed, NEW r \in Requests, pc[r] \in AtLine \ {"find", "create"}
  PROVE  /\ job[r].line.pcnid \in Items /\ job[r].product \in Items
         /\ job[r].product \in Products /\ at[r] \in Carts
         /\ job[r].ask[at[r]] \in Nat
         /\ Loaded(r, job[r].line.pcnid) \in Int /\ Loaded(r, job[r].product) \in Int
<1>1. /\ job[r].line.pcnid \in Items /\ job[r].product \in Items
      /\ job[r].product \in Products /\ at[r] \in Carts /\ job[r] \in Job
  BY DEF Typed, TypesOK, RequestOK, Running, Items, AtLine
<1>2. job[r].ask[at[r]] \in Nat
  BY <1>1 DEF Job
<1> QED BY <1>1, <1>2, LoadedType DEF Typed

LEMMA StockInTyped ==
  ASSUME Typed, NEW r \in Requests, StockIn(r)
  PROVE  /\ Typed' /\ OthersStay(r) /\ (Moved(r, "out") \/ Moved(r, "cart"))
         /\ pc[r] = "in" /\ UNCHANGED <<cart, order, ordered, torn>>
         /\ received' = [received EXCEPT ![at[r]] = @ + job[r].ask[at[r]]]
<1> DEFINE p == job[r].product
           n == job[r].ask[at[r]]
           v == Loaded(r, p) + n
           step == IF Loaded(r, job[r].line.pcnid) > 0 THEN "out" ELSE "cart"
<1>1. /\ pc[r] = "in" /\ item' = [item EXCEPT ![p].qty = v]
      /\ received' = [received EXCEPT ![at[r]] = @ + n]
      /\ seen' = [seen EXCEPT ![r][p] = Unread]
      /\ pc' = [pc EXCEPT ![r] = step]
      /\ UNCHANGED <<cart, order, job, at, todo, started, ordered, torn>>
  BY DEF StockIn
<1>2. /\ p \in Items /\ p \in Products /\ at[r] \in Carts /\ n \in Nat /\ v \in Int
      /\ pc[r] \in AtLine /\ step \in AtLine /\ step \in {"out", "cart"}
  BY <1>1, NodesAtHand DEF AtLine
<1> HIDE DEF v, step
<1>3. item' \in [Items -> ItemNode]
  BY <1>1, <1>2, StockType DEF Typed
<1>4. received' \in [Carts -> Int]
  BY <1>1, <1>2 DEF Typed, TypesOK
<1>5. /\ seen' = [seen EXCEPT ![r] = [seen[r] EXCEPT ![p] = Unread]]
      /\ [seen[r] EXCEPT ![p] = Unread] \in [Items -> Int \cup {Unread}]
  BY <1>1, <1>2, SeenType DEF Typed
<1>6. job' = [job EXCEPT ![r].product = p]
  BY <1>1, SameProduct DEF Typed
<1>7. Typed' /\ OthersStay(r) /\ Moved(r, step)
  BY <1>1, <1>2, <1>3, <1>4, <1>5, <1>6, MovedTyped
<1> QED BY <1>1, <1>2, <1>7

LEMMA StockOutTyped ==
  ASSUME Typed, NEW r \in Requests, StockOut(r)
  PROVE  Typed' /\ OthersStay(r) /\ Moved(r, "droppc")
<1> DEFINE x == job[r].line.pcnid
           available == Loaded(r, x)
           v == available - OutQuantity(job[r].ask[at[r]], available)
<1>1. /\ pc[r] = "out"
      /\ item' = IF item[x].state = "deleted" THEN item ELSE [item EXCEPT ![x].qty = v]
      /\ seen' = [seen EXCEPT ![r][x] = Unread]
      /\ pc' = [pc EXCEPT ![r] = "droppc"]
      /\ UNCHANGED <<cart, order, job, at, todo, started, ordered, received, torn>>
  BY DEF StockOut
<1>2. /\ x \in Items /\ job[r].product \in Products /\ v \in Int
      /\ pc[r] \in AtLine /\ "droppc" \in AtLine
  BY <1>1, NodesAtHand DEF AtLine, OutQuantity
<1> HIDE DEF v, available
<1>3. item' \in [Items -> ItemNode]
  BY <1>1, <1>2, StockType DEF Typed, TypesOK
<1>4. /\ seen' = [seen EXCEPT ![r] = [seen[r] EXCEPT ![x] = Unread]]
      /\ [seen[r] EXCEPT ![x] = Unread] \in [Items -> Int \cup {Unread}]
      /\ received' \in [Carts -> Int]
  BY <1>1, <1>2, SeenType DEF Typed, TypesOK
<1>5. job' = [job EXCEPT ![r].product = job[r].product]
  BY <1>1, SameProduct DEF Typed
<1> QED BY <1>1, <1>2, <1>3, <1>4, <1>5, MovedTyped

LEMMA DropCommandeTyped ==
  ASSUME Typed, NEW r \in Requests, DropCommande(r)
  PROVE  Typed' /\ OthersStay(r) /\ Moved(r, "cart")
<1> DEFINE x == job[r].line.pcnid
           v == IF item[x].state = "saved" THEN item[x].qty ELSE Unread
<1>1. /\ pc[r] = "droppc"
      /\ \/ item' = [item EXCEPT ![x].state = "deleted"] /\ UNCHANGED seen
         \/ seen' = [seen EXCEPT ![r][x] = v] /\ UNCHANGED item
      /\ pc' = [pc EXCEPT ![r] = "cart"]
      /\ UNCHANGED <<cart, order, job, at, todo, started, ordered, received, torn>>
  BY DEF DropCommande
<1>2. /\ x \in Items /\ job[r].product \in Products
      /\ pc[r] \in AtLine /\ "cart" \in AtLine
  BY <1>1, NodesAtHand DEF AtLine
<1>3. item[x] \in ItemNode /\ v \in Int \cup {Unread}
  BY <1>2 DEF Typed, TypesOK, ItemNode
<1> HIDE DEF v
<1>4. item' \in [Items -> ItemNode]
  <2>1. [item[x] EXCEPT !.state = "deleted"] \in ItemNode
    BY <1>3 DEF ItemNode
  <2> QED BY <1>1, <1>2, <2>1 DEF Typed, TypesOK
<1>5. job' = [job EXCEPT ![r].product = job[r].product] /\ received' \in [Carts -> Int]
  BY <1>1, SameProduct DEF Typed, TypesOK
<1>6. PICK s \in [Items -> Int \cup {Unread}] : seen' = [seen EXCEPT ![r] = s]
  <2>1. CASE UNCHANGED seen
    BY <2>1, SameProduct DEF Typed, TypesOK
  <2>2. CASE seen' = [seen EXCEPT ![r][x] = v]
    BY <1>2, <1>3, <2>2, SeenType DEF Typed
  <2> QED BY <1>1, <2>1, <2>2
<1> QED BY <1>1, <1>2, <1>4, <1>5, <1>6, MovedTyped

\* The line r is at is saved as line, and stays deleted if it was.
Put(r, line) ==
  /\ cart' \in [Carts -> CartNode]
  /\ \A d \in Carts : cart'[d] = IF d = at[r] /\ cart[d].state # "deleted"
                                 THEN line ELSE cart[d]

LEMMA StoredEffect ==
  ASSUME TypesOK, NEW r \in Requests, at[r] \in Carts, NEW line \in CartNode,
         cart' = Stored(at[r], line)
  PROVE  Put(r, line)
BY DEF Stored, TypesOK, Put

LEMMA TurnedTyped ==
  ASSUME Typed, NEW r \in Requests, Running(r), NEW dirty \in BOOLEAN,
         NextLine(r, job[r].order, dirty), UNCHANGED <<item, order, ordered, received>>,
         cart' \in [Carts -> CartNode], torn' \subseteq Orders,
         \A d \in Carts : cart'[d].state = "saved" => cart'[d].pcnid \in Commandes
  PROVE  Typed' /\ OthersStay(r) /\ Turned(r, job[r].order, dirty)
<1>1. job[r].order \in OrderNode
  BY DEF Typed, TypesOK, Job
<1>2. Turned(r, job[r].order, dirty) /\ OthersStay(r) /\ ProcessesTyped'
  BY <1>1, NextLineEffect DEF Typed
<1>3. TypesOK'
  BY <1>2 DEF Typed, TypesOK, ProcessesTyped
<1>4. RequestOK(r)'
  BY <1>1, <1>2, TurnedOK
<1> QED BY <1>2, <1>3, <1>4, TypedFrom

LEMMA SaveLineTyped ==
  ASSUME Typed, NEW r \in Requests, SaveLine(r)
  PROVE  /\ Typed' /\ OthersStay(r)
         /\ \/ /\ Put(r, [job[r].line EXCEPT !.transferred = TRUE])
               /\ job[r].line.qty - job[r].ask[at[r]] <= 0
               /\ job'[r] = [job[r] EXCEPT !.order = RemoveCart(@, at[r])]
               /\ pc'[r] = "dropcart" /\ at'[r] = at[r] /\ todo'[r] = todo[r]
            \/ /\ Put(r, [job[r].line EXCEPT !.qty = job[r].line.qty - job[r].ask[at[r]]])
               /\ job[r].line.qty - job[r].ask[at[r]] > 0
               /\ Turned(r, job[r].order, TRUE)
<1> DEFINE c == at[r]
           line == job[r].line
           remaining == line.qty - job[r].ask[c]
<1>1. pc[r] = "cart" /\ UNCHANGED <<item, order, started, ordered, received, torn>>
  BY DEF SaveLine
<1>2. /\ job[r] \in Job /\ c \in Carts /\ job[r].nid \in Orders /\ line \in CartNode
      /\ line.pcnid \in Commandes /\ job[r].product \in Products
      /\ \A d \in Carts : cart[d].state = "saved" => cart[d].pcnid \in Commandes
      /\ TypesOK
  BY <1>1 DEF Typed, TypesOK, RequestOK, Running, AtLine, Job
<1>3. remaining \in Int
  BY <1>2 DEF Job, CartNode
<1>4. CASE remaining <= 0
  <2> DEFINE new == [line EXCEPT !.transferred = TRUE]
             node == RemoveCart(job[r].order, c)
  <2>1. /\ cart' = Stored(c, new)
        /\ job' = [job EXCEPT ![r].order = RemoveCart(@, c)]
        /\ pc' = [pc EXCEPT ![r] = "dropcart"]
        /\ UNCHANGED <<at, todo, seen>>
    BY <1>4 DEF SaveLine
  <2>2. new \in CartNode /\ new.pcnid = line.pcnid
    BY <1>2 DEF CartNode
  <2>3. node \in OrderNode
    BY <1>2 DEF Job, OrderNode, RemoveCart
  <2> HIDE DEF new, node
  <2>4. Put(r, new)
    BY <1>2, <2>1, <2>2, StoredEffect
  <2>5. /\ cart' \in [Carts -> CartNode]
        /\ \A d \in Carts : cart'[d].state = "saved" => cart'[d].pcnid \in Commandes
    BY <1>2, <2>2, <2>4 DEF Put
  <2>6. job'[r] = [job[r] EXCEPT !.order = node]
    BY <2>1 DEF Typed, TypesOK, node
  <2>7. [job[r] EXCEPT !.order = node] \in Job
    BY <1>2, <2>3 DEF Job
  <2>8. job' \in [Requests -> Job] /\ \A q \in Requests \ {r} : job'[q] = job[q]
    BY <2>1, <2>6, <2>7 DEF Typed, TypesOK
  <2>9. TypesOK' /\ OthersStay(r) /\ pc'[r] = "dropcart"
    BY <1>1, <2>1, <2>5, <2>8 DEF Typed, TypesOK, OthersStay, Steps
  <2>10. /\ job'[r].nid = job[r].nid /\ job'[r].line = line
         /\ job'[r].product = job[r].product
    BY <1>2, <2>6 DEF Job
  <2>11. RequestOK(r)'
    BY <1>2, <2>1, <2>9, <2>10 DEF RequestOK, AtLine
  <2>12. Typed'
    BY <2>5, <2>9, <2>11, TypedFrom
  <2> QED BY <1>4, <2>1, <2>4, <2>6, <2>9, <2>12 DEF new, node
<1>5. CASE remaining > 0
  <2> DEFINE new == [line EXCEPT !.qty = remaining]
  <2>0. ~(remaining <= 0)
    BY <1>3, <1>5
  <2>1. cart' = Stored(c, new) /\ NextLine(r, job[r].order, TRUE)
    BY <2>0, Zenon DEF SaveLine
  <2>2. new \in CartNode /\ new.pcnid = line.pcnid
    BY <1>2, <1>3 DEF CartNode
  <2> HIDE DEF new
  <2>4. Put(r, new)
    BY <1>2, <2>1, <2>2, StoredEffect
  <2>5. /\ cart' \in [Carts -> CartNode]
        /\ \A d \in Carts : cart'[d].state = "saved" => cart'[d].pcnid \in Commandes
    BY <1>2, <2>2, <2>4 DEF Put
  <2>6. torn' \subseteq Orders /\ Running(r) /\ UNCHANGED <<item, order, ordered, received>>
    BY <1>1, <1>2 DEF TypesOK, Running
  <2>7. Typed' /\ OthersStay(r) /\ Turned(r, job[r].order, TRUE)
    BY <2>1, <2>5, <2>6, TurnedTyped
  <2>8. Put(r, [job[r].line EXCEPT !.qty = job[r].line.qty - job[r].ask[at[r]]])
    BY <2>4, Zenon DEF new
  <2> QED BY <1>5, <2>7, <2>8, Zenon
<1>6. remaining <= 0 \/ remaining > 0
  BY <1>3
<1> QED BY <1>4, <1>5, <1>6, Zenon

LEMMA DropLineTyped ==
  ASSUME Typed, NEW r \in Requests, DropLine(r)
  PROVE  Typed' /\ OthersStay(r) /\ Turned(r, job[r].order, TRUE)
<1>1. /\ pc[r] = "dropcart" /\ cart' = [cart EXCEPT ![at[r]].state = "deleted"]
      /\ NextLine(r, job[r].order, TRUE)
      /\ UNCHANGED <<item, order, started, ordered, received, torn>>
  BY DEF DropLine
<1>2. at[r] \in Carts /\ cart[at[r]] \in CartNode /\ Running(r) /\ torn' \subseteq Orders
  BY <1>1 DEF Typed, TypesOK, RequestOK, Running
<1>3. [cart[at[r]] EXCEPT !.state = "deleted"] \in CartNode
      /\ [cart[at[r]] EXCEPT !.state = "deleted"].state = "deleted"
  BY <1>2 DEF CartNode
<1>4. /\ cart' \in [Carts -> CartNode] /\ cart'[at[r]].state = "deleted"
      /\ \A d \in Carts \ {at[r]} : cart'[d] = cart[d]
  BY <1>1, <1>2, <1>3 DEF Typed, TypesOK
<1>5. \A d \in Carts : cart'[d].state = "saved" => cart'[d].pcnid \in Commandes
  BY <1>4 DEF Typed
<1> QED BY <1>1, <1>2, <1>4, <1>5, TurnedTyped

LEMMA EndTyped ==
  ASSUME Typed, NEW r \in Requests, End(r), order' \in [Orders -> OrderNode],
         torn' \subseteq Orders, UNCHANGED <<item, cart, ordered, received>>
  PROVE  Typed' /\ OthersStay(r) /\ pc'[r] = "idle"
<1>1. pc'[r] = "idle" /\ OthersStay(r) /\ ProcessesTyped'
  BY EndEffect DEF Typed
<1>2. TypesOK'
  BY <1>1 DEF Typed, TypesOK, ProcessesTyped
<1>3. RequestOK(r)'
  BY <1>1 DEF RequestOK, Running
<1>4. \A d \in Carts : cart'[d].state = "saved" => cart'[d].pcnid \in Commandes
  BY DEF Typed
<1> QED BY <1>1, <1>2, <1>3, <1>4, TypedFrom

LEMMA SaveOrderTyped ==
  ASSUME Typed, NEW r \in Requests, SaveOrder(r)
  PROVE  Typed' /\ OthersStay(r) /\ pc'[r] = "idle"
<1>1. /\ order' = [order EXCEPT ![job[r].nid] = job[r].order]
      /\ End(r) /\ UNCHANGED <<item, cart, started, ordered, received, torn>>
  BY DEF SaveOrder
<1>2. job[r].order \in OrderNode /\ torn \subseteq Orders
  BY DEF Typed, TypesOK, Job
<1>3. order' \in [Orders -> OrderNode]
  BY <1>1, <1>2 DEF Typed, TypesOK
<1> QED BY <1>1, <1>2, <1>3, EndTyped

LEMMA LineErrorTyped ==
  ASSUME Typed, NEW r \in Requests, LineError(r)
  PROVE  /\ Typed' /\ OthersStay(r) /\ Turned(r, job[r].order, job[r].dirty)
         /\ pc[r] \in AtLine /\ torn' = torn \cup {job[r].nid}
         /\ UNCHANGED <<item, cart, order, ordered, received>>
<1>1. /\ pc[r] \in AtLine /\ NextLine(r, job[r].order, job[r].dirty)
      /\ torn' = torn \cup {job[r].nid}
      /\ UNCHANGED <<item, cart, order, started, ordered, received>>
  BY DEF LineError, AtLine
<1>2. job[r].dirty \in BOOLEAN /\ Running(r) /\ job[r].nid \in Orders
  BY <1>1 DEF Typed, TypesOK, RequestOK, Running, Job, AtLine
<1>3. /\ cart' \in [Carts -> CartNode] /\ torn' \subseteq Orders
      /\ \A d \in Carts : cart'[d].state = "saved" => cart'[d].pcnid \in Commandes
  BY <1>1, <1>2 DEF Typed, TypesOK
<1> QED BY <1>1, <1>2, <1>3, TurnedTyped

LEMMA CrashTyped ==
  ASSUME Typed, NEW r \in Requests, Crash(r)
  PROVE  /\ Typed' /\ OthersStay(r) /\ pc'[r] = "idle" /\ pc[r] # "idle"
         /\ torn' = torn \cup {job[r].nid}
         /\ UNCHANGED <<item, cart, order, ordered, received>>
<1>1. /\ pc[r] # "idle" /\ End(r) /\ torn' = torn \cup {job[r].nid}
      /\ UNCHANGED <<item, cart, order, started, ordered, received>>
  BY DEF Crash
<1>2. job[r].nid \in Orders
  BY <1>1 DEF Typed, RequestOK, Running
<1>3. order' \in [Orders -> OrderNode] /\ torn' \subseteq Orders
  BY <1>1, <1>2 DEF Typed, TypesOK
<1> QED BY <1>1, <1>3, EndTyped

LEMMA CancelTyped ==
  ASSUME Typed, NEW o \in Orders, CancelCommande(o)
  PROVE  /\ Typed' /\ order' = [order EXCEPT ![o].cancelled = TRUE] /\ order[o].saved
         /\ UNCHANGED <<item, cart, pc, job, at, todo, seen, started, ordered,
                        received, torn>>
<1>1. /\ order' = [order EXCEPT ![o].cancelled = TRUE] /\ order[o].saved
      /\ UNCHANGED <<item, cart, pc, job, at, todo, seen, started, ordered,
                     received, torn>>
  BY DEF CancelCommande, Addressed
<1>2. order[o] \in OrderNode
  BY DEF Typed, TypesOK
<1>3. [order[o] EXCEPT !.cancelled = TRUE] \in OrderNode
  BY <1>2 DEF OrderNode
<1>4. TypesOK'
  BY <1>1, <1>3 DEF Typed, TypesOK
<1>5. \A r \in Requests : RequestOK(r)'
  BY <1>1 DEF Typed, RequestOK, Running
<1> QED BY <1>1, <1>4, <1>5 DEF Typed

LEMMA TypedAtFirst ==
  ASSUME Init
  PROVE  Typed
<1>1. TypesOK
  BY TransferAssumption, NoJobType DEF Init, TypesOK, Steps
<1>2. \A c \in Carts : cart[c].state = "unused"
  BY DEF Init, NoLine
<1> QED BY <1>1, <1>2 DEF Init, Typed, RequestOK, Running

LEMMA TypedKept ==
  ASSUME Typed, [Next]_vars
  PROVE  Typed'
<1>1. ASSUME NEW r \in Requests, NEW o \in Orders, Sale(r, o) \/ Transfer(r, o)
      PROVE  Typed'
  BY <1>1, SaleBegins, TransferBegins
<1>2. ASSUME NEW o \in Orders, CancelCommande(o)
      PROVE  Typed'
  BY <1>2, CancelTyped
<1>3. ASSUME NEW r \in Requests, Step(r)
      PROVE  Typed'
  BY <1>3, SaveNewCartTyped, PickLineTyped, FindProductTyped, CreateProductTyped,
     StockInTyped, StockOutTyped, DropCommandeTyped, SaveLineTyped, DropLineTyped,
     SaveOrderTyped DEF Step
<1>4. ASSUME NEW r \in Requests, LineError(r) \/ Crash(r)
      PROVE  Typed'
  BY <1>4, LineErrorTyped, CrashTyped
<1>5. CASE UNCHANGED vars
  BY <1>5 DEF vars, Typed, TypesOK, RequestOK, Running
<1> QED BY <1>1, <1>2, <1>3, <1>4, <1>5 DEF Next

(* What the requests read and write stays well formed: a quantity a stock  *)
(* is set to is a number, and a request at a line knows its nodes.         *)
THEOREM TransferTypeCorrect == Spec => []Typed
<1>1. Init => Typed
  BY TypedAtFirst
<1>2. Typed /\ [Next]_vars => Typed'
  BY TypedKept
<1> QED BY <1>1, <1>2, PTL DEF Spec

-----------------------------------------------------------------------------
(* Whose lines are whose.                                                  *)

InUse(c) == cart[c].state # "unused"

\* Line c of a new order, which request r has still to save.
Pending(r, c) == pc[r] = "newcart" /\ c \in todo[r] \cup {at[r]}

\* The lines of the order as r holds it, and the one it is at.
Mine(r) == (job[r].order.carts \cup {at[r]}) \cap Carts

\* Where a request stands in its loop.
Shape(r) ==
  /\ job[r].op = "sale" => pc[r] \in {"newcart", "order"}
  /\ pc[r] = "newcart" => job[r].op = "sale"
  /\ job[r].order.saved
  /\ todo[r] \subseteq job[r].order.carts \ {at[r]}
  /\ pc[r] = "order" => todo[r] = {}
  /\ pc[r] = "dropcart" => at[r] \notin job[r].order.carts
  /\ pc[r] \notin {"dropcart", "order"} => at[r] \in job[r].order.carts
  /\ pc[r] \in AtLine => job[r].line.state = "saved"

\* Its lines are in no other order, and saved but those of a sale to come.
Own(r) ==
  /\ \A c \in Mine(r) : InUse(c) <=> ~Pending(r, c)
  /\ \A o \in Orders \ {job[r].nid} : Mine(r) \cap order[o].carts = {}
  /\ job[r].op = "sale" => order[job[r].nid] = Blank

\* Requests on different orders are on different lines.
Apart(r, q) ==
  /\ job[r].nid # job[q].nid => Mine(r) \cap Mine(q) = {}
  /\ job[r].nid = job[q].nid => /\ job[r].nid \in SharedOrders
                                /\ job[r].op # "sale" /\ job[q].op # "sale"

OrderOK(o) ==
  /\ order[o].saved \/ order[o] = Blank
  /\ \A c \in order[o].carts : InUse(c)
  /\ \A p \in Orders \ {o} : order[o].carts \cap order[p].carts = {}

LinesInv ==
  /\ \A o \in Orders : OrderOK(o)
  /\ \A r \in Requests : Running(r) => Shape(r) /\ Own(r)
  /\ \A r, q \in Requests : r # q /\ Running(r) /\ Running(q) => Apart(r, q)

\* What a running request does to its own lines and to its order.
Onward(r) ==
  /\ pc'[r] # "idle" =>
       /\ job'[r].nid = job[r].nid /\ job'[r].op = job[r].op
       /\ Mine(r)' \subseteq Mine(r) /\ Shape(r)'
       /\ \A c \in Carts : Pending(r, c)' <=> Pending(r, c) /\ c # at[r]
       /\ \A c \in Carts : c = at[r] /\ pc[r] = "newcart" => InUse(c)'
  /\ \A c \in Carts : /\ InUse(c) => InUse(c)'
                      /\ InUse(c)' => InUse(c) \/ (c = at[r] /\ pc[r] = "newcart")
  /\ \/ order' = order
     \/ /\ pc[r] = "order" /\ pc'[r] = "idle"
        /\ order' = [order EXCEPT ![job[r].nid] = job[r].order]

LEMMA OnwardKeepsOrders ==
  ASSUME Typed, LinesInv, NEW r \in Requests, Running(r), Onward(r), NEW o \in Orders
  PROVE  OrderOK(o)'
<1>1. /\ OrderOK(o) /\ Own(r) /\ Shape(r) /\ job[r].nid \in Orders
      /\ job[r].order \in OrderNode
  BY DEF LinesInv, Typed, TypesOK, RequestOK, Job
<1>2. \A p \in Orders : order[p].carts \subseteq Carts
  BY DEF Typed, TypesOK, OrderNode
<1>3. \A c \in Carts : InUse(c) => InUse(c)'
  BY DEF Onward
<1>4. CASE order' = order
  BY <1>1, <1>2, <1>3, <1>4 DEF OrderOK
<1>5. CASE pc[r] = "order" /\ order' = [order EXCEPT ![job[r].nid] = job[r].order]
  <2>1. \A p \in Orders : order'[p] = IF p = job[r].nid THEN job[r].order ELSE order[p]
    BY <1>5 DEF Typed, TypesOK
  <2>2. job[r].order.carts \subseteq Mine(r)
    BY <1>1 DEF Mine, OrderNode
  <2>3. \A c \in job[r].order.carts : InUse(c) /\ c \in Carts
    BY <1>1, <1>5, <2>2 DEF Own, Pending, Mine
  <2>4. \A p \in Orders \ {job[r].nid} : job[r].order.carts \cap order[p].carts = {}
    BY <1>1, <2>2 DEF Own
  <2>5. \A p \in Orders \ {o} : order[o].carts \cap order[p].carts = {}
    BY <1>1 DEF OrderOK
  <2>6. \A p \in Orders \ {o} : order'[o].carts \cap order'[p].carts = {}
    BY <2>1, <2>4, <2>5
  <2>7. \A c \in order'[o].carts : InUse(c)'
    BY <1>1, <1>2, <1>3, <2>1, <2>3 DEF OrderOK
  <2>8. order'[o].saved \/ order'[o] = Blank'
    BY <1>1, <2>1 DEF OrderOK, Shape, Blank
  <2> QED BY <2>6, <2>7, <2>8 DEF OrderOK
<1> QED BY <1>4, <1>5 DEF Onward

LEMMA OnwardKeepsSelf ==
  ASSUME Typed, LinesInv, NEW r \in Requests, Running(r), Onward(r), pc'[r] # "idle"
  PROVE  Shape(r)' /\ Own(r)'
<1>1. Own(r) /\ order' = order /\ Mine(r) \subseteq Carts
  BY DEF LinesInv, Onward, Mine
<1>2. /\ job'[r].nid = job[r].nid /\ job'[r].op = job[r].op
      /\ Mine(r)' \subseteq Mine(r) /\ Shape(r)'
      /\ \A c \in Carts : Pending(r, c)' <=> Pending(r, c) /\ c # at[r]
      /\ \A c \in Carts : InUse(c)' <=> InUse(c) \/ (c = at[r] /\ pc[r] = "newcart")
  BY DEF Onward
<1>3. \A c \in Carts : c = at[r] /\ pc[r] # "newcart" => ~Pending(r, c)
  BY DEF Pending
<1>4. \A c \in Mine(r)' : InUse(c)' <=> ~Pending(r, c)'
  BY <1>1, <1>2, <1>3 DEF Own
<1>5. \A o \in Orders \ {job'[r].nid} : Mine(r)' \cap order'[o].carts = {}
  BY <1>1, <1>2 DEF Own
<1>6. job'[r].op = "sale" => order'[job'[r].nid] = Blank'
  BY <1>1, <1>2 DEF Own, Blank
<1> QED BY <1>2, <1>4, <1>5, <1>6 DEF Own

LEMMA OthersUnmoved ==
  ASSUME NEW r \in Requests, OthersStay(r), NEW q \in Requests \ {r}
  PROVE  /\ Running(q)' = Running(q) /\ Mine(q)' = Mine(q) /\ Shape(q)' = Shape(q)
         /\ \A c \in Carts : Pending(q, c)' <=> Pending(q, c)
         /\ job'[q].nid = job[q].nid /\ job'[q].op = job[q].op
BY DEF OthersStay, Running, Mine, Shape, Pending

LEMMA OnwardKeepsOthers ==
  ASSUME Typed, LinesInv, NEW r \in Requests, Running(r), OthersStay(r), Onward(r),
         NEW q \in Requests \ {r}, Running(q)'
  PROVE  Shape(q)' /\ Own(q)'
<1>1. Running(q) /\ Shape(q) /\ Own(q) /\ Own(r) /\ Shape(r) /\ Apart(r, q)
  BY OthersUnmoved DEF LinesInv
<1>2. /\ Mine(q)' = Mine(q) /\ Shape(q)' = Shape(q)
      /\ \A c \in Carts : Pending(q, c)' <=> Pending(q, c)
      /\ job'[q].nid = job[q].nid /\ job'[q].op = job[q].op
  BY OthersUnmoved
<1>3. \A c \in Carts : /\ InUse(c) => InUse(c)'
                       /\ InUse(c)' => InUse(c) \/ (c = at[r] /\ pc[r] = "newcart")
  BY DEF Onward
<1>4. at[r] \in Carts /\ pc[r] = "newcart" => at[r] \in Mine(r)
  BY DEF Mine
<1>5. \A c \in Mine(q) : c = at[r] /\ pc[r] = "newcart" => FALSE
  BY <1>1, <1>4 DEF Apart, Shape, Mine
<1>6. \A c \in Mine(q)' : InUse(c)' <=> ~Pending(q, c)'
  <2>1. Mine(q) \subseteq Carts
    BY DEF Mine
  <2>2. ASSUME NEW c \in Mine(q)
        PROVE  InUse(c)' <=> ~Pending(q, c)'
    <3>1. (InUse(c)' <=> InUse(c)) /\ (InUse(c) <=> ~Pending(q, c)) /\ c \in Carts
      BY <1>1, <1>3, <1>5, <2>1 DEF Own
    <3>2. Pending(q, c)' <=> Pending(q, c)
      BY <1>2, <3>1
    <3> QED BY <3>1, <3>2
  <2> QED BY <1>2, <2>2
<1>7. /\ \A o \in Orders \ {job'[q].nid} : Mine(q)' \cap order'[o].carts = {}
      /\ job'[q].op = "sale" => order'[job'[q].nid] = Blank'
  <2>1. CASE order' = order
    BY <1>1, <1>2, <2>1 DEF Own, Blank
  <2>2. CASE pc[r] = "order" /\ order' = [order EXCEPT ![job[r].nid] = job[r].order]
    <3>1. \A p \in Orders : order'[p] = IF p = job[r].nid THEN job[r].order ELSE order[p]
      BY <2>2 DEF Typed, TypesOK
    <3>2. job[r].order.carts \subseteq Mine(r)
      BY DEF Mine, Typed, TypesOK, Job, OrderNode
    <3>3. job[q].nid \in Orders
      BY <1>1 DEF Typed, RequestOK
    <3>4. job[q].nid # job[r].nid => Mine(q) \cap job[r].order.carts = {}
      BY <1>1, <3>2 DEF Apart
    <3>5. job[q].op = "sale" => job[q].nid # job[r].nid
      BY <1>1 DEF Apart
    <3> QED BY <1>1, <1>2, <3>1, <3>3, <3>4, <3>5 DEF Own, Blank
  <2> QED BY <2>1, <2>2 DEF Onward
<1> QED BY <1>1, <1>2, <1>6, <1>7 DEF Own

LEMMA OnwardKeepsLines ==
  ASSUME Typed, LinesInv, NEW r \in Requests, Running(r), OthersStay(r), Onward(r)
  PROVE  LinesInv'
<1>1. \A o \in Orders : OrderOK(o)'
  BY OnwardKeepsOrders
<1>2. Running(r)' => Shape(r)' /\ Own(r)'
  BY OnwardKeepsSelf DEF Running
<1>3. \A q \in Requests \ {r} : Running(q)' => Shape(q)' /\ Own(q)'
  BY OnwardKeepsOthers
<1>4. ASSUME NEW s \in Requests, NEW q \in Requests \ {s}, Running(s)', Running(q)'
      PROVE  Apart(s, q)'
  <2>1. /\ Running(s) /\ Running(q) /\ Mine(s)' \subseteq Mine(s) /\ Mine(q)' \subseteq Mine(q)
        /\ job'[s].nid = job[s].nid /\ job'[s].op = job[s].op
        /\ job'[q].nid = job[q].nid /\ job'[q].op = job[q].op
    <3>1. \A p \in Requests : Running(p)' =>
            /\ Running(p) /\ Mine(p)' \subseteq Mine(p)
            /\ job'[p].nid = job[p].nid /\ job'[p].op = job[p].op
      BY OthersUnmoved DEF Onward, Running
    <3> QED BY <1>4, <3>1
  <2>2. Apart(s, q)
    BY <2>1 DEF LinesInv
  <2> QED BY <2>1, <2>2 DEF Apart
<1> QED BY <1>1, <1>2, <1>3, <1>4 DEF LinesInv

(* Every step of a running request goes onward.                            *)
LEMMA EndOnward ==
  ASSUME NEW r \in Requests, pc'[r] = "idle",
         UNCHANGED <<cart, order>>
  PROVE  Onward(r)
BY DEF Onward, InUse

LEMMA TurnedOnward ==
  ASSUME Typed, NEW r \in Requests, Shape(r), Running(r), pc[r] # "newcart",
         NEW dirty, Turned(r, job[r].order, dirty), UNCHANGED order,
         \A c \in Carts : InUse(c)' <=> InUse(c)
  PROVE  Onward(r)
<1>1. /\ job[r] \in Job /\ todo[r] \subseteq Carts /\ (job[r].op # "sale" \/ pc[r] = "order")
  BY DEF Typed, TypesOK, Shape
<1>2. SUFFICES ASSUME pc'[r] # "idle"
               PROVE  /\ job'[r].nid = job[r].nid /\ job'[r].op = job[r].op
                      /\ Mine(r)' \subseteq Mine(r) /\ Shape(r)'
                      /\ \A c \in Carts : Pending(r, c)' <=> Pending(r, c) /\ c # at[r]
  BY DEF Onward
<1>3. job'[r] = [job[r] EXCEPT !.order = job[r].order, !.dirty = dirty]
  BY <1>2 DEF Turned
<1>4. /\ job'[r].nid = job[r].nid /\ job'[r].op = job[r].op
      /\ job'[r].order = job[r].order
  BY <1>1, <1>3 DEF Typed, TypesOK, Job
<1>5. /\ pc'[r] \in {"pick", "order"}
      /\ pc'[r] = "pick" => at'[r] \in todo[r] /\ todo'[r] = todo[r] \ {at'[r]}
      /\ pc'[r] = "order" => at'[r] = at[r] /\ todo'[r] = todo[r] /\ todo[r] = {}
  BY <1>2 DEF Turned
<1>6. Mine(r)' \subseteq Mine(r)
  BY <1>4, <1>5 DEF Mine, Shape
<1>7. \A c \in Carts : Pending(r, c)' <=> Pending(r, c) /\ c # at[r]
  BY <1>5 DEF Pending
<1>8. Shape(r)'
  BY <1>1, <1>4, <1>5 DEF Shape, AtLine
<1> QED BY <1>4, <1>6, <1>7, <1>8

LEMMA MovedOnward ==
  ASSUME Typed, NEW r \in Requests, Shape(r), pc[r] \in AtLine \ {"dropcart"},
         NEW step \in AtLine \ {"dropcart"}, Moved(r, step), UNCHANGED <<cart, order>>
  PROVE  Onward(r)
<1>1. PICK p \in Products \cup {NoItem} : job'[r] = [job[r] EXCEPT !.product = p]
  BY DEF Moved
<1>2. job[r] \in Job
  BY DEF Typed, TypesOK
<1>3. /\ job'[r].nid = job[r].nid /\ job'[r].op = job[r].op
      /\ job'[r].order = job[r].order /\ job'[r].line = job[r].line
  BY <1>1, <1>2 DEF Job
<1>4. pc'[r] = step /\ at'[r] = at[r] /\ todo'[r] = todo[r]
  BY DEF Moved
<1>5. Shape(r)'
  BY <1>3, <1>4 DEF Shape, AtLine
<1>6. Mine(r)' \subseteq Mine(r)
  BY <1>3, <1>4 DEF Mine
<1>7. \A c \in Carts : Pending(r, c)' <=> Pending(r, c) /\ c # at[r]
  BY <1>4 DEF Pending, AtLine
<1> QED BY <1>3, <1>5, <1>6, <1>7 DEF Onward, InUse, AtLine

LEMMA PickedOnward ==
  ASSUME Typed, NEW r \in Requests, Shape(r), pc[r] = "pick", Picked(r),
         UNCHANGED <<cart, order>>
  PROVE  Onward(r)
<1>1. job[r] \in Job
  BY DEF Typed, TypesOK
<1>2. /\ job'[r].nid = job[r].nid /\ job'[r].op = job[r].op
      /\ job'[r].order = job[r].order /\ job'[r].line.state = "saved"
  BY <1>1 DEF Job, Picked
<1>3. pc'[r] = "find" /\ at'[r] = at[r] /\ todo'[r] = todo[r]
  BY DEF Picked
<1>4. Shape(r)'
  BY <1>2, <1>3 DEF Shape
<1>5. Mine(r)' \subseteq Mine(r)
  BY <1>2, <1>3 DEF Mine
<1>6. \A c \in Carts : Pending(r, c)' <=> Pending(r, c) /\ c # at[r]
  BY <1>3 DEF Pending
<1> QED BY <1>2, <1>4, <1>5, <1>6 DEF Onward, InUse

LEMMA SaveNewCartOnward ==
  ASSUME Typed, NEW r \in Requests, Shape(r), SaveNewCart(r)
  PROVE  Onward(r)
<1>1. /\ pc[r] = "newcart" /\ UNCHANGED <<job, order>>
      /\ \/ pc' = [pc EXCEPT ![r] = "order"] /\ UNCHANGED <<at, todo>> /\ todo[r] = {}
         \/ /\ UNCHANGED pc
            /\ \E d \in todo[r] : /\ at' = [at EXCEPT ![r] = d]
                                  /\ todo' = [todo EXCEPT ![r] = @ \ {d}]
  BY DEF SaveNewCart
<1>2. at[r] \in Carts /\ at[r] \notin todo[r] /\ todo[r] \subseteq job[r].order.carts
      /\ job[r].op = "sale" /\ job[r].order.saved
  BY <1>1 DEF Typed, RequestOK, Running, Shape
<1>3. /\ \A c \in Carts \ {at[r]} : cart'[c] = cart[c]
      /\ cart'[at[r]].state = "saved"
  <2>1. cart' = [cart EXCEPT ![at[r]] = [state |-> "saved", pcnid |-> job[r].pcs[at[r]],
                   qty |-> job[r].ask[at[r]], transferred |-> FALSE]]
    BY DEF SaveNewCart
  <2> QED BY <1>2, <2>1 DEF Typed, TypesOK
<1>4. \A c \in Carts : InUse(c)' <=> InUse(c) \/ c = at[r]
  BY <1>2, <1>3 DEF InUse
<1>5. CASE pc' = [pc EXCEPT ![r] = "order"] /\ UNCHANGED <<at, todo>> /\ todo[r] = {}
  <2>1. pc'[r] = "order"
    BY <1>5 DEF Typed, TypesOK
  <2>2. Shape(r)' /\ Mine(r)' = Mine(r)
    BY <1>1, <1>2, <1>5, <2>1 DEF Shape, Mine, AtLine
  <2>3. \A c \in Carts : Pending(r, c)' <=> Pending(r, c) /\ c # at[r]
    BY <1>5, <2>1 DEF Pending
  <2> QED BY <1>1, <1>4, <2>2, <2>3 DEF Onward
<1>6. ASSUME UNCHANGED pc, NEW d \in todo[r], at' = [at EXCEPT ![r] = d],
             todo' = [todo EXCEPT ![r] = @ \ {d}]
      PROVE  Onward(r)
  <2>1. pc'[r] = pc[r] /\ at'[r] = d /\ todo'[r] = todo[r] \ {d}
    BY <1>6 DEF Typed, TypesOK
  <2>2. Shape(r)' /\ Mine(r)' \subseteq Mine(r)
    BY <1>1, <1>2, <2>1 DEF Shape, Mine, AtLine
  <2>3. \A c \in Carts : Pending(r, c)' <=> Pending(r, c) /\ c # at[r]
    BY <1>1, <1>2, <2>1 DEF Pending
  <2> QED BY <1>1, <1>4, <2>2, <2>3 DEF Onward
<1> QED BY <1>1, <1>5, <1>6

LEMMA PutInUse ==
  ASSUME Typed, NEW r \in Requests, LinesInv, pc[r] = "cart", NEW line, Put(r, line),
         line.state = "saved"
  PROVE  \A c \in Carts : InUse(c)' <=> InUse(c)
<1>1. at[r] \in Carts /\ InUse(at[r])
  BY DEF Typed, RequestOK, Running, LinesInv, Own, Mine, Pending
<1> QED BY <1>1 DEF Put, InUse

LEMMA SaveLineOnward ==
  ASSUME Typed, LinesInv, NEW r \in Requests, SaveLine(r)
  PROVE  Onward(r)
<1>1. pc[r] = "cart" /\ UNCHANGED order /\ Running(r)
  BY DEF SaveLine, Running
<1>2. /\ Shape(r) /\ job[r] \in Job /\ job[r].line \in CartNode
      /\ job[r].line.state = "saved" /\ job[r].op # "sale"
  BY <1>1 DEF LinesInv, Typed, TypesOK, Job, Shape, AtLine
<1>3. CASE /\ Put(r, [job[r].line EXCEPT !.transferred = TRUE])
           /\ job'[r] = [job[r] EXCEPT !.order = RemoveCart(@, at[r])]
           /\ pc'[r] = "dropcart" /\ at'[r] = at[r] /\ todo'[r] = todo[r]
  <2>1. [job[r].line EXCEPT !.transferred = TRUE].state = "saved"
    BY <1>2 DEF CartNode
  <2>2. \A c \in Carts : InUse(c)' <=> InUse(c)
    BY <1>1, <1>3, <2>1, PutInUse
  <2>3. /\ job'[r].nid = job[r].nid /\ job'[r].op = job[r].op
        /\ job'[r].order.carts = job[r].order.carts \ {at[r]}
        /\ job'[r].order.saved = job[r].order.saved /\ job'[r].line = job[r].line
    BY <1>2, <1>3 DEF Job, OrderNode, RemoveCart
  <2>4. Shape(r)'
    BY <1>1, <1>2, <1>3, <2>3 DEF Shape
  <2>5. Mine(r)' \subseteq Mine(r)
    BY <1>3, <2>3 DEF Mine
  <2>6. \A c \in Carts : Pending(r, c)' <=> Pending(r, c) /\ c # at[r]
    BY <1>1, <1>3 DEF Pending
  <2> QED BY <1>1, <2>2, <2>3, <2>4, <2>5, <2>6 DEF Onward
<1>4. CASE /\ Put(r, [job[r].line EXCEPT !.qty = job[r].line.qty - job[r].ask[at[r]]])
           /\ Turned(r, job[r].order, TRUE)
  <2>1. [job[r].line EXCEPT !.qty = job[r].line.qty - job[r].ask[at[r]]].state = "saved"
    BY <1>2 DEF CartNode
  <2>2. \A c \in Carts : InUse(c)' <=> InUse(c)
    BY <1>1, <1>4, <2>1, PutInUse
  <2> QED BY <1>1, <1>2, <1>4, <2>2, TurnedOnward
<1> QED BY <1>3, <1>4, SaveLineTyped

LEMMA StepOnward ==
  ASSUME Typed, LinesInv, NEW r \in Requests, Step(r) \/ LineError(r) \/ Crash(r)
  PROVE  Running(r) /\ OthersStay(r) /\ Onward(r)
<1>1. Running(r)
  BY DEF Running, Step, SaveNewCart, PickLine, FindProduct, CreateProduct, StockIn,
     StockOut, DropCommande, SaveLine, DropLine, SaveOrder, LineError, Crash
<1>2. Shape(r)
  BY <1>1 DEF LinesInv
<1>3. CASE SaveNewCart(r)
  BY <1>1, <1>2, <1>3, SaveNewCartTyped, SaveNewCartOnward
<1>4. CASE PickLine(r)
  <2>1. pc[r] = "pick" /\ UNCHANGED <<cart, order>>
    BY <1>4 DEF PickLine
  <2>2. \A c \in Carts : InUse(c)' <=> InUse(c)
    BY <2>1 DEF InUse
  <2> QED BY <1>1, <1>2, <1>4, <2>1, <2>2, PickLineTyped, PickedOnward, TurnedOnward
<1>5. CASE FindProduct(r)
  <2>1. /\ pc[r] \in AtLine \ {"dropcart"} /\ UNCHANGED <<cart, order>>
        /\ "in" \in AtLine \ {"dropcart"} /\ "create" \in AtLine \ {"dropcart"}
    BY <1>5 DEF FindProduct, AtLine
  <2> QED BY <1>1, <1>2, <1>5, <2>1, FindProductTyped, MovedOnward
<1>6. CASE CreateProduct(r)
  <2>1. /\ pc[r] \in AtLine \ {"dropcart"} /\ UNCHANGED <<cart, order>>
        /\ "in" \in AtLine \ {"dropcart"}
    BY <1>6 DEF CreateProduct, AtLine
  <2> QED BY <1>1, <1>2, <1>6, <2>1, CreateProductTyped, MovedOnward
<1>7. CASE StockIn(r)
  <2>1. /\ pc[r] \in AtLine \ {"dropcart"} /\ UNCHANGED <<cart, order>>
        /\ "out" \in AtLine \ {"dropcart"} /\ "cart" \in AtLine \ {"dropcart"}
    BY <1>7 DEF StockIn, AtLine
  <2> QED BY <1>1, <1>2, <1>7, <2>1, StockInTyped, MovedOnward
<1>8. CASE StockOut(r)
  <2>1. /\ pc[r] \in AtLine \ {"dropcart"} /\ UNCHANGED <<cart, order>>
        /\ "droppc" \in AtLine \ {"dropcart"}
    BY <1>8 DEF StockOut, AtLine
  <2> QED BY <1>1, <1>2, <1>8, <2>1, StockOutTyped, MovedOnward
<1>9. CASE DropCommande(r)
  <2>1. /\ pc[r] \in AtLine \ {"dropcart"} /\ UNCHANGED <<cart, order>>
        /\ "cart" \in AtLine \ {"dropcart"}
    BY <1>9 DEF DropCommande, AtLine
  <2> QED BY <1>1, <1>2, <1>9, <2>1, DropCommandeTyped, MovedOnward
<1>10. CASE SaveLine(r)
  BY <1>1, <1>10, SaveLineTyped, SaveLineOnward
<1>11. CASE DropLine(r)
  <2>1. /\ pc[r] = "dropcart" /\ cart' = [cart EXCEPT ![at[r]].state = "deleted"]
        /\ UNCHANGED order /\ at[r] \in Carts
    BY <1>11 DEF DropLine, Typed, RequestOK, Running
  <2>2. InUse(at[r])
    BY <1>1, <2>1 DEF LinesInv, Own, Mine, Pending
  <2>3. [cart[at[r]] EXCEPT !.state = "deleted"].state = "deleted"
    BY <2>1 DEF Typed, TypesOK, CartNode
  <2>4. cart'[at[r]].state = "deleted" /\ \A c \in Carts \ {at[r]} : cart'[c] = cart[c]
    BY <2>1, <2>3 DEF Typed, TypesOK
  <2>5. \A c \in Carts : InUse(c)' <=> InUse(c)
    BY <2>1, <2>2, <2>4 DEF InUse
  <2> QED BY <1>1, <1>2, <1>11, <2>1, <2>5, DropLineTyped, TurnedOnward
<1>12. CASE SaveOrder(r)
  <2>1. /\ pc[r] = "order" /\ order' = [order EXCEPT ![job[r].nid] = job[r].order]
        /\ UNCHANGED cart
    BY <1>12 DEF SaveOrder
  <2> QED BY <1>1, <1>12, <2>1, SaveOrderTyped DEF Onward, InUse
<1>13. CASE LineError(r)
  <2>1. \A c \in Carts : InUse(c)' <=> InUse(c)
    BY <1>13, LineErrorTyped DEF InUse
  <2> QED BY <1>1, <1>2, <1>13, <2>1, LineErrorTyped, TurnedOnward DEF AtLine
<1>14. CASE Crash(r)
  BY <1>1, <1>14, CrashTyped, EndOnward
<1> QED BY <1>3, <1>4, <1>5, <1>6, <1>7, <1>8, <1>9, <1>10, <1>11, <1>12, <1>13, <1>14
        DEF Step

LEMMA BegunFacts ==
  ASSUME NEW r, NEW op, NEW o, NEW node, NEW ask, NEW pcs, NEW S, NEW first,
         Begun(r, op, o, node, ask, pcs, S, first)
  PROVE  /\ job'[r].op = op /\ job'[r].nid = o /\ job'[r].order = node
         /\ job'[r].ask = ask /\ job'[r].dirty = FALSE
BY DEF Begun, NoJob

LEMMA OthersUntouched ==
  ASSUME LinesInv, NEW r \in Requests, OthersStay(r), UNCHANGED <<cart, order>>,
         NEW q \in Requests \ {r}, Running(q)'
  PROVE  Shape(q)' /\ Own(q)'
<1>1. Shape(q) /\ Own(q) /\ Mine(q) \subseteq Carts
  BY OthersUnmoved DEF LinesInv, Mine
<1>2. /\ Mine(q)' = Mine(q) /\ Shape(q)' = Shape(q)
      /\ \A c \in Carts : Pending(q, c)' <=> Pending(q, c)
      /\ job'[q].nid = job[q].nid /\ job'[q].op = job[q].op
  BY OthersUnmoved
<1>3. \A c \in Mine(q)' : InUse(c)' <=> ~Pending(q, c)'
  BY <1>1, <1>2 DEF Own, InUse
<1> QED BY <1>1, <1>2, <1>3 DEF Own, Blank

(* A sale starts on lines nobody holds, ...                                *)
LEMMA SaleKeepsLines ==
  ASSUME Typed, LinesInv, NEW r \in Requests, NEW o \in Orders, Sale(r, o)
  PROVE  LinesInv'
<1>1. PICK S \in SUBSET Carts, node \in OrderNode, ask \in [Carts -> Nat],
           pcs \in [Carts -> Commandes \cup {NoItem}] :
        /\ Begun(r, "sale", o, node, ask, pcs, S, "newcart")
        /\ node.saved /\ ~node.cancelled /\ node.carts = S
        /\ ~order[o].saved /\ ~Busy(o)
        /\ \A c \in S : /\ cart[c].state = "unused" /\ ask[c] > 0
                        /\ \A q \in Requests : c \notin job[q].order.carts
  BY SaleBegins
<1>2. OthersStay(r) /\ Typed'
  BY SaleBegins
<1>3. /\ pc'[r] = "newcart" /\ job'[r].op = "sale" /\ job'[r].nid = o
      /\ job'[r].order.saved /\ job'[r].order.carts = S
      /\ at'[r] \in S /\ todo'[r] = S \ {at'[r]} /\ UNCHANGED <<cart, order>>
  <2>1. Begun(r, "sale", o, node, ask, pcs, S, "newcart")
    BY <1>1
  <2>2. job'[r].op = "sale" /\ job'[r].nid = o /\ job'[r].order = node
    BY <2>1, BegunFacts
  <2>3. /\ pc'[r] = "newcart" /\ at'[r] \in S /\ todo'[r] = S \ {at'[r]}
        /\ UNCHANGED <<cart, order>>
    BY <2>1 DEF Begun
  <2> QED BY <1>1, <2>2, <2>3
<1>4. Mine(r)' = S /\ \A c \in S : ~InUse(c)'
  BY <1>1, <1>3 DEF Mine, InUse
<1>5. \A p \in Orders : OrderOK(p)'
  BY <1>3 DEF LinesInv, OrderOK, InUse, Blank
<1>6. Shape(r)'
  BY <1>3 DEF Shape, AtLine
<1>7. Own(r)'
  <2>1. \A c \in Mine(r)' : InUse(c)' <=> ~Pending(r, c)'
    BY <1>3, <1>4 DEF Pending
  <2>2. \A p \in Orders : S \cap order'[p].carts = {}
    BY <1>4, <1>5 DEF OrderOK
  <2>3. order'[o] = Blank'
    BY <1>1, <1>3 DEF LinesInv, OrderOK, Blank
  <2> QED BY <1>3, <1>4, <2>1, <2>2, <2>3 DEF Own
<1>8. \A q \in Requests \ {r} : Running(q)' => Shape(q)' /\ Own(q)'
  BY <1>2, <1>3, OthersUntouched
<1>9. ASSUME NEW q \in Requests \ {r}, Running(q)'
      PROVE  Apart(r, q)' /\ Apart(q, r)'
  <2>1. /\ Running(q) /\ Own(q) /\ Shape(q) /\ Mine(q)' = Mine(q)
        /\ job'[q].nid = job[q].nid
    BY <1>2, <1>9, OthersUnmoved DEF LinesInv
  <2>2. job[q].nid # o
    BY <1>1, <2>1 DEF Busy, Running
  <2>3. \A c \in S : c \notin job[q].order.carts /\ ~InUse(c)
    BY <1>1 DEF InUse
  <2>4. \A c \in S : c # at[q]
    BY <2>1, <2>3 DEF Own, Shape, Mine, Pending
  <2>5. S \cap Mine(q) = {}
    BY <2>3, <2>4 DEF Mine
  <2> QED BY <1>3, <1>4, <2>1, <2>2, <2>5 DEF Apart
<1>10. ASSUME NEW s \in Requests \ {r}, NEW q \in Requests \ {r}, s # q,
              Running(s)', Running(q)'
       PROVE  Apart(s, q)'
  BY <1>2, <1>10, OthersUnmoved DEF LinesInv, Apart
<1> QED BY <1>5, <1>6, <1>7, <1>8, <1>9, <1>10 DEF LinesInv

(* ... a transfer on those of its order, ...                               *)
LEMMA TransferKeepsLines ==
  ASSUME Typed, LinesInv, NEW r \in Requests, NEW o \in Orders, Transfer(r, o)
  PROVE  LinesInv'
<1>1. PICK S \in SUBSET order[o].carts, ask \in [Carts -> Nat],
           pcs \in [Carts -> Commandes \cup {NoItem}] :
        /\ Begun(r, "transfer", o, order[o], ask, pcs, S, "pick")
        /\ order[o].saved /\ (o \in SharedOrders \/ ~Busy(o))
  BY TransferBegins
<1>2. OthersStay(r) /\ Typed'
  BY TransferBegins
<1>3. /\ pc'[r] = "pick" /\ job'[r].op = "transfer" /\ job'[r].nid = o
      /\ job'[r].order = order[o]
      /\ at'[r] \in S /\ todo'[r] = S \ {at'[r]} /\ UNCHANGED <<cart, order>>
  <2>1. Begun(r, "transfer", o, order[o], ask, pcs, S, "pick")
    BY <1>1
  <2>2. job'[r].op = "transfer" /\ job'[r].nid = o /\ job'[r].order = order[o]
    BY <2>1, BegunFacts
  <2>3. /\ pc'[r] = "pick" /\ at'[r] \in S /\ todo'[r] = S \ {at'[r]}
        /\ UNCHANGED <<cart, order>>
    BY <2>1 DEF Begun
  <2> QED BY <1>1, <2>2, <2>3
<1>4. Mine(r)' = order[o].carts /\ order[o].carts \subseteq Carts
  BY <1>3 DEF Mine, Typed, TypesOK, OrderNode
<1>5. \A p \in Orders : OrderOK(p) /\ OrderOK(p)'
  BY <1>3 DEF LinesInv, OrderOK, InUse, Blank
<1>6. Shape(r)'
  BY <1>1, <1>3 DEF Shape, AtLine
<1>7. Own(r)'
  <2>1. \A c \in Mine(r)' : InUse(c)' <=> ~Pending(r, c)'
    BY <1>3, <1>4, <1>5 DEF Pending, OrderOK
  <2>2. \A p \in Orders \ {o} : order[o].carts \cap order'[p].carts = {}
    BY <1>3, <1>5 DEF OrderOK
  <2> QED BY <1>3, <1>4, <2>1, <2>2 DEF Own
<1>8. \A q \in Requests \ {r} : Running(q)' => Shape(q)' /\ Own(q)'
  BY <1>2, <1>3, OthersUntouched
<1>9. ASSUME NEW q \in Requests \ {r}, Running(q)'
      PROVE  Apart(r, q)' /\ Apart(q, r)'
  <2>1. /\ Running(q) /\ Own(q) /\ Mine(q)' = Mine(q)
        /\ job'[q].nid = job[q].nid /\ job'[q].op = job[q].op
    BY <1>2, <1>9, OthersUnmoved DEF LinesInv
  <2>2. job[q].nid # o => Mine(q) \cap order[o].carts = {}
    BY <2>1 DEF Own
  <2>3. job[q].nid = o => o \in SharedOrders /\ job[q].op # "sale"
    BY <1>1, <2>1 DEF Own, Blank, Busy, Running
  <2> QED BY <1>3, <1>4, <2>1, <2>2, <2>3 DEF Apart
<1>10. ASSUME NEW s \in Requests \ {r}, NEW q \in Requests \ {r}, s # q,
              Running(s)', Running(q)'
       PROVE  Apart(s, q)'
  BY <1>2, <1>10, OthersUnmoved DEF LinesInv, Apart
<1> QED BY <1>5, <1>6, <1>7, <1>8, <1>9, <1>10 DEF LinesInv

(* ... and a cancellation concerns a saved order.                          *)
LEMMA CancelKeepsLines ==
  ASSUME Typed, LinesInv, NEW o \in Orders, CancelCommande(o)
  PROVE  LinesInv'
<1>1. /\ order' = [order EXCEPT ![o].cancelled = TRUE] /\ order[o].saved
      /\ UNCHANGED <<cart, pc, job, at, todo>>
  BY CancelTyped
<1>2. order[o] \in OrderNode
  BY DEF Typed, TypesOK
<1>3. /\ \A p \in Orders : /\ order'[p].saved = order[p].saved
                           /\ order'[p].carts = order[p].carts
      /\ \A p \in Orders \ {o} : order'[p] = order[p]
  BY <1>1, <1>2 DEF Typed, TypesOK, OrderNode
<1>4. \A p \in Orders : OrderOK(p)'
  BY <1>1, <1>3 DEF LinesInv, OrderOK, InUse, Blank
<1>5. ASSUME NEW r \in Requests, Running(r)'
      PROVE  Shape(r)' /\ Own(r)'
  <2>1. Running(r) /\ Shape(r) /\ Own(r) /\ job[r].nid \in Orders
    BY <1>1, <1>5 DEF LinesInv, Running, Typed, RequestOK
  <2>2. Shape(r)'
    BY <1>1, <2>1 DEF Shape
  <2>3. job[r].op = "sale" => job[r].nid # o
    BY <1>1, <2>1 DEF Own, Blank
  <2> QED BY <1>1, <1>3, <2>1, <2>2, <2>3 DEF Own, Mine, InUse, Pending, Blank
<1>6. \A r, q \in Requests : r # q /\ Running(r)' /\ Running(q)' => Apart(r, q)'
  BY <1>1 DEF LinesInv, Apart, Running, Mine
<1> QED BY <1>4, <1>5, <1>6 DEF LinesInv

LEMMA LinesKept ==
  ASSUME Typed, LinesInv, [Next]_vars
  PROVE  LinesInv'
<1>1. ASSUME NEW r \in Requests, NEW o \in Orders, Sale(r, o) \/ Transfer(r, o)
      PROVE  LinesInv'
  BY <1>1, SaleKeepsLines, TransferKeepsLines
<1>2. ASSUME NEW o \in Orders, CancelCommande(o)
      PROVE  LinesInv'
  BY <1>2, CancelKeepsLines
<1>3. ASSUME NEW r \in Requests, Step(r) \/ LineError(r) \/ Crash(r)
      PROVE  LinesInv'
  BY <1>3, StepOnward, OnwardKeepsLines
<1>4. CASE UNCHANGED vars
  BY <1>4 DEF vars, LinesInv, OrderOK, Running, Shape, Own, Apart, InUse, Pending, Mine
<1> QED BY <1>1, <1>2, <1>3, <1>4 DEF Next

-----------------------------------------------------------------------------
(* Where the pieces of a line are.                                         *)

\* A line at rest: its pieces are in the shop or still on it.
Good(c) ==
  /\ cart[c].state = "saved" /\ ~cart[c].transferred /\ cart[c].qty > 0
  /\ received[c] + cart[c].qty = ordered[c]

\* One request at a time works on the order, and none stopped half-way.
Sound(o) == o \notin SharedOrders \cup torn

\* The order as r holds it has the lines of the saved one until r changes a line.
Listed(r) ==
  job[r].op = "transfer" =>
    /\ order[job[r].nid].saved
    /\ pc[r] = "order" => job[r].dirty
    /\ ~job[r].dirty /\ pc[r] # "dropcart" => job[r].order.carts = order[job[r].nid].carts

\* The line r is at: before its pieces enter the shop, after, and at its end.
AtHand(r) ==
  /\ pc[r] \in AtLine \ {"dropcart"} =>
       /\ cart[at[r]] = job[r].line /\ ~cart[at[r]].transferred
       /\ job[r].ask[at[r]] > 0 /\ job[r].ask[at[r]] <= cart[at[r]].qty
  /\ pc[r] \in {"find", "create", "in"} =>
       received[at[r]] + cart[at[r]].qty = ordered[at[r]]
  /\ pc[r] \in {"out", "droppc", "cart"} =>
       received[at[r]] + cart[at[r]].qty - job[r].ask[at[r]] = ordered[at[r]]
  /\ pc[r] = "dropcart" => received[at[r]] = ordered[at[r]]

\* The lines r has not saved yet are none, the one it is at is AtHand.
Settled(r) ==
  \A c \in job[r].order.carts :
    ~Pending(r, c) /\ (c # at[r] \/ pc[r] \notin AtLine) => Good(c)

Pieces(r) == Listed(r) /\ Settled(r) /\ AtHand(r)

PiecesInv ==
  /\ \A c \in Carts : cart[c].state = "unused" => received[c] = 0
  /\ \A o \in Orders : Sound(o) /\ ~Busy(o) => \A c \in order[o].carts : Good(c)
  /\ \A r \in Requests : Running(r) /\ Sound(job[r].nid) => Pieces(r)

\* A step of r concerns the line r is at.
OnlyHere(r) ==
  /\ \A c \in Carts \ {at[r]} : /\ cart'[c] = cart[c] /\ received'[c] = received[c]
                                /\ ordered'[c] = ordered[c]
  /\ torn \subseteq torn'

LEMMA StepHere ==
  ASSUME Typed, NEW r \in Requests, Step(r) \/ LineError(r) \/ Crash(r)
  PROVE  OnlyHere(r)
<1>1. CASE \/ PickLine(r) \/ FindProduct(r) \/ CreateProduct(r) \/ StockOut(r)
           \/ DropCommande(r) \/ SaveOrder(r) \/ LineError(r) \/ Crash(r)
  <2>1. UNCHANGED <<cart, received, ordered>> /\ torn \subseteq torn'
    BY <1>1 DEF PickLine, FindProduct, CreateProduct, StockOut, DropCommande, SaveOrder,
                LineError, Crash
  <2> QED BY <2>1 DEF OnlyHere
<1>2. CASE SaveNewCart(r) \/ StockIn(r) \/ DropLine(r)
  BY <1>2 DEF SaveNewCart, StockIn, DropLine, OnlyHere, Typed, TypesOK
<1>3. CASE SaveLine(r)
  BY <1>3, SaveLineTyped DEF Put, SaveLine, OnlyHere
<1> QED BY <1>1, <1>2, <1>3 DEF Step

LEMMA GoodElsewhere ==
  ASSUME NEW r \in Requests, OnlyHere(r), NEW c \in Carts, c # at[r]
  PROVE  Good(c)' <=> Good(c)
BY DEF OnlyHere, Good

(* The other orders and requests see nothing of it.                        *)
LEMMA PiecesElsewhere ==
  ASSUME Typed, LinesInv, PiecesInv, NEW r \in Requests, Running(r), OthersStay(r),
         Onward(r), OnlyHere(r), NEW o \in Orders, o # job[r].nid, Sound(o)', ~Busy(o)',
         NEW c \in order'[o].carts
  PROVE  Good(c)'
<1>1. order'[o] = order[o] /\ c \in Carts
  BY DEF Onward, Typed, TypesOK, OrderNode
<1>2. Sound(o) /\ ~Busy(o)
  <2>1. Sound(o)
    BY DEF Sound, OnlyHere
  <2>2. ASSUME NEW q \in Requests, pc[q] # "idle", job[q].nid = o
        PROVE  FALSE
    BY <2>2 DEF OthersStay, Busy
  <2> QED BY <2>1, <2>2 DEF Busy
<1>3. Good(c)
  BY <1>1, <1>2 DEF PiecesInv
<1>4. c # at[r]
  BY <1>1 DEF LinesInv, Own, Mine
<1> QED BY <1>1, <1>3, <1>4, GoodElsewhere

LEMMA PiecesOfOthers ==
  ASSUME Typed, LinesInv, PiecesInv, NEW r \in Requests, Running(r), OthersStay(r),
         Onward(r), OnlyHere(r), NEW q \in Requests \ {r}, Running(q)', Sound(job[q].nid)'
  PROVE  Pieces(q)'
<1>1. /\ pc'[q] = pc[q] /\ job'[q] = job[q] /\ at'[q] = at[q] /\ todo'[q] = todo[q]
      /\ Running(q)
  BY DEF OthersStay, Running
<1>2. Sound(job[q].nid)
  BY <1>1 DEF Sound, OnlyHere
<1>3. Pieces(q) /\ Apart(r, q) /\ Shape(q) /\ job[q].nid \in Orders
  BY <1>1, <1>2 DEF PiecesInv, LinesInv, Typed, RequestOK
<1>4. job[r].nid # job[q].nid
  BY <1>2, <1>3 DEF Apart, Sound
<1>5. Mine(r) \cap Mine(q) = {}
  BY <1>3, <1>4 DEF Apart
<1>6. order'[job[q].nid] = order[job[q].nid]
  BY <1>3, <1>4 DEF Onward, Typed, TypesOK
<1>7. Listed(q)'
  BY <1>1, <1>3, <1>6 DEF Pieces, Listed
<1>8. \A c \in Mine(q) : c # at[r] /\ c \in Carts
  BY <1>5 DEF Mine
<1>9. Settled(q)'
  <2>1. job[q].order.carts \subseteq Mine(q)
    BY DEF Mine, Typed, TypesOK, Job, OrderNode
  <2>2. \A c \in job[q].order.carts : Good(c)' <=> Good(c)
    BY <1>8, <2>1, GoodElsewhere
  <2> QED BY <1>1, <1>3, <2>2 DEF Pieces, Settled, Pending
<1>10. AtHand(q)'
  <2>1. CASE pc[q] \in AtLine
    <3>1. at[q] \in Mine(q)
      BY <2>1 DEF Typed, RequestOK, Running, AtLine, Mine
    <3>2. /\ cart'[at[q]] = cart[at[q]] /\ received'[at[q]] = received[at[q]]
          /\ ordered'[at[q]] = ordered[at[q]]
      BY <1>8, <3>1 DEF OnlyHere
    <3> QED BY <1>1, <1>3, <3>2 DEF Pieces, AtHand
  <2>2. CASE pc[q] \notin AtLine
    BY <1>1, <2>2 DEF AtHand, AtLine
  <2> QED BY <2>1, <2>2
<1> QED BY <1>7, <1>9, <1>10 DEF Pieces

(* The request itself: its lines are settled after its step, too.          *)
Ready(r) ==
  /\ Typed /\ LinesInv /\ PiecesInv /\ Running(r)
  /\ Shape(r) /\ Own(r) /\ Pieces(r)

\* After the step the request holds its lines so, or has ended and they are Good.
Left(r) ==
  /\ pc'[r] # "idle" => Pieces(r)'
  /\ pc'[r] = "idle" => \A c \in order'[job[r].nid].carts : Good(c)'

LEMMA TurnedLeft ==
  ASSUME NEW r \in Requests, Typed, job[r].op = "transfer", NEW dirty \in BOOLEAN,
         Turned(r, job[r].order, dirty), UNCHANGED order,
         \A c \in job[r].order.carts : Good(c)', order[job[r].nid].saved,
         ~dirty => job[r].order.carts = order[job[r].nid].carts
  PROVE  Left(r)
<1>1. job[r] \in Job
  BY DEF Typed, TypesOK
<1>2. CASE pc'[r] = "idle"
  BY <1>2 DEF Turned, Left
<1>3. CASE pc'[r] \in {"pick", "order"} /\ (pc'[r] = "order" => dirty)
           /\ job'[r] = [job[r] EXCEPT !.order = job[r].order, !.dirty = dirty]
  <2>1. /\ job'[r].nid = job[r].nid /\ job'[r].op = job[r].op
        /\ job'[r].order = job[r].order /\ job'[r].dirty = dirty
    BY <1>1, <1>3 DEF Job
  <2>2. Listed(r)'
    BY <1>3, <2>1 DEF Listed
  <2>3. Settled(r)'
    BY <2>1 DEF Settled
  <2>4. AtHand(r)'
    BY <1>3 DEF AtHand, AtLine
  <2> QED BY <1>3, <2>2, <2>3, <2>4 DEF Left, Pieces
<1> QED BY <1>2, <1>3 DEF Turned

LEMMA TransferFacts ==
  ASSUME NEW r \in Requests, Ready(r), pc[r] \in AtLine \cup {"pick"}
  PROVE  /\ job[r] \in Job /\ job[r].op = "transfer" /\ order[job[r].nid].saved
         /\ at[r] \in Carts /\ cart[at[r]] \in CartNode /\ job[r].order.carts \subseteq Carts
         /\ \A c \in job[r].order.carts : c # at[r] \/ pc[r] = "pick" => Good(c)
         /\ received[at[r]] \in Int /\ ordered[at[r]] \in Int
         /\ job[r].ask[at[r]] \in Nat /\ InUse(at[r])
<1>1. job[r] \in Job /\ at[r] \in Carts
  BY DEF Ready, Typed, TypesOK, RequestOK, Running, AtLine
<1>2. job[r].op = "transfer"
  BY <1>1 DEF Ready, Shape, Job, AtLine
<1>3. order[job[r].nid].saved
  BY <1>2 DEF Ready, Pieces, Listed
<1>4. cart[at[r]] \in CartNode /\ received[at[r]] \in Int /\ ordered[at[r]] \in Int
  BY <1>1 DEF Ready, Typed, TypesOK
<1>5. job[r].order.carts \subseteq Carts /\ job[r].ask[at[r]] \in Nat
  BY <1>1 DEF Job, OrderNode
<1>6. \A c \in job[r].order.carts : c # at[r] \/ pc[r] = "pick" => Good(c)
  BY DEF Ready, Pieces, Settled, Pending, AtLine
<1>7. InUse(at[r])
  BY <1>1 DEF Ready, Own, Mine, Pending, AtLine
<1> QED BY <1>1, <1>2, <1>3, <1>4, <1>5, <1>6, <1>7

LEMMA SaveNewCartLeft ==
  ASSUME NEW r \in Requests, Ready(r), SaveNewCart(r)
  PROVE  Left(r)
<1> DEFINE c == at[r]
<1>1. /\ pc[r] = "newcart" /\ UNCHANGED <<job, received>>
      /\ cart' = [cart EXCEPT ![c] = [state |-> "saved", pcnid |-> job[r].pcs[c],
                                      qty |-> job[r].ask[c], transferred |-> FALSE]]
      /\ ordered' = [ordered EXCEPT ![c] = job[r].ask[c]]
  BY DEF SaveNewCart
<1>2. /\ c \in Carts /\ c \in job[r].order.carts /\ job[r].op = "sale"
      /\ job[r].ask[c] > 0 /\ job[r].ask[c] \in Nat /\ job[r].order.carts \subseteq Carts
  BY <1>1 DEF Ready, Typed, TypesOK, RequestOK, Running, Shape, Job, OrderNode
<1>3. cart[c].state = "unused"
  BY <1>1, <1>2 DEF Ready, Own, Mine, Pending, InUse
<1>4. received[c] = 0
  BY <1>2, <1>3 DEF Ready, PiecesInv
<1>5. /\ cart'[c].state = "saved" /\ ~cart'[c].transferred
      /\ cart'[c].qty = job[r].ask[c] /\ ordered'[c] = job[r].ask[c]
      /\ received'[c] = 0
  BY <1>1, <1>2, <1>4 DEF Ready, Typed, TypesOK
<1>6. cart'[c].state = "saved" /\ ~cart'[c].transferred /\ cart'[c].qty > 0
      /\ received'[c] + cart'[c].qty = ordered'[c]
  BY <1>2, <1>5
<1>7. OnlyHere(r) /\ Onward(r)
  BY StepHere, SaveNewCartOnward DEF Ready, Step
<1>8. pc'[r] \in {"newcart", "order"}
  BY <1>1 DEF SaveNewCart, Ready, Typed, TypesOK
<1>9. Settled(r)'
  <2>1. SUFFICES ASSUME NEW d \in job[r].order.carts, ~Pending(r, d)'
                 PROVE  Good(d)'
    BY <1>1 DEF Settled
  <2>2. CASE d = c
    BY <1>6, <2>2 DEF Good
  <2>3. CASE d # c
    <3>1. ~Pending(r, d)
      BY <1>2, <1>7, <1>8, <2>1, <2>3 DEF Onward
    <3>2. Good(d)
      BY <1>1, <3>1 DEF Ready, Pieces, Settled, AtLine
    <3> QED BY <1>2, <1>7, <2>3, <3>2, GoodElsewhere
  <2> QED BY <2>2, <2>3
<1>10. Listed(r)'
  BY <1>1, <1>2 DEF Listed
<1>11. AtHand(r)'
  BY <1>8 DEF AtHand, AtLine
<1> QED BY <1>8, <1>9, <1>10, <1>11 DEF Left, Pieces

LEMMA PickLineLeft ==
  ASSUME NEW r \in Requests, Ready(r), PickLine(r)
  PROVE  Left(r)
<1>1. pc[r] = "pick" /\ UNCHANGED <<cart, order, ordered, received>>
  BY DEF PickLine
<1>2. /\ job[r] \in Job /\ job[r].op = "transfer" /\ order[job[r].nid].saved
      /\ at[r] \in Carts /\ \A c \in job[r].order.carts : Good(c)
      /\ job[r].order.carts \subseteq Carts /\ cart[at[r]] \in CartNode
  BY <1>1, TransferFacts
<1>3. \A c \in job[r].order.carts : Good(c)'
  BY <1>1, <1>2 DEF Good
<1>4. ~job[r].dirty => job[r].order.carts = order[job[r].nid].carts
  BY <1>1, <1>2 DEF Ready, Pieces, Listed
<1>5. CASE Turned(r, job[r].order, job[r].dirty)
  BY <1>1, <1>2, <1>3, <1>4, <1>5, TurnedLeft DEF Ready, Job
<1>6. CASE Picked(r)
  <2> DEFINE n == Asked(r, at[r], cart[at[r]])
  <2>1. /\ job'[r] = [job[r] EXCEPT !.line = cart[at[r]], !.ask[at[r]] = n]
        /\ n > 0 /\ n <= cart[at[r]].qty /\ ~cart[at[r]].transferred
        /\ pc'[r] = "find" /\ at'[r] = at[r] /\ todo'[r] = todo[r]
    BY <1>6 DEF Picked
  <2> HIDE DEF n
  <2>2. /\ job'[r].nid = job[r].nid /\ job'[r].op = job[r].op
        /\ job'[r].order = job[r].order /\ job'[r].dirty = job[r].dirty
        /\ job'[r].line = cart[at[r]] /\ job'[r].ask[at[r]] = n
    BY <1>2, <2>1 DEF Job
  <2>3. Listed(r)'
    BY <1>1, <1>2, <1>4, <2>1, <2>2 DEF Listed
  <2>4. Settled(r)'
    BY <1>3, <2>2 DEF Settled
  <2>5. at[r] \in job[r].order.carts
    BY <1>1 DEF Ready, Shape
  <2>6. received[at[r]] + cart[at[r]].qty = ordered[at[r]]
    BY <1>2, <2>5 DEF Good
  <2>7. AtHand(r)'
    BY <1>1, <2>1, <2>2, <2>6 DEF AtHand, AtLine
  <2> QED BY <2>1, <2>3, <2>4, <2>7 DEF Left, Pieces
<1> QED BY <1>5, <1>6, PickLineTyped DEF Ready

\* A step at the line that leaves the lines as they are; in, the pieces that
\* entered the shop.
LEMMA MovedLeft ==
  ASSUME NEW r \in Requests, Ready(r), pc[r] \in AtLine \ {"cart", "dropcart"},
         NEW step \in AtLine \ {"dropcart"}, Moved(r, step), UNCHANGED <<cart, order, ordered>>,
         OnlyHere(r),
         \/ /\ pc[r] \in {"find", "create"} /\ step \in {"create", "in"}
            /\ received' = received
         \/ /\ pc[r] = "in" /\ step \in {"out", "cart"}
            /\ received'[at[r]] = received[at[r]] + job[r].ask[at[r]]
         \/ /\ pc[r] \in {"out", "droppc"} /\ step \in {"droppc", "cart"}
            /\ received' = received
  PROVE  Left(r)
<1>1. /\ job[r] \in Job /\ job[r].op = "transfer" /\ order[job[r].nid].saved
      /\ at[r] \in Carts /\ cart[at[r]] \in CartNode /\ job[r].order.carts \subseteq Carts
      /\ \A c \in job[r].order.carts : c # at[r] => Good(c)
      /\ received[at[r]] \in Int /\ ordered[at[r]] \in Int /\ job[r].ask[at[r]] \in Nat
  BY TransferFacts DEF AtLine
<1>2. PICK p \in Products \cup {NoItem} : job'[r] = [job[r] EXCEPT !.product = p]
  BY DEF Moved
<1>3. /\ job'[r].nid = job[r].nid /\ job'[r].op = job[r].op
      /\ job'[r].order = job[r].order /\ job'[r].dirty = job[r].dirty
      /\ job'[r].line = job[r].line /\ job'[r].ask = job[r].ask
  BY <1>1, <1>2 DEF Job
<1>4. pc'[r] = step /\ at'[r] = at[r] /\ pc'[r] \in AtLine \ {"dropcart"}
  BY DEF Moved
<1>5. Listed(r)'
  BY <1>1, <1>3, <1>4 DEF Ready, Pieces, Listed, AtLine
<1>6. Settled(r)'
  BY <1>1, <1>3, <1>4, GoodElsewhere DEF Settled
<1>7. AtHand(r)'
  <2>1. /\ cart[at[r]] = job[r].line /\ ~cart[at[r]].transferred
        /\ job[r].ask[at[r]] > 0 /\ job[r].ask[at[r]] <= cart[at[r]].qty
    BY DEF Ready, Pieces, AtHand
  <2>2. cart[at[r]].qty \in Int
    BY <1>1 DEF CartNode
  <2>3. pc'[r] \in {"find", "create", "in"} =>
          received'[at[r]] + cart[at[r]].qty = ordered[at[r]]
    BY <1>4 DEF Ready, Pieces, AtHand
  <2>4. pc'[r] \in {"out", "droppc", "cart"} =>
          received'[at[r]] + cart[at[r]].qty - job[r].ask[at[r]] = ordered[at[r]]
    BY <1>1, <1>4, <2>2 DEF Ready, Pieces, AtHand
  <2> QED BY <1>3, <1>4, <2>1, <2>3, <2>4 DEF AtHand
<1> QED BY <1>4, <1>5, <1>6, <1>7 DEF Left, Pieces, AtLine

LEMMA SaveLineLeft ==
  ASSUME NEW r \in Requests, Ready(r), SaveLine(r)
  PROVE  Left(r)
<1> DEFINE c == at[r]
           n == job[r].ask[c]
           q == cart[c].qty
<1>1. pc[r] = "cart" /\ UNCHANGED <<order, ordered, received>>
  BY DEF SaveLine
<1>2. /\ job[r] \in Job /\ job[r].op = "transfer" /\ order[job[r].nid].saved
      /\ c \in Carts /\ cart[c] \in CartNode /\ job[r].order.carts \subseteq Carts
      /\ \A d \in job[r].order.carts : d # c => Good(d)
      /\ received[c] \in Int /\ ordered[c] \in Int /\ n \in Nat
  BY <1>1, TransferFacts DEF AtLine
<1>3. /\ job[r].line = cart[c] /\ ~cart[c].transferred /\ n > 0 /\ n <= q
      /\ received[c] + q - n = ordered[c] /\ q \in Int /\ cart[c].state = "saved"
  BY <1>1, <1>2 DEF Ready, Pieces, AtHand, AtLine, CartNode, Shape
<1>4. OnlyHere(r)
  BY StepHere DEF Ready, Step
<1>5. \A d \in job[r].order.carts : d # c => Good(d)'
  BY <1>2, <1>4, GoodElsewhere
<1>6. CASE /\ q - n <= 0 /\ job'[r] = [job[r] EXCEPT !.order = RemoveCart(@, c)]
           /\ pc'[r] = "dropcart" /\ at'[r] = c /\ todo'[r] = todo[r]
  <2>1. received[c] = ordered[c]
    BY <1>2, <1>3, <1>6
  <2>2. /\ job'[r].nid = job[r].nid /\ job'[r].op = job[r].op
        /\ job'[r].order.carts = job[r].order.carts \ {c}
    BY <1>2, <1>6 DEF Job, OrderNode, RemoveCart
  <2>3. Listed(r)'
    BY <1>1, <1>2, <1>6, <2>2 DEF Listed
  <2>4. Settled(r)'
    BY <1>5, <2>2 DEF Settled
  <2>5. AtHand(r)'
    BY <1>1, <1>6, <2>1 DEF AtHand
  <2> QED BY <1>6, <2>3, <2>4, <2>5 DEF Left, Pieces
<1>7. CASE /\ q - n > 0 /\ Put(r, [cart[c] EXCEPT !.qty = q - n])
           /\ Turned(r, job[r].order, TRUE)
  <2>1. cart'[c] = [cart[c] EXCEPT !.qty = q - n]
    BY <1>2, <1>3, <1>7 DEF Put
  <2>2. /\ cart'[c].state = "saved" /\ ~cart'[c].transferred /\ cart'[c].qty = q - n
    BY <1>2, <1>3, <2>1 DEF CartNode
  <2>3. received[c] + (q - n) = ordered[c]
    BY <1>2, <1>3
  <2>4. ASSUME NEW d \in job[r].order.carts, d = c
        PROVE  Good(d)'
    BY <1>1, <1>7, <2>2, <2>3, <2>4 DEF Good
  <2>5. \A d \in job[r].order.carts : Good(d)'
    BY <1>5, <2>4
  <2> QED BY <1>1, <1>2, <1>7, <2>5, TurnedLeft DEF Ready
<1> QED BY <1>3, <1>6, <1>7, SaveLineTyped DEF Ready

LEMMA StepLeft ==
  ASSUME NEW r \in Requests, Ready(r), Step(r)
  PROVE  Left(r)
<1>1. OnlyHere(r)
  BY StepHere DEF Ready
<1>2. CASE FindProduct(r)
  <2>1. /\ pc[r] = "find" /\ received' = received /\ UNCHANGED <<cart, order, ordered>>
        /\ pc[r] \in AtLine \ {"cart", "dropcart"}
        /\ "in" \in AtLine \ {"dropcart"} /\ "create" \in AtLine \ {"dropcart"}
    BY <1>2 DEF FindProduct, AtLine
  <2> QED BY <1>1, <1>2, <2>1, FindProductTyped, MovedLeft DEF Ready
<1>3. CASE CreateProduct(r)
  <2>1. /\ pc[r] = "create" /\ received' = received /\ UNCHANGED <<cart, order, ordered>>
        /\ pc[r] \in AtLine \ {"cart", "dropcart"} /\ "in" \in AtLine \ {"dropcart"}
    BY <1>3 DEF CreateProduct, AtLine
  <2> QED BY <1>1, <1>3, <2>1, CreateProductTyped, MovedLeft DEF Ready
<1>4. CASE StockIn(r)
  <2>1. /\ pc[r] = "in" /\ UNCHANGED <<cart, order, ordered>>
        /\ received' = [received EXCEPT ![at[r]] = @ + job[r].ask[at[r]]]
        /\ Moved(r, "out") \/ Moved(r, "cart")
    BY <1>4, StockInTyped DEF Ready
  <2>2. /\ pc[r] \in AtLine \ {"cart", "dropcart"} /\ pc[r] \in AtLine \cup {"pick"}
        /\ "out" \in AtLine \ {"dropcart"} /\ "cart" \in AtLine \ {"dropcart"}
    BY <2>1 DEF AtLine
  <2>3. at[r] \in Carts
    BY <2>2, TransferFacts
  <2>4. received'[at[r]] = received[at[r]] + job[r].ask[at[r]]
    BY <2>1, <2>3 DEF Ready, Typed, TypesOK
  <2> QED BY <1>1, <2>1, <2>2, <2>4, MovedLeft
<1>5. CASE StockOut(r)
  <2>1. /\ pc[r] = "out" /\ received' = received /\ UNCHANGED <<cart, order, ordered>>
        /\ pc[r] \in AtLine \ {"cart", "dropcart"} /\ "droppc" \in AtLine \ {"dropcart"}
    BY <1>5 DEF StockOut, AtLine
  <2> QED BY <1>1, <1>5, <2>1, StockOutTyped, MovedLeft DEF Ready
<1>6. CASE DropCommande(r)
  <2>1. /\ pc[r] = "droppc" /\ received' = received /\ UNCHANGED <<cart, order, ordered>>
        /\ pc[r] \in AtLine \ {"cart", "dropcart"} /\ "cart" \in AtLine \ {"dropcart"}
    BY <1>6 DEF DropCommande, AtLine
  <2> QED BY <1>1, <1>6, <2>1, DropCommandeTyped, MovedLeft DEF Ready
<1>7. CASE DropLine(r)
  <2>1. /\ pc[r] = "dropcart" /\ UNCHANGED order /\ pc[r] \in AtLine \cup {"pick"}
    BY <1>7 DEF DropLine, AtLine
  <2>2. /\ job[r].op = "transfer" /\ order[job[r].nid].saved
        /\ job[r].order.carts \subseteq Carts
        /\ \A d \in job[r].order.carts : d # at[r] => Good(d)
    BY <2>1, TransferFacts
  <2>3. at[r] \notin job[r].order.carts
    BY <2>1 DEF Ready, Shape
  <2>4. \A d \in job[r].order.carts : Good(d)'
    BY <1>1, <2>2, <2>3, GoodElsewhere
  <2> QED BY <1>7, <2>1, <2>2, <2>4, DropLineTyped, TurnedLeft DEF Ready
<1>8. CASE SaveOrder(r)
  <2>1. /\ pc[r] = "order" /\ order' = [order EXCEPT ![job[r].nid] = job[r].order]
        /\ UNCHANGED <<cart, ordered, received>> /\ pc'[r] = "idle"
    BY <1>8, SaveOrderTyped DEF SaveOrder, Ready
  <2>2. job[r].nid \in Orders
    BY DEF Ready, Typed, RequestOK
  <2>3. order'[job[r].nid].carts = job[r].order.carts
    BY <2>1, <2>2 DEF Ready, Typed, TypesOK
  <2>4. \A c \in job[r].order.carts : Good(c)'
    BY <2>1 DEF Ready, Pieces, Settled, Pending, AtLine, Good
  <2> QED BY <2>1, <2>3, <2>4 DEF Left
<1> QED BY <1>2, <1>3, <1>4, <1>5, <1>6, <1>7, <1>8, SaveNewCartLeft, PickLineLeft,
           SaveLineLeft DEF Step

LEMMA UnusedEmpty ==
  ASSUME Typed, LinesInv, PiecesInv, NEW r \in Requests,
         Step(r) \/ LineError(r) \/ Crash(r), Onward(r), Running(r),
         NEW c \in Carts, cart'[c].state = "unused"
  PROVE  received'[c] = 0
<1>1. cart[c].state = "unused" /\ received[c] = 0
  BY DEF Onward, InUse, PiecesInv
<1>2. CASE StockIn(r)
  <2>1. pc[r] = "in" /\ received' = [received EXCEPT ![at[r]] = @ + job[r].ask[at[r]]]
    BY <1>2 DEF StockIn
  <2>2. c # at[r]
    BY <1>1, <2>1 DEF LinesInv, Own, Mine, Pending, InUse
  <2> QED BY <1>1, <2>1, <2>2 DEF Typed, TypesOK
<1>3. CASE ~StockIn(r)
  <2>1. received' = received
    BY <1>3 DEF Step, SaveNewCart, PickLine, FindProduct, CreateProduct, StockOut,
       DropCommande, SaveLine, DropLine, SaveOrder, LineError, Crash
  <2> QED BY <1>1, <2>1
<1> QED BY <1>2, <1>3

LEMMA StepKeepsPieces ==
  ASSUME Typed, LinesInv, PiecesInv, NEW r \in Requests,
         Step(r) \/ LineError(r) \/ Crash(r)
  PROVE  PiecesInv'
<1>1. Running(r) /\ OthersStay(r) /\ Onward(r) /\ OnlyHere(r)
  BY StepOnward, StepHere
<1>2. \A c \in Carts : cart'[c].state = "unused" => received'[c] = 0
  BY <1>1, UnusedEmpty
<1>3. PICK o \in Orders : o = job[r].nid
  BY <1>1 DEF Typed, RequestOK
<1>4. ASSUME Sound(o)'
      PROVE  Left(r)
  <2>1. Sound(o) /\ o \notin torn'
    BY <1>1, <1>4 DEF Sound, OnlyHere
  <2>2. Step(r)
    BY <1>3, <2>1, LineErrorTyped, CrashTyped
  <2>3. Ready(r)
    BY <1>1, <1>3, <2>1 DEF Ready, LinesInv, PiecesInv
  <2> QED BY <2>2, <2>3, StepLeft
<1>5. ASSUME NEW p \in Orders, Sound(p)', ~Busy(p)', NEW c \in order'[p].carts
      PROVE  Good(c)'
  <2>1. CASE p = o
    <3>1. pc'[r] = "idle"
      BY <1>1, <1>3, <1>5, <2>1 DEF Busy, Onward
    <3> QED BY <1>3, <1>4, <1>5, <2>1, <3>1 DEF Left
  <2>2. CASE p # o
    BY <1>1, <1>3, <1>5, <2>2, PiecesElsewhere
  <2> QED BY <2>1, <2>2
<1>6. ASSUME NEW q \in Requests, Running(q)', Sound(job[q].nid)'
      PROVE  Pieces(q)'
  <2>1. CASE q = r
    <3>1. pc'[r] # "idle" /\ job'[r].nid = o
      BY <1>1, <1>3, <1>6, <2>1 DEF Running, Onward
    <3>2. Sound(o)'
      BY <1>6, <2>1, <3>1 DEF Sound
    <3> QED BY <1>4, <2>1, <3>1, <3>2 DEF Left
  <2>2. CASE q # r
    BY <1>1, <1>6, <2>2, PiecesOfOthers
  <2> QED BY <2>1, <2>2
<1> QED BY <1>2, <1>5, <1>6 DEF PiecesInv

LEMMA PiecesUntouched ==
  ASSUME PiecesInv, NEW r \in Requests, OthersStay(r),
         UNCHANGED <<cart, order, ordered, received, torn>>,
         NEW q \in Requests \ {r}, Running(q)', Sound(job[q].nid)'
  PROVE  Pieces(q)'
<1>1. /\ pc'[q] = pc[q] /\ job'[q] = job[q] /\ at'[q] = at[q] /\ todo'[q] = todo[q]
      /\ Running(q) /\ Sound(job[q].nid)
  BY DEF OthersStay, Running, Sound
<1>2. Pieces(q)
  BY <1>1 DEF PiecesInv
<1> QED BY <1>1, <1>2 DEF Pieces, Listed, Settled, AtHand, Pending, Good

LEMMA SaleKeepsPieces ==
  ASSUME Typed, LinesInv, PiecesInv, NEW r \in Requests, NEW o \in Orders, Sale(r, o)
  PROVE  PiecesInv'
<1>1. PICK S \in SUBSET Carts, node \in OrderNode, ask \in [Carts -> Nat],
           pcs \in [Carts -> Commandes \cup {NoItem}] :
        Begun(r, "sale", o, node, ask, pcs, S, "newcart") /\ node.carts = S
  BY SaleBegins
<1>2. OthersStay(r)
  BY SaleBegins
<1>3. job'[r].op = "sale" /\ job'[r].nid = o /\ job'[r].order = node
  BY <1>1, BegunFacts
<1>4. /\ pc[r] = "idle" /\ pc'[r] = "newcart" /\ at'[r] \in S /\ todo'[r] = S \ {at'[r]}
      /\ UNCHANGED <<cart, order, ordered, received, torn>>
  BY <1>1 DEF Begun
<1>5. Listed(r)' /\ Settled(r)' /\ AtHand(r)'
  BY <1>1, <1>3, <1>4 DEF Listed, Settled, AtHand, Pending, AtLine
<1>6. \A q \in Requests \ {r} : Running(q)' /\ Sound(job[q].nid)' => Pieces(q)'
  BY <1>2, <1>4, PiecesUntouched
<1>7. ASSUME NEW p \in Orders, Sound(p)', ~Busy(p)', NEW c \in order'[p].carts
      PROVE  Good(c)'
  <2>1. Sound(p) /\ ~Busy(p) /\ c \in order[p].carts
    BY <1>2, <1>4, <1>7 DEF Sound, Busy, OthersStay
  <2> QED BY <1>4, <2>1 DEF PiecesInv, Good
<1>8. \A c \in Carts : cart'[c].state = "unused" => received'[c] = 0
  BY <1>4 DEF PiecesInv
<1> QED BY <1>5, <1>6, <1>7, <1>8 DEF PiecesInv, Pieces

LEMMA TransferKeepsPieces ==
  ASSUME Typed, LinesInv, PiecesInv, NEW r \in Requests, NEW o \in Orders, Transfer(r, o)
  PROVE  PiecesInv'
<1>1. PICK S \in SUBSET order[o].carts, ask \in [Carts -> Nat],
           pcs \in [Carts -> Commandes \cup {NoItem}] :
        /\ Begun(r, "transfer", o, order[o], ask, pcs, S, "pick")
        /\ order[o].saved /\ (o \in SharedOrders \/ ~Busy(o))
  BY TransferBegins
<1>2. OthersStay(r)
  BY TransferBegins
<1>3. /\ job'[r].op = "transfer" /\ job'[r].nid = o /\ job'[r].order = order[o]
      /\ job'[r].dirty = FALSE
  BY <1>1, BegunFacts
<1>4. /\ pc[r] = "idle" /\ pc'[r] = "pick"
      /\ UNCHANGED <<cart, order, ordered, received, torn>>
  BY <1>1 DEF Begun
<1>5. Listed(r)' /\ AtHand(r)'
  BY <1>1, <1>3, <1>4 DEF Listed, AtHand, AtLine
<1>6. Sound(o)' => Settled(r)'
  <2>1. Sound(o)' => \A c \in order[o].carts : Good(c)
    BY <1>1, <1>4 DEF Sound, PiecesInv
  <2> QED BY <1>3, <1>4, <2>1 DEF Settled, Good
<1>7. Running(r)' /\ Sound(job[r].nid)' => Pieces(r)'
  BY <1>3, <1>5, <1>6 DEF Pieces, Sound
<1>8. \A q \in Requests \ {r} : Running(q)' /\ Sound(job[q].nid)' => Pieces(q)'
  BY <1>2, <1>4, PiecesUntouched
<1>9. ASSUME NEW p \in Orders, Sound(p)', ~Busy(p)', NEW c \in order'[p].carts
      PROVE  Good(c)'
  <2>1. Sound(p) /\ ~Busy(p) /\ c \in order[p].carts
    BY <1>2, <1>4, <1>9 DEF Sound, Busy, OthersStay
  <2> QED BY <1>4, <2>1 DEF PiecesInv, Good
<1>10. \A c \in Carts : cart'[c].state = "unused" => received'[c] = 0
  BY <1>4 DEF PiecesInv
<1> QED BY <1>7, <1>8, <1>9, <1>10 DEF PiecesInv

LEMMA CancelKeepsPieces ==
  ASSUME Typed, PiecesInv, NEW o \in Orders, CancelCommande(o)
  PROVE  PiecesInv'
<1>1. /\ order' = [order EXCEPT ![o].cancelled = TRUE]
      /\ UNCHANGED <<cart, pc, job, at, todo, ordered, received, torn>>
  BY CancelTyped
<1>2. \A p \in Orders : /\ order'[p].saved = order[p].saved
                         /\ order'[p].carts = order[p].carts
  BY <1>1 DEF Typed, TypesOK, OrderNode
<1>3. \A c \in Carts : Good(c)' <=> Good(c)
  BY <1>1 DEF Good
<1>4. ASSUME NEW r \in Requests, Running(r)', Sound(job[r].nid)'
      PROVE  Pieces(r)'
  <2>1. Running(r) /\ Sound(job[r].nid) /\ Pieces(r) /\ job[r].nid \in Orders
    BY <1>1, <1>4 DEF Running, Sound, PiecesInv, Typed, RequestOK
  <2>2. Listed(r)'
    BY <1>1, <1>2, <2>1 DEF Pieces, Listed
  <2> QED BY <1>1, <2>1, <2>2 DEF Pieces, Settled, AtHand, Pending, Good
<1>5. ASSUME NEW p \in Orders, Sound(p)', ~Busy(p)', NEW c \in order'[p].carts
      PROVE  Good(c)'
  <2>1. Sound(p) /\ ~Busy(p) /\ c \in order[p].carts
    BY <1>1, <1>2, <1>5 DEF Sound, Busy
  <2> QED BY <1>1, <2>1 DEF PiecesInv, Good
<1> QED BY <1>1, <1>4, <1>5 DEF PiecesInv

LEMMA LinesInvariant == Spec => [](Typed /\ LinesInv /\ PiecesInv)
<1>1. ASSUME Init
      PROVE  Typed /\ LinesInv /\ PiecesInv
  <2>1. \A c \in Carts : cart[c].state = "unused" /\ received[c] = 0
    BY <1>1 DEF Init, NoLine
  <2>2. \A o \in Orders : order[o] = Blank /\ order[o].carts = {}
    BY <1>1 DEF Init, Blank
  <2>3. \A r \in Requests : ~Running(r)
    BY <1>1 DEF Init, Running
  <2> QED BY <1>1, <2>1, <2>2, <2>3, TypedAtFirst DEF LinesInv, OrderOK, PiecesInv
<1>2. ASSUME Typed, LinesInv, PiecesInv, [Next]_vars
      PROVE  Typed' /\ LinesInv' /\ PiecesInv'
  <2>1. Typed' /\ LinesInv'
    BY <1>2, TypedKept, LinesKept
  <2>2. ASSUME NEW r \in Requests, NEW o \in Orders, Sale(r, o) \/ Transfer(r, o)
        PROVE  PiecesInv'
    BY <1>2, <2>2, SaleKeepsPieces, TransferKeepsPieces
  <2>3. ASSUME NEW o \in Orders, CancelCommande(o)
        PROVE  PiecesInv'
    BY <1>2, <2>3, CancelKeepsPieces
  <2>4. ASSUME NEW r \in Requests, Step(r) \/ LineError(r) \/ Crash(r)
        PROVE  PiecesInv'
    BY <1>2, <2>4, StepKeepsPieces
  <2>5. ASSUME UNCHANGED vars
        PROVE  PiecesInv'
    <3>1. UNCHANGED <<cart, order, pc, job, at, todo, ordered, received, torn>>
      BY <2>5 DEF vars
    <3>2. \A c \in Carts : cart'[c].state = "unused" => received'[c] = 0
      BY <1>2, <3>1 DEF PiecesInv
    <3>3. ASSUME NEW o \in Orders, Sound(o)', ~Busy(o)', NEW c \in order'[o].carts
          PROVE  Good(c)'
      BY <1>2, <3>1, <3>3 DEF PiecesInv, Sound, Busy, Good
    <3>4. ASSUME NEW r \in Requests, Running(r)', Sound(job[r].nid)'
          PROVE  Pieces(r)'
      <4>1. Pieces(r)
        BY <1>2, <3>1, <3>4 DEF PiecesInv, Sound, Running
      <4> QED BY <3>1, <4>1 DEF Pieces, Listed, Settled, AtHand, Pending, Good
    <3> QED BY <3>2, <3>3, <3>4 DEF PiecesInv
  <2> QED BY <1>2, <2>1, <2>2, <2>3, <2>4, <2>5 DEF Next
<1> QED BY <1>1, <1>2, PTL DEF Spec

(* The pieces of a line that entered the shop and those that remain on it  *)
(* are the pieces ordered, once no request works on its order, unless one  *)
(* stopped half-way: transferCartLinesToBoutique loses no piece and brings *)
(* none in twice, whatever part of each line it is asked to transfer.      *)
THEOREM PiecesNeverLost == Spec => []PiecesConserved
<1>1. Typed /\ LinesInv /\ PiecesInv => PiecesConserved
  BY DEF Typed, RequestOK, PiecesInv, Sound, Good, Pieces, AtHand, Running, PiecesConserved
<1> QED BY <1>1, LinesInvariant, PTL

(* An order at rest lists lines that still have pieces to transfer, and no *)
(* other: removeCartFromOrder takes a line off with its last piece.        *)
THEOREM OpenLinesStayListed == Spec => []OpenLinesListed
<1>1. PiecesInv => OpenLinesListed
  BY DEF PiecesInv, Sound, Good, OpenLinesListed
<1> QED BY <1>1, LinesInvariant, PTL

-----------------------------------------------------------------------------
(* How many products of the shop have one SKU.                             *)

\* The requests that found none and are about to create one.
Creators(sku) == {r \in Requests : pc[r] = "create" /\ item[job[r].line.pcnid].sku = sku}

FewOf(sku) ==
  Cardinality(WithSku(sku)) + Cardinality(Creators(sku)) <= Cardinality(Requests)

\* A step that creates no product changes no SKU and no product's presence.
LEMMA SkusKept ==
  ASSUME Typed, [Next]_vars, \A r \in Requests : ~CreateProduct(r)
  PROVE  /\ \A x \in Items : item'[x].sku = item[x].sku
         /\ \A p \in Products : item'[p].state = item[p].state
<1>1. item \in [Items -> ItemNode] /\ Products \cap Commandes = {}
  BY TransferAssumption DEF Typed, TypesOK
<1>2. ASSUME NEW r \in Requests, StockIn(r) \/ StockOut(r)
      PROVE  \A x \in Items : item'[x].sku = item[x].sku /\ item'[x].state = item[x].state
  <2>1. \/ item' = item
        \/ \E y, v : item' = [item EXCEPT ![y].qty = v]
    BY <1>2 DEF StockIn, StockOut
  <2> QED BY <1>1, <2>1 DEF ItemNode
<1>3. ASSUME NEW r \in Requests, DropCommande(r)
      PROVE  /\ \A x \in Items : item'[x].sku = item[x].sku
             /\ \A p \in Products : item'[p].state = item[p].state
  <2>1. job[r].line.pcnid \in Commandes
    BY <1>3 DEF DropCommande, Typed, RequestOK, Running, AtLine
  <2>2. item' = item \/ item' = [item EXCEPT ![job[r].line.pcnid].state = "deleted"]
    BY <1>3 DEF DropCommande
  <2> QED BY <1>1, <2>1, <2>2 DEF ItemNode, Items
<1>4. ASSUME NEW r \in Requests,
             \/ SaveNewCart(r) \/ PickLine(r) \/ FindProduct(r) \/ SaveLine(r)
             \/ DropLine(r) \/ SaveOrder(r) \/ LineError(r) \/ Crash(r)
      PROVE  item' = item
  BY <1>4 DEF SaveNewCart, PickLine, FindProduct, SaveLine, DropLine, SaveOrder,
              LineError, Crash
<1>5. ASSUME NEW r \in Requests, NEW o \in Orders, Sale(r, o) \/ Transfer(r, o)
      PROVE  item' = item
  BY <1>5, SaleBegins, TransferBegins DEF Begun
<1>6. ASSUME NEW o \in Orders, CancelCommande(o)
      PROVE  item' = item
  BY <1>6 DEF CancelCommande
<1>7. CASE UNCHANGED vars
  BY <1>7 DEF vars, Items
<1> QED BY <1>2, <1>3, <1>4, <1>5, <1>6, <1>7 DEF Next, Step, Items

\* A request is about to create a product when it found none, and till then.
LEMMA CreatorsKept ==
  ASSUME Typed, [Next]_vars, \A x \in Commandes : item'[x].sku = item[x].sku,
         NEW sku \in Skus, Trimmed[sku] = sku
  PROVE  \/ Creators(sku)' \subseteq Creators(sku)
         \/ WithSku(sku) = {} /\ \A r \in Requests : ~CreateProduct(r)
<1>1. ASSUME NEW r \in Requests, OthersStay(r), pc'[r] # "create"
      PROVE  Creators(sku)' \subseteq Creators(sku)
  BY <1>1 DEF Creators, OthersStay, Typed, RequestOK, Running, AtLine
<1>2. ASSUME NEW r \in Requests, NEW o \in Orders, Sale(r, o) \/ Transfer(r, o)
      PROVE  Creators(sku)' \subseteq Creators(sku)
  BY <1>1, <1>2, SaleBegins, TransferBegins DEF Begun
<1>3. CASE UNCHANGED vars \/ \E o \in Orders : CancelCommande(o)
  <2>1. UNCHANGED <<item, pc, job>>
    BY <1>3 DEF vars, CancelCommande
  <2> QED BY <2>1 DEF Creators
<1>4. ASSUME NEW r \in Requests, (Step(r) /\ ~FindProduct(r)) \/ LineError(r) \/ Crash(r)
      PROVE  OthersStay(r) /\ pc'[r] # "create"
  <2>1. OthersStay(r)
    BY <1>4, SaveNewCartTyped, PickLineTyped, CreateProductTyped, StockInTyped,
       StockOutTyped, DropCommandeTyped, SaveLineTyped, DropLineTyped, SaveOrderTyped,
       LineErrorTyped, CrashTyped DEF Step
  <2>2. CASE SaveNewCart(r)
    BY <2>1, <2>2 DEF SaveNewCart, Typed, TypesOK
  <2>3. CASE PickLine(r) \/ SaveLine(r) \/ DropLine(r) \/ LineError(r)
    BY <2>3, PickLineTyped, SaveLineTyped, DropLineTyped, LineErrorTyped DEF Picked, Turned
  <2>4. CASE CreateProduct(r) \/ StockIn(r) \/ StockOut(r) \/ DropCommande(r)
    BY <2>4, CreateProductTyped, StockInTyped, StockOutTyped, DropCommandeTyped DEF Moved
  <2>5. CASE SaveOrder(r) \/ Crash(r)
    BY <2>5, SaveOrderTyped, CrashTyped
  <2> QED BY <1>4, <2>1, <2>2, <2>3, <2>4, <2>5 DEF Step
<1>5. ASSUME NEW r \in Requests, FindProduct(r)
      PROVE  \/ Creators(sku)' \subseteq Creators(sku)
             \/ WithSku(sku) = {} /\ \A q \in Requests : ~CreateProduct(q)
  <2> DEFINE s == item[job[r].line.pcnid].sku
  <2>1. /\ OthersStay(r) /\ item' = item /\ pc[r] = "find"
        /\ \A q \in Requests \ {r} : pc'[q] = pc[q] /\ pc'[r] # pc[r]
    BY <1>5, FindProductTyped DEF FindProduct, Moved, OthersStay
  <2>2. \A q \in Requests : ~CreateProduct(q)
    BY <1>5, <2>1 DEF CreateProduct, FindProduct, Typed, TypesOK
  <2>3. CASE Trimmed[s] # NoSku /\ WithSku(Trimmed[s]) # {}
    <3>1. pc'[r] # "create"
      BY <1>5, <2>3 DEF FindProduct, Typed, TypesOK
    <3> QED BY <1>1, <2>1, <3>1
  <2>4. CASE ~(Trimmed[s] # NoSku /\ WithSku(Trimmed[s]) # {})
    <3>1. UNCHANGED job
      BY <1>5, <2>4 DEF FindProduct
    <3>2. CASE s = sku
      BY <2>2, <2>4, <3>2, TransferAssumption
    <3>3. CASE s # sku
      BY <2>1, <3>1, <3>3 DEF Creators, OthersStay
    <3> QED BY <3>2, <3>3
  <2> QED BY <2>3, <2>4
<1> QED BY <1>1, <1>2, <1>3, <1>4, <1>5 DEF Next, Step

LEMMA FewKept ==
  ASSUME IsFiniteSet(Requests), IsFiniteSet(Products), Typed, [Next]_vars,
         NEW sku \in Skus, Trimmed[sku] = sku, FewOf(sku)
  PROVE  FewOf(sku)'
<1>1. /\ IsFiniteSet(WithSku(sku)) /\ IsFiniteSet(WithSku(sku)')
      /\ IsFiniteSet(Creators(sku)) /\ IsFiniteSet(Creators(sku)')
  <2>1. WithSku(sku) \subseteq Products /\ WithSku(sku)' \subseteq Products
    BY DEF WithSku
  <2>2. Creators(sku) \subseteq Requests /\ Creators(sku)' \subseteq Requests
    BY DEF Creators
  <2> QED BY <2>1, <2>2, FS_Subset
<1>2. /\ Cardinality(WithSku(sku)) \in Nat /\ Cardinality(Creators(sku)) \in Nat
      /\ Cardinality(WithSku(sku)') \in Nat /\ Cardinality(Creators(sku)') \in Nat
      /\ Cardinality(Requests) \in Nat
  BY <1>1, FS_CardinalityType
<1>3. SUFFICES Cardinality(WithSku(sku)') + Cardinality(Creators(sku)')
                 <= Cardinality(Requests)
  BY DEF FewOf
<1>4. Cardinality(WithSku(sku)) + Cardinality(Creators(sku)) <= Cardinality(Requests)
  BY DEF FewOf
<1>5. CASE \A r \in Requests : ~CreateProduct(r)
  <2>1. WithSku(sku)' = WithSku(sku) /\ \A x \in Commandes : item'[x].sku = item[x].sku
    BY <1>5, SkusKept DEF WithSku, Items
  <2>2. CASE Creators(sku)' \subseteq Creators(sku)
    <3>1. Cardinality(Creators(sku)') <= Cardinality(Creators(sku))
      BY <1>1, <2>2, FS_Subset
    <3> QED BY <1>2, <1>4, <2>1, <3>1
  <2>3. CASE WithSku(sku) = {}
    <3>1. Cardinality(WithSku(sku)') = 0
      BY <2>1, <2>3, FS_EmptySet
    <3>2. Cardinality(Creators(sku)') <= Cardinality(Requests)
      BY FS_Subset DEF Creators
    <3> QED BY <1>2, <3>1, <3>2
  <2> QED BY <2>1, <2>2, <2>3, CreatorsKept
<1>6. ASSUME NEW r \in Requests, CreateProduct(r)
      PROVE  Cardinality(WithSku(sku)') + Cardinality(Creators(sku)') <= Cardinality(Requests)
  <2> DEFINE s == item[job[r].line.pcnid].sku
  <2>1. PICK p \in Products :
          /\ item[p].state = "unused"
          /\ item' = [item EXCEPT ![p] = [state |-> "saved", qty |-> 0, sku |-> s]]
    BY <1>6 DEF CreateProduct
  <2>2. /\ item \in [Items -> ItemNode] /\ Products \cap Commandes = {} /\ p \in Items
        /\ job[r].line.pcnid \in Commandes /\ pc[r] = "create"
    BY <1>6, TransferAssumption
       DEF Typed, TypesOK, RequestOK, Running, AtLine, CreateProduct, Items
  <2>3. /\ \A x \in Items \ {p} : item'[x] = item[x]
        /\ item'[p].state = "saved" /\ item'[p].sku = s
    BY <2>1, <2>2
  <2>4. \A x \in Commandes : item'[x].sku = item[x].sku
    BY <2>2, <2>3 DEF Items
  <2>5. pc'[r] = "in" /\ OthersStay(r)
    BY <1>6, CreateProductTyped DEF Moved
  <2>6. Creators(sku)' \subseteq Creators(sku) \ {r}
    BY <2>4, <2>5 DEF Creators, OthersStay, Typed, RequestOK, Running, AtLine
  <2>7. Cardinality(Creators(sku)') <= Cardinality(Creators(sku) \ {r})
    BY <1>1, <2>6, FS_Subset, FS_RemoveElement
  <2>8. CASE s = sku
    <3>1. r \in Creators(sku)
      BY <2>2, <2>8 DEF Creators
    <3>2. Cardinality(Creators(sku) \ {r}) = Cardinality(Creators(sku)) - 1
      BY <1>1, <3>1, FS_RemoveElement
    <3>3. WithSku(sku)' = WithSku(sku) \cup {p}
      BY <2>3, <2>8 DEF WithSku, Items
    <3>4. Cardinality(WithSku(sku)') <= Cardinality(WithSku(sku)) + 1
      <4>1. Cardinality(WithSku(sku) \cup {p}) \in {Cardinality(WithSku(sku)),
                                                    Cardinality(WithSku(sku)) + 1}
        BY <1>1, FS_AddElement
      <4>2. Cardinality(WithSku(sku)') \in {Cardinality(WithSku(sku)),
                                            Cardinality(WithSku(sku)) + 1}
        BY <3>3, <4>1
      <4> QED BY <1>2, <4>2
    <3> QED BY <1>2, <1>4, <2>7, <3>2, <3>4
  <2>9. CASE s # sku
    <3>1. WithSku(sku)' = WithSku(sku)
      BY <2>1, <2>3, <2>9 DEF WithSku, Items
    <3>2. Cardinality(Creators(sku)') <= Cardinality(Creators(sku))
      BY <1>1, <2>6, FS_Subset
    <3> QED BY <1>2, <1>4, <3>1, <3>2
  <2> QED BY <2>8, <2>9
<1> QED BY <1>5, <1>6

(* A product is created only for a SKU the shop had none of when it was    *)
(* looked up: unless there were more at first, at most as many products    *)
(* have one SKU, if it has no blanks around it, as requests run at a time. *)
THEOREM FewProductsForASku ==
  ASSUME IsFiniteSet(Requests), IsFiniteSet(Products),
         \A sku \in Skus :
           Cardinality({p \in Products : /\ InitialNodes[p].state = "saved"
                                         /\ InitialNodes[p].sku = sku})
             <= Cardinality(Requests)
  PROVE  Spec => []FewProductsPerSku
<1> DEFINE Few == Typed /\ \A sku \in {s \in Skus : Trimmed[s] = s} : FewOf(sku)
<1>1. Init => Few
  <2>1. SUFFICES ASSUME Init, NEW sku \in Skus
                 PROVE  FewOf(sku)
    BY TypedAtFirst
  <2>2. WithSku(sku) = {p \in Products : /\ InitialNodes[p].state = "saved"
                                         /\ InitialNodes[p].sku = sku}
    BY <2>1 DEF WithSku, Init
  <2>3. Creators(sku) = {}
    BY <2>1 DEF Creators, Init
  <2>4. Cardinality(WithSku(sku)) \in Nat
    BY FS_Subset, FS_CardinalityType DEF WithSku
  <2> QED BY <2>2, <2>3, <2>4, FS_EmptySet DEF FewOf
<1>2. Few /\ [Next]_vars => Few'
  BY TypedKept, FewKept
<1>3. Few => FewProductsPerSku
  <2>1. SUFFICES ASSUME Few, NEW sku \in Skus, Trimmed[sku] = sku
                 PROVE  Cardinality(WithSku(sku)) <= Cardinality(Requests)
    BY DEF FewProductsPerSku, WithSku
  <2>2. IsFiniteSet(WithSku(sku)) /\ IsFiniteSet(Creators(sku))
    BY FS_Subset DEF WithSku, Creators
  <2>3. /\ Cardinality(WithSku(sku)) \in Nat /\ Cardinality(Creators(sku)) \in Nat
        /\ Cardinality(Requests) \in Nat
    BY <2>2, FS_CardinalityType
  <2>4. Cardinality(WithSku(sku)) + Cardinality(Creators(sku)) <= Cardinality(Requests)
    BY <2>1 DEF FewOf
  <2> QED BY <2>3, <2>4
<1> QED BY <1>1, <1>2, <1>3, PTL DEF Spec
================================================================================
