----------------------------- MODULE StockLedger -----------------------------
(***************************************************************************)
(* What the sales of the shop promise about its stock, whatever they do:   *)
(* pieces leave and come back one movement at a time.  A movement is about *)
(* one line of an order and one product; the quantity of the product, the  *)
(* book of its movements and the pieces the line holds change together and *)
(* by the same amount, and no movement takes more than there is, but for   *)
(* the products of Unguarded.  LocalSale implements it when one request    *)
(* runs at a time.                                                         *)
(***************************************************************************)
EXTENDS Integers

CONSTANTS
  Products,
  Lines,         \* the lines of all orders
  InitialStock,
  Unguarded      \* products a sale may name in two items

VARIABLES
  stock,         \* the quantity of each product
  moved,         \* the book: what came in less what went out
  held           \* pieces the line c has taken out

Init ==
  /\ stock = InitialStock
  /\ moved = [p \in Products |-> 0]
  /\ held = [c \in Lines |-> 0]

\* The movement the book gets for p; any amount can be moved.
Amount(p) == moved'[p] - moved[p]

Move(c, p) ==
  /\ Amount(p) < 0 /\ p \notin Unguarded => stock[p] + Amount(p) >= 0
  /\ moved' = [moved EXCEPT ![p] = @ + Amount(p)]
  /\ stock' = [stock EXCEPT ![p] = @ + Amount(p)]
  /\ held' = [held EXCEPT ![c] = @ - Amount(p)]

Next == \E c \in Lines, p \in Products : Move(c, p)

Spec == Init /\ [][Next]_<<stock, moved, held>>
=============================================================================
