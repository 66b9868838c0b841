------------------------ MODULE MC_TransferBoutique ------------------------
(* Small instances of TransferBoutique.                                    *)
EXTENDS TransferBoutique, TLC

CONSTANTS m1, m2, s1, s2

\* A product_commande of two pieces with a SKU, and one of one piece with the
\* same between blanks; the shop has no product.
MCNodes ==
  [x \in Items |->
     IF x \in Products THEN [state |-> "unused", sku |-> NoSku, qty |-> 0]
     ELSE IF x = m1 THEN [state |-> "saved", sku |-> s1, qty |-> 2]
     ELSE [state |-> "saved", sku |-> s2, qty |-> 1]]

MCTrimmed == [s \in {s1, s2, NoSku} |-> IF s = s2 THEN s1 ELSE s]

\* The nids are interchangeable, but for those the constants single out.
Nids == Permutations(Products) \cup Permutations(Carts) \cup Permutations(Requests)
        \cup Permutations(SharedOrders) \cup Permutations(Orders \ SharedOrders)
=============================================================================
