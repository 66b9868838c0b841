--------------------------- MODULE MC_OrderTotals ---------------------------
(* Small instances of OrderTotals.                                         *)
EXTENDS OrderTotals, TLC

MCPrice == [p \in Products |-> 2]

\* The nids are interchangeable, but for those the constants single out.
Nids == Permutations(Carts) \cup Permutations(Requests)
        \cup Permutations(SharedOrders) \cup Permutations(Orders \ SharedOrders)
=============================================================================
