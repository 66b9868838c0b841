---------------------------- MODULE MC_LocalSale ----------------------------
(* Small instances of LocalSale.                                           *)
EXTENDS LocalSale, TLC

MCStock == [p \in Products |-> 2]

\* Every change of status UpdateStatusLocal accepts, two live statuses kept.
AnyStep == {"sortie", "livre_np", "annuler"} \X {"sortie", "livre_np", "annuler"}

\* Clients that cancel with CancelOrderLocal and leave cancelled orders alone.
LiveSteps == {<<"sortie", "livre_np">>, <<"livre_np", "sortie">>}

\* The nids are interchangeable, but for those the constants single out.
Nids == Permutations(Carts) \cup Permutations(Requests)
        \cup Permutations(SharedOrders) \cup Permutations(Orders \ SharedOrders)
        \cup Permutations(RepeatProducts)
        \cup Permutations(Products \ RepeatProducts)
=============================================================================
