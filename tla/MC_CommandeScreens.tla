-------------------------- MODULE MC_CommandeScreens --------------------------
(* One order of one line, a detail screen of an administrator and a second *)
(* screen, for TLC.                                                        *)
EXTENDS CommandeScreens

CONSTANTS a, d, l1

MC_Quantity == [l \in Lines |-> 2]
=============================================================================
