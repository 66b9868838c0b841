--------------------------- MODULE MC_ProductStore ---------------------------
(* Three products and one to be created, in two categories, shown two at a *)
(* time: the whole list has a full page and a short one, the category ca   *)
(* a full page and an empty one.                                           *)
EXTENDS ProductStore, TLC

CONSTANTS ca, cb

MC_Nids == 1..4
MC_Category == <<ca, cb, ca, cb>>

(* The calls are interchangeable.                                          *)
CallSymmetry == Permutations(Calls)
==============================================================================
