---------------------------- MODULE MC_CashScreen ----------------------------
(* Two tills and two products of which there is little, for TLC.           *)
EXTENDS CashScreen

CONSTANTS t1, t2, p1, p2

MC_Found == {{p1}, {p2}}

MC_Symmetry == Permutations(Tills)

MC_Stock == p1 :> 2 @@ p2 :> 1
=============================================================================
