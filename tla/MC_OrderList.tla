---------------------------- MODULE MC_OrderList ----------------------------
(* Two sales and one more to come, a page each: a page asked for after the *)
(* third sale repeats a row.  With the tab "sortie", or the search, sale 1 *)
(* alone, until the third is made.                                         *)
EXTENDS OrderList

MC_Orders == 1..3
MC_Made == {1, 2}
MC_Status == <<"sortie", "livre_p", "sortie">>
MC_Tabs == {"all", "sortie"}
MC_Texts == {"", "robe"}
MC_Found == [t \in MC_Texts |-> IF t = "" THEN MC_Orders ELSE {1}]
=============================================================================
