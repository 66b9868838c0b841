--------------------------- MODULE MC_SmsDispatch ---------------------------
(* Two processes and two messages, with short times, for TLC.              *)
EXTENDS SmsDispatch, TLC

MC_Symmetry == Permutations(Nodes) \cup Permutations(Workers)
=============================================================================
