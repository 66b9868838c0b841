---------------------------- MODULE MC_AuthTokens ----------------------------
(* Two browsers, one user with an account and one without, for TLC.        *)
EXTENDS AuthTokens, TLC

CONSTANTS u1, u2, b1, b2, k1, k2

MC_Symmetry == Permutations(Slots)
=============================================================================
