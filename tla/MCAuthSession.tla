---------------------------- MODULE MCAuthSession ----------------------------
(* Instances of AuthSession for TLC.                                       *)
EXTENDS AuthSession, TLC

Symmetry == Permutations(Callers) \cup Permutations(Accounts)
=============================================================================
