--------------------------- MODULE MCSecondFactors ---------------------------
(* Instances of SecondFactors for TLC: accounts, credentials and slots are     *)
(* alike.  What an empty slot or a gone challenge names means nothing, so the  *)
(* CHOOSE in Idle and Gone breaks no symmetry.                                 *)
EXTENDS SecondFactors, TLC

Symmetry == Permutations(Handlers) \cup Permutations(Users)
=============================================================================
