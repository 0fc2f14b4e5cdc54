------------------------- MODULE MCExtensionSession -------------------------
(* Instances of ExtensionSession for TLC: the slots for messages are alike.     *)
EXTENDS ExtensionSession, TLC

Symmetry == Permutations(Tasks)
=============================================================================
