---------------------------- MODULE MCVaultServer ----------------------------
(* Instances of VaultServer for TLC: two or three handlers, one or two items. *)
EXTENDS VaultServer, TLC

SlotSymmetry == Permutations(Handlers)
=============================================================================
