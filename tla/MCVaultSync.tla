----------------------------- MODULE MCVaultSync -----------------------------
(* Instances of VaultSync for TLC: two devices, one or two items. *)
EXTENDS VaultSync, TLC

DeviceSymmetry == Permutations(Devices) \cup Permutations(Writes)
=============================================================================
