---------------------------- MODULE MCDeviceTrust ----------------------------
(* Instances of DeviceTrust for TLC: devices are alike, and so are slots. The *)
(* device an empty slot names means nothing, so its CHOOSE breaks no symmetry. *)
EXTENDS DeviceTrust, TLC

Symmetry == Permutations(Devices) \cup Permutations(Handlers)
=============================================================================
