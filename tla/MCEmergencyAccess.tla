-------------------------- MODULE MCEmergencyAccess --------------------------
(* Instances of EmergencyAccess for TLC. *)
EXTENDS EmergencyAccess, TLC

SlotSymmetry == Permutations(Handlers)
=============================================================================
