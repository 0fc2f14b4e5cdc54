---------------------------- MODULE MCRecoveryFlow ----------------------------
(* Instances of RecoveryFlow for TLC.  FreshKit chooses, so kits are not           *)
(* symmetric; the run with a liveness property uses no symmetry at all.            *)
EXTENDS RecoveryFlow, TLC
=============================================================================
