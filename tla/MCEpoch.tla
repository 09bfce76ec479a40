------------------------------ MODULE MCEpoch ------------------------------
(* The instance of Epoch for TLC: three threads, one connection or one       *)
(* operation, the code's EPOCH_MASK (Epoch.cfg).                             *)
EXTENDS Epoch
=============================================================================
