---------------------------- MODULE MCReplication ----------------------------
(* Instances of Replication for TLC. *)
EXTENDS Replication, TLC

CONSTANTS e1, e2, w1, w2, c1, c2

==============================================================================
