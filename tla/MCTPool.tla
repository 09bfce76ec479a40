------------------------------ MODULE MCTPool ------------------------------
(* Instances of TPool for TLC. *)
EXTENDS TPool, TLC

CONSTANTS a, b, c

OneQueue  == [t \in {a, b, c} |-> 0]
TwoQueues == a :> 0 @@ b :> 0 @@ c :> 1
Pair      == a :> 0 @@ b :> 1
=============================================================================
