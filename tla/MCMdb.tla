-------------------------------- MODULE MCMdb --------------------------------
(* Instances of Mdb for TLC. *)
EXTENDS Mdb, TLC

CONSTANTS p1, p2, r1, k1, k2

\* The reader is in the second process.
Apart == (r1 :> p2)
\* All in one process.
Alone == (r1 :> p1)

Symmetry == Permutations(Keys)
==============================================================================
