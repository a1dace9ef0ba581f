--------------------------- MODULE MCReplication ---------------------------
(* TLC instances of Replication: fault budgets and symmetry.               *)
EXTENDS Replication, Budgets, TLC

(* One of every kind of failure but decay: two sweeps in a row go wrong.   *)
MixedFaults == Budget(1, 1, 1, 1, 0, 1)

NodeSymmetry == Permutations(Node)
=============================================================================
