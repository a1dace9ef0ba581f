--------------------------- MODULE MCCoordinator ---------------------------
(* TLC instances of Coordinator: fault budgets and symmetry.               *)
EXTENDS Coordinator, Budgets, TLC

(* One node out; with a restart of the coordinator, too.                   *)
OneOutage == Budget(0, 0, 1, 0, 0, 0)
OutageAndRestart == Budget(0, 0, 1, 1, 0, 0)

(* One node out and one statement that fails.                              *)
OutageAndDbFailure == Budget(1, 0, 1, 0, 0, 0)

NodeSymmetry == Permutations(Node)
=============================================================================
