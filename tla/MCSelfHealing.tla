--------------------------- MODULE MCSelfHealing ---------------------------
(* TLC instances of SelfHealing: fault budgets and symmetry.               *)
EXTENDS SelfHealing, Budgets, TLC

(* Two failed statements, a failed call, two outages, a restart and a call *)
(* that outlives its caller: a second recovery starts from what a failed   *)
(* first one left behind.                                                  *)
MixedFaults == Budget(2, 1, 2, 1, 0, 1)

(* A file decays while a node is out: recovery must pass on to a copy that *)
(* is good.                                                                *)
OutageAndRot == Budget(0, 1, 2, 0, 1, 0)

(* A node goes out, a call fails.                                          *)
OutageAndCall == Budget(0, 1, 1, 0, 0, 0)

(* Two nodes go out, one call fails.                                       *)
TwoOutages == Budget(0, 1, 2, 0, 0, 0)

NodeSymmetry == Permutations(Node)
=============================================================================
