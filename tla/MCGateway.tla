----------------------------- MODULE MCGateway -----------------------------
(* TLC instances of Gateway: fault budgets, symmetry, and the order of two *)
(* objects of which one is stored at the start.                            *)
EXTENDS Gateway, Budgets, TLC

CONSTANTS o1, o2

(* One of every kind but a failed call and decay.                          *)
MixedFaults == Budget(1, 0, 1, 1, 0, 1)

NewestFirst == (o1 :> 1) @@ (o2 :> 2)

Symmetries == Permutations(Node) \cup Permutations(Request)
=============================================================================
