---------------------------- MODULE MCPlacement ----------------------------
(* TLC instances of Placement: hostnames, weights and reported metrics.    *)
EXTENDS Placement, TLC

CONSTANTS n1, n2, n3

Hostnames == n1 :> 1 @@ n2 :> 2 @@ n3 :> 3

(* The defaults of config/coordinator.go.                                  *)
DefaultWeight == [storage |-> 35, cpu |-> 20, ram |-> 15, latency |-> 15,
                  health |-> 15]

(* A node at rest, a busier one, and one over the CPU threshold.           *)
SomeReports ==
    {[cpu |-> 10, mem |-> 20, free |-> 90, latency |-> 0],
     [cpu |-> 60, mem |-> 60, free |-> 50, latency |-> 100],
     [cpu |-> 95, mem |-> 20, free |-> 50, latency |-> 0]}

CallerSymmetry == Permutations(Caller)
=============================================================================
