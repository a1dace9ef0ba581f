------------------------------ MODULE Budgets ------------------------------
(* Values for FaultBound: how many faults of each kind TLC may inject.     *)

Budget(db, net, outage, crash, rot, late) ==
    [db |-> db, net |-> net, outage |-> outage, crash |-> crash, rot |-> rot,
     late |-> late]
=============================================================================
