------------------------------ MODULE Gateway ------------------------------
(***************************************************************************)
(* The HTTP side of the coordinator: one pool of requests, each of which   *)
(* may be for any endpoint, and goes its way while the others do.          *)
(***************************************************************************)
EXTENDS Listings

GatewayVars == <<APIVars, accountVars, listingVars>>

GatewayInit == ObjectAPIInit /\ AccountsInit /\ ListingsInit

Stores == APINext /\ UNCHANGED <<accountVars, listingVars>>
Admits == \E r \in Request : AccountStep(r) /\ UNCHANGED listingVars
Lists == \E r \in Request : ListingStep(r)

GatewayNext == Stores \/ Admits \/ Lists

GatewaySpec == GatewayInit /\ [][GatewayNext]_GatewayVars

GatewayTypeOK == ObjectAPITypeOK /\ AccountsTypeOK /\ ListingsTypeOK
=============================================================================
