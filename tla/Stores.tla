-------------------------------- MODULE Stores --------------------------------
(***************************************************************************)
(* The two services whose tables the sagas of order-service change:        *)
(* inventory-service and payment-service.  Each has a database of its own, *)
(* so a behaviour moves one of them and the other stays at rest.           *)
(***************************************************************************)
EXTENDS Inventory, Payment

VARIABLE active

storesVars == <<active, vars, paymentVars>>

StoresInit == active \in {"inventory", "payment"} /\ Init /\ PaymentInit

InventoryMoves == active = "inventory" /\ Next /\ UNCHANGED <<active, paymentVars>>
PaymentMoves == active = "payment" /\ PaymentNext /\ UNCHANGED <<active, vars>>

StoresNext == InventoryMoves \/ PaymentMoves

\* Each service with its own fairness.
StoresSpec ==
    /\ StoresInit /\ [][StoresNext]_storesVars
    /\ Fairness /\ PaymentFairness
=============================================================================
