------------------------------- MODULE MCStores -------------------------------
(***************************************************************************)
(* Two concurrent requests over two orders: of one product, or of payments *)
(* by a user, an admin or a service.                                       *)
(***************************************************************************)
EXTENDS Stores

CONSTANTS w1, w2, o1, o2, p1, user, admin, service, k1

MCWorkers == {w1, w2}
MCOrders == {o1, o2}
MCProducts == {p1}
MCInitialStock == [p \in MCProducts |-> 2]
MCCallers == {user, admin, service}
MCUsers == {user}
MCAdmins == {admin}
MCRefundKeys == {k1, NoKey}
=============================================================================
