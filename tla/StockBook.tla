------------------------------ MODULE StockBook ------------------------------
(***************************************************************************)
(* What the inventory service promises about its committed state, with no  *)
(* transactions, locks or caches: a reservation of an order for a product  *)
(* is made at most once, is released at most once, and moves exactly its   *)
(* own quantity between the two stock counters of that product.            *)
(*                                                                         *)
(* Inventory.tla implements this specification; Saga.tla composes it with  *)
(* the order service.                                                      *)
(***************************************************************************)
EXTENDS Integers

CONSTANTS Orders,        \* order identifiers
          Products,      \* product identifiers
          Quantities,    \* quantities that can be reserved
          InitialStock   \* units of every product on the shelf at the start

ASSUME StockAssumption ==
    /\ Quantities \subseteq Nat \ {0}
    /\ InitialStock \in [Products -> Nat]

VARIABLES stock,         \* table inventory: product -> available, reserved
          reservations   \* table reservations: <<order, product>> -> row

bookVars == <<stock, reservations>>

Keys == Orders \X Products

Stock == [available : Nat, reserved : Nat]

ReservationStatus == {"none", "reserved", "released"}

\* A key with no row in the table has status "none".
Reservation == [quantity : Nat, status : ReservationStatus]

NoReservation == [quantity |-> 0, status |-> "none"]

BookTypeOK ==
    /\ stock \in [Products -> Stock]
    /\ reservations \in [Keys -> Reservation]

BookInit ==
    /\ stock = [p \in Products |-> [available |-> InitialStock[p], reserved |-> 0]]
    /\ reservations = [k \in Keys |-> NoReservation]

\* Move q units of p from available to reserved, for an order without a row.
BookReserve(o, p, q) ==
    /\ reservations[<<o, p>>].status = "none"
    /\ stock[p].available >= q
    /\ stock' = [stock EXCEPT ![p] = [available |-> @.available - q,
                                      reserved  |-> @.reserved + q]]
    /\ reservations' = [reservations EXCEPT
                          ![<<o, p>>] = [quantity |-> q, status |-> "reserved"]]

\* Give back exactly what the row says was reserved.
BookRelease(o, p) ==
    LET q == reservations[<<o, p>>].quantity IN
    /\ reservations[<<o, p>>].status = "reserved"
    /\ stock[p].reserved >= q
    /\ stock' = [stock EXCEPT ![p] = [available |-> @.available + q,
                                      reserved  |-> @.reserved - q]]
    /\ reservations' = [reservations EXCEPT
                          ![<<o, p>>] = [quantity |-> q, status |-> "released"]]

BookNext ==
    \E o \in Orders, p \in Products :
        \/ \E q \in Quantities : BookReserve(o, p, q)
        \/ BookRelease(o, p)

BookSpec == BookInit /\ [][BookNext]_bookVars
=============================================================================
