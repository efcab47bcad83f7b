---------------------------- MODULE OrderStatus ----------------------------
(***************************************************************************)
(* The order status machine of order-service (domain/status.go).           *)
(***************************************************************************)

OrderStatuses ==
    {"unspecified", "pending", "awaiting_payment", "paid", "processing", "shipped",
     "delivered", "cancelled", "refunded"}

\* A status with no entry in the Go map has no successor.
allowedTransitions ==
    [ unspecified      |-> {},
      pending          |-> {"awaiting_payment", "cancelled"},
      awaiting_payment |-> {"paid", "cancelled"},
      paid             |-> {"processing", "cancelled", "refunded"},
      processing       |-> {"shipped", "cancelled", "refunded"},
      shipped          |-> {"delivered", "cancelled", "refunded"},
      delivered        |-> {"refunded"},
      cancelled        |-> {},
      refunded         |-> {} ]

CanTransition(s, target) == s = target \/ target \in allowedTransitions[s]

CancellableDirectly(s) == s \in {"pending", "awaiting_payment"}

\* The statuses CancelOrder compensates through the orchestrator.
CancellableWithRefund(s) == s \in {"paid", "processing", "shipped"}
=============================================================================
