----------------------------- MODULE PaymentBook -----------------------------
(***************************************************************************)
(* What the payment service promises about its committed state: an order   *)
(* is charged at most once, the outcome is final, and a successful payment *)
(* is refunded at most once, for at most its amount, under a key no other  *)
(* refund has.  Payment.tla implements it; Saga.tla composes it.           *)
(***************************************************************************)
EXTENDS Integers, Sequences

CONSTANTS Orders, Users,
          Amounts,     \* what an order can cost
          RefundKeys,  \* idempotency keys of refunds
          NoKey        \* the empty key, which is not unique

VARIABLES payments,    \* table payments: order -> row (order_id is unique)
          refunds      \* table refunds: order of the payment -> its rows

payVars == <<payments, refunds>>

Unpaid == [status |-> "none"]

Settled(status, user, amount) == [status |-> status, user |-> user, amount |-> amount]

KeyUsed(key) == \E o \in Orders : \E i \in DOMAIN refunds[o] : refunds[o][i].key = key

PayInit ==
    /\ payments = [o \in Orders |-> Unpaid]
    /\ refunds = [o \in Orders |-> <<>>]

\* The outcome, success or failed, is decided once and in the same step.
PayCharge(o, user, amount) ==
    /\ payments[o] = Unpaid
    /\ \E status \in {"success", "failed"} :
          payments' = [payments EXCEPT ![o] = Settled(status, user, amount)]
    /\ UNCHANGED refunds

\* A successful payment, an amount within it, a key that is new or empty.
PayRefund(o, amount, key) ==
    /\ key # NoKey => ~KeyUsed(key)
    /\ payments' = [payments EXCEPT ![o].status = "refunded"]
    /\ refunds' = [refunds EXCEPT ![o] = Append(@, [amount |-> amount, key |-> key])]

PayNext ==
    \E o \in Orders :
        \/ \E user \in Users, amount \in Amounts : PayCharge(o, user, amount)
        \/ /\ payments[o].status = "success"
           /\ \E key \in RefundKeys, amount \in 1 .. payments[o].amount :
                 PayRefund(o, amount, key)

PaySpec == PayInit /\ [][PayNext]_payVars
=============================================================================
