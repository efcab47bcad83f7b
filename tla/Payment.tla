------------------------------- MODULE Payment -------------------------------
(***************************************************************************)
(* payment-service: ProcessPayment and Refund as concurrent PostgreSQL     *)
(* transactions (READ COMMITTED).  A payment is named by its order, since  *)
(* payments.order_id is unique and the identifier of an attempt that lost  *)
(* the race never leaves its transaction.                                  *)
(*                                                                         *)
(* payments and refunds are the committed tables.  Which locks a request   *)
(* holds follows from the statement it has reached, so they are operators  *)
(* and not variables.                                                      *)
(***************************************************************************)
EXTENDS Integers, Sequences

CONSTANTS PayWorkers,     \* concurrent requests the service can run
          PayOrders,
          Callers,        \* authenticated subjects of calls
          Users, Admins,  \* the subjects that are UUIDs, and those with role admin
          Amounts,        \* amount_cents of ProcessPayment
          RefundAmounts,  \* amount_cents of Refund, 0 for everything
          RefundKeys,     \* idempotency keys of Refund
          NoKey           \* the empty idempotency key

ASSUME PaymentAssumption ==
    /\ Users \subseteq Callers /\ Admins \subseteq Callers
    /\ Amounts \subseteq Nat \ {0}
    /\ RefundAmounts \subseteq Nat

VARIABLES payments, refunds,  \* committed tables
          payPc, payReq       \* per request: where it is, what it asks

payTables   == <<payments, refunds>>
paymentVars == <<payments, refunds, payPc, payReq>>

PayBook == INSTANCE PaymentBook WITH Orders <- PayOrders

Unpaid == PayBook!Unpaid
KeyUsed(key) == PayBook!KeyUsed(key)

Row == {Unpaid} \cup [status : {"success", "failed", "refunded"}, user : Users,
                      amount : Amounts]
Refunded == [amount : Nat, key : RefundKeys]

PayRequest     == [op : {"pay"}, order : PayOrders, user : Users, amount : Amounts,
                   outcome : {"success", "failed"}]
RefundRequest  == [op : {"refund"}, order : PayOrders, amount : RefundAmounts,
                   key : RefundKeys]
NoPayRequest   == [op |-> "none"]
PaymentRequest == PayRequest \cup RefundRequest \cup {NoPayRequest}

Paying     == {"insert", "select", "settle", "paid"}
Refunding  == {"byKey", "read", "create", "update", "commit", "refunded"}
InPayTx    == {"insert", "select", "settle", "byKey", "read", "create", "update", "commit"}
PayControl == {"idle"} \cup Paying \cup Refunding

PaymentInit ==
    /\ payments = [o \in PayOrders |-> Unpaid]
    /\ refunds = [o \in PayOrders |-> <<>>]
    /\ payPc = [w \in PayWorkers |-> "idle"]
    /\ payReq = [w \in PayWorkers |-> NoPayRequest]

-----------------------------------------------------------------------------
(* Row locks of requests other than w. *)

Others(w, label, o) == \E v \in PayWorkers \ {w} : payPc[v] = label /\ payReq[v].order = o

\* INSERT of a payment, or SELECT ... FOR UPDATE of one.
PaymentRowTaken(w, o) == Others(w, "settle", o)

\* Mutant: an UPDATE that does not wait for another one.
NoRowUpdated(w, o) == FALSE

\* The foreign key of an inserted refund shares the payment row with other
\* refunds and keeps FOR UPDATE out; its UPDATE keeps other UPDATEs out.
PaymentRowShared(w, o)  == Others(w, "update", o) \/ Others(w, "commit", o)
PaymentRowUpdated(w, o) == Others(w, "commit", o)

\* An uncommitted refund with the same key.
KeyTaken(w, key) ==
    /\ key # NoKey
    /\ \E v \in PayWorkers \ {w} : payPc[v] \in {"update", "commit"} /\ payReq[v].key = key

-----------------------------------------------------------------------------
PayGoto(w, label) == payPc' = [payPc EXCEPT ![w] = label]

\* The request is answered, with or without an error, or its process dies.
PayReturn(w) ==
    /\ PayGoto(w, "idle")
    /\ payReq' = [payReq EXCEPT ![w] = NoPayRequest]

PayRollback(w) == PayReturn(w) /\ UNCHANGED payTables

\* A statement fails, the call times out, or the process dies in mid-transaction.
FailPayment(w) == payPc[w] \in InPayTx /\ PayRollback(w)

Answer(w) == payPc[w] \in {"paid", "refunded"} /\ PayReturn(w) /\ UNCHANGED payTables

\* COMMIT: the tables change whether or not the caller learns of it.
PayCommitted(w, label) == (PayGoto(w, label) /\ UNCHANGED payReq) \/ PayReturn(w)

-----------------------------------------------------------------------------
(* ProcessPayment *)

\* The handler refuses a subject that is not a UUID; the outcome is drawn before
\* the transaction begins.
ProcessPayment(w, caller, o, amount, outcome) ==
    /\ payPc[w] = "idle"
    /\ caller \in Users
    /\ payReq' = [payReq EXCEPT ![w] = [op |-> "pay", order |-> o, user |-> caller,
                                  amount |-> amount, outcome |-> outcome]]
    /\ PayGoto(w, "insert")
    /\ UNCHANGED payTables

\* INSERT ... ON CONFLICT (order_id) DO NOTHING waits for an uncommitted insert of
\* the same order and does nothing on a committed one.
CreateOrGetInsert(w) ==
    /\ payPc[w] = "insert"
    /\ \/ /\ payments[payReq[w].order] # Unpaid
          /\ PayGoto(w, "select")
       \/ /\ payments[payReq[w].order] = Unpaid
          /\ ~PaymentRowTaken(w, payReq[w].order)
          /\ PayGoto(w, "settle")
    /\ UNCHANGED <<payTables, payReq>>

\* SELECT ... FOR UPDATE of the row that was there.
CreateOrGetSelect(w) ==
    /\ payPc[w] = "select"
    /\ ~PaymentRowTaken(w, payReq[w].order)
    /\ ~PaymentRowShared(w, payReq[w].order)
    /\ PayGoto(w, "settle")
    /\ UNCHANGED <<payTables, payReq>>

\* The row CreateOrGet returned: the one in the table, or the one just inserted.
RowOf(r) ==
    IF payments[r.order] = Unpaid
      THEN [status |-> "pending", user |-> r.user, amount |-> r.amount]
      ELSE payments[r.order]

\* Mutant: the outcome is never written.
UpdateStatusNever(row, newStatus, expectedStatus) == row

\* UPDATE ... WHERE status = expected
UpdateStatusIf(row, newStatus, expectedStatus) ==
    IF row.status = expectedStatus THEN [row EXCEPT !.status = newStatus] ELSE row

\* A pending payment gets its outcome, an earlier outcome is left alone.
SettlePayment(w) ==
    /\ payPc[w] = "settle"
    /\ payments' = [payments EXCEPT ![payReq[w].order] =
                      UpdateStatusIf(RowOf(payReq[w]), payReq[w].outcome, "pending")]
    /\ PayCommitted(w, "paid")
    /\ UNCHANGED refunds

-----------------------------------------------------------------------------
(* Refund *)

\* The handler looks the payment up and lets its owner or an admin go on.
Refund(w, caller, o, amount, key) ==
    /\ payPc[w] = "idle"
    /\ payments[o] # Unpaid
    /\ caller \in Admins \/ payments[o].user = caller
    /\ payReq' = [payReq EXCEPT ![w] = [op |-> "refund", order |-> o,
                                  amount |-> amount, key |-> key]]
    /\ PayGoto(w, "byKey")
    /\ UNCHANGED payTables

\* Mutant: "not found" is taken for a refund.
AnyKeyIsFound(w) ==
    /\ payPc[w] = "byKey"
    /\ PayGoto(w, IF payReq[w].key # NoKey THEN "refunded" ELSE "read")
    /\ UNCHANGED <<payTables, payReq>>

\* A key some refund has already: that refund is the answer, whatever payment it
\* belongs to.
GetRefundByIdempotencyKey(w) ==
    /\ payPc[w] = "byKey"
    /\ PayGoto(w, IF payReq[w].key # NoKey /\ KeyUsed(payReq[w].key) THEN "refunded" ELSE "read")
    /\ UNCHANGED <<payTables, payReq>>

\* Without an amount the whole payment is refunded.
RefundAmount(r) == IF r.amount = 0 THEN payments[r.order].amount ELSE r.amount

\* Mutant: the amount is not compared with the payment's.
CanRefundAnyAmount(r) == payments[r.order].status = "success"

CanRefund(r) ==
    /\ payments[r.order].status = "success"
    /\ RefundAmount(r) <= payments[r.order].amount

\* GetByID takes no lock: another refund may commit between this and the update.
CheckPayment(w) ==
    /\ payPc[w] = "read"
    /\ \/ /\ CanRefund(payReq[w])
          /\ PayGoto(w, "create")
          /\ UNCHANGED <<payTables, payReq>>
       \/ /\ ~CanRefund(payReq[w])
          /\ PayRollback(w)

\* INSERT INTO refunds: the unique index makes it wait for an uncommitted refund
\* with its key and fail on a committed one; the foreign key waits for FOR UPDATE.
CreateRefund(w) ==
    /\ payPc[w] = "create"
    /\ ~KeyTaken(w, payReq[w].key)
    /\ \/ /\ payReq[w].key # NoKey /\ KeyUsed(payReq[w].key)
          /\ PayRollback(w)
       \/ /\ ~(payReq[w].key # NoKey /\ KeyUsed(payReq[w].key))
          /\ ~PaymentRowTaken(w, payReq[w].order)
          /\ PayGoto(w, "update")
          /\ UNCHANGED <<payTables, payReq>>

\* Mutants: the update ignores the status; it waits until the status is success.
MarkRefundedUnchecked(w) ==
    /\ payPc[w] = "update"
    /\ ~PaymentRowUpdated(w, payReq[w].order)
    /\ PayGoto(w, "commit")
    /\ UNCHANGED <<payTables, payReq>>

MarkRefundedOrWait(w) ==
    /\ payPc[w] = "update"
    /\ payments[payReq[w].order].status = "success"
    /\ MarkRefundedUnchecked(w)

\* UPDATE ... WHERE status = 'success': no row is updated once another refund has
\* committed, and the one just inserted is rolled back.
MarkRefunded(w) ==
    /\ payPc[w] = "update"
    /\ \/ /\ payments[payReq[w].order].status = "success"
          /\ ~PaymentRowUpdated(w, payReq[w].order)
          /\ PayGoto(w, "commit")
          /\ UNCHANGED <<payTables, payReq>>
       \/ /\ payments[payReq[w].order].status # "success"
          /\ PayRollback(w)

CommitRefund(w) ==
    /\ payPc[w] = "commit"
    /\ payments' = [payments EXCEPT ![payReq[w].order] =
                      UpdateStatusIf(@, "refunded", "success")]
    /\ refunds' = [refunds EXCEPT ![payReq[w].order] =
                     Append(@, [amount |-> RefundAmount(payReq[w]), key |-> payReq[w].key])]
    /\ PayCommitted(w, "refunded")

-----------------------------------------------------------------------------
CallPayment(w) ==
    \E caller \in Callers, o \in PayOrders :
        \/ \E amount \in Amounts, outcome \in {"success", "failed"} :
              ProcessPayment(w, caller, o, amount, outcome)
        \/ \E amount \in RefundAmounts, key \in RefundKeys :
              Refund(w, caller, o, amount, key)

ProceedPayment(w) ==
    \/ CreateOrGetInsert(w) \/ CreateOrGetSelect(w) \/ SettlePayment(w)
    \/ GetRefundByIdempotencyKey(w) \/ CheckPayment(w) \/ CreateRefund(w)
    \/ MarkRefunded(w) \/ CommitRefund(w)
    \/ Answer(w)

PaymentNext == \E w \in PayWorkers : CallPayment(w) \/ ProceedPayment(w) \/ FailPayment(w)

PaymentSpec == PaymentInit /\ [][PaymentNext]_paymentVars

\* A request keeps running, and PostgreSQL grants a lock to its waiters in turn.
PaymentFairness == \A w \in PayWorkers : SF_paymentVars(ProceedPayment(w))
PaymentFairSpec == PaymentSpec /\ PaymentFairness

-----------------------------------------------------------------------------
(* Invariants *)

\* Every variable keeps its type; in particular no committed payment is pending,
\* because the row and its outcome are written by one transaction.
PaymentTypeOK ==
    /\ payments \in [PayOrders -> Row]
    /\ refunds \in [PayOrders -> Seq(Refunded)]
    /\ payPc \in [PayWorkers -> PayControl]
    /\ payReq \in [PayWorkers -> PaymentRequest]

\* A payment is refunded once and not beyond its amount, however many Refund calls
\* with however many keys race: exactly the refunded payments have a refund row,
\* and they have one.
RefundedOnce ==
    \A o \in PayOrders :
        /\ payments[o].status # "refunded" => refunds[o] = <<>>
        /\ payments[o].status = "refunded" =>
              /\ Len(refunds[o]) = 1
              /\ refunds[o][1].amount \in 1 .. payments[o].amount

\* No two refunds share an idempotency key.
KeysAreUnique ==
    \A o1, o2 \in PayOrders : \A i \in DOMAIN refunds[o1], j \in DOMAIN refunds[o2] :
        refunds[o1][i].key = refunds[o2][j].key /\ refunds[o1][i].key # NoKey
            => o1 = o2 /\ i = j

\* ProcessPayment answers with a payment whose outcome is in the table; Refund
\* answers with a refunded payment, or with the refund that used up its key.
AnsweredMeansSettled ==
    \A w \in PayWorkers :
        /\ payPc[w] = "paid" => payments[payReq[w].order] # Unpaid
        /\ payPc[w] = "refunded" =>
              \/ payments[payReq[w].order].status = "refunded"
              \/ payReq[w].key # NoKey /\ KeyUsed(payReq[w].key)

(* What makes the invariants above inductive. *)

\* What a request has established, by where it is.
ChecksHold(w) ==
    LET o == payReq[w].order IN
    /\ payPc[w] \in Paying => payReq[w] \in PayRequest
    /\ payPc[w] \in Refunding => payReq[w] \in RefundRequest /\ payments[o] # Unpaid
    /\ payPc[w] \in {"create", "update", "commit"} =>
          RefundAmount(payReq[w]) \in 1 .. payments[o].amount
    /\ payPc[w] = "commit" => payments[o].status = "success"
    /\ payPc[w] \in {"update", "commit"} /\ payReq[w].key # NoKey => ~KeyUsed(payReq[w].key)

\* Two refunds about to commit are of different payments and have different keys.
Apart(v, w) ==
    /\ payPc[v] = "commit" /\ payPc[w] = "commit" => payReq[v].order # payReq[w].order
    /\ payPc[v] \in {"update", "commit"} /\ payPc[w] \in {"update", "commit"}
          => payReq[v].key # payReq[w].key \/ payReq[v].key = NoKey

\* The status and the amount a refund checked without a lock, and the key it
\* found unused, are still so when it commits.
RefundChecksHold ==
    /\ \A w \in PayWorkers : ChecksHold(w)
    /\ \A v, w \in PayWorkers : v # w => Apart(v, w)

(* Action and temporal properties *)

\* A payment is made once; a failed one stays failed, a successful one can only be
\* refunded, and neither its owner nor its amount ever changes.
PaymentLifecycle ==
    [][\A o \in PayOrders :
          LET old == payments[o]
              new == payments'[o]
          IN  \/ new = old
              \/ old = Unpaid /\ new.status \in {"success", "failed"}
              \/ /\ old.status = "success" /\ new.status = "refunded"
                 /\ new.user = old.user /\ new.amount = old.amount]_paymentVars

\* Each commit is one atomic step of the abstract book.
ImplementsPaymentBook == PayBook!PaySpec

\* Retries, refunds with one key and refunds of one payment wait for each other
\* but never in a circle.
EveryPaymentReturns == \A w \in PayWorkers : []<>(payPc[w] = "idle")
=============================================================================
