---------------------------- MODULE PaymentProofs ----------------------------
(***************************************************************************)
(* The theorems about Payment.tla, for any numbers of requests, orders,    *)
(* amounts and keys: a payment is charged once and refunded once, and the  *)
(* service implements PaymentBook.                                         *)
(***************************************************************************)
EXTENDS Payment, TLAPS

(* The inductive invariant, and the steps other than the commit of a refund. *)

IndInv ==
    /\ PaymentTypeOK
    /\ RefundChecksHold
    /\ RefundedOnce
    /\ KeysAreUnique
    /\ AnsweredMeansSettled

OthersUnchanged(w) ==
    \A v \in PayWorkers \ {w} : payPc'[v] = payPc[v] /\ payReq'[v] = payReq[v]

\* The part of AnsweredMeansSettled that is about w.
Answered(w) ==
    /\ payPc[w] = "paid" => payments[payReq[w].order] # Unpaid
    /\ payPc[w] = "refunded" =>
          \/ payments[payReq[w].order].status = "refunded"
          \/ payReq[w].key # NoKey /\ KeyUsed(payReq[w].key)

OwnInv(w) == ChecksHold(w) /\ Answered(w)

-----------------------------------------------------------------------------
\* What Goto leaves alone: every other request stays where it was.
LEMMA GotoFacts ==
    ASSUME PaymentTypeOK, NEW w \in PayWorkers, NEW label \in PayControl, PayGoto(w, label)
    PROVE  /\ payPc' \in [PayWorkers -> PayControl]
           /\ payPc'[w] = label
           /\ \A v \in PayWorkers \ {w} : payPc'[v] = payPc[v]
  BY Zenon DEF PaymentTypeOK, PayGoto

\* Return makes the request idle and leaves every other one alone.
LEMMA ReturnFacts ==
    ASSUME PaymentTypeOK, NEW w \in PayWorkers, PayReturn(w)
    PROVE  /\ payPc' \in [PayWorkers -> PayControl]
           /\ payReq' \in [PayWorkers -> PaymentRequest]
           /\ payPc'[w] = "idle"
           /\ OthersUnchanged(w)
<1>1. "idle" \in PayControl /\ NoPayRequest \in PaymentRequest
  BY Zenon DEF PayControl, PaymentRequest
<1> QED
  BY <1>1, Zenon DEF PaymentTypeOK, PayReturn, PayGoto, OthersUnchanged

\* An idle request has nothing to maintain.
LEMMA IdleOwnInv ==
    ASSUME NEW w \in PayWorkers, payPc'[w] = "idle"
    PROVE  OwnInv(w)' /\ \A v \in PayWorkers : Apart(v, w)' /\ Apart(w, v)'
  BY Zenon DEF OwnInv, ChecksHold, Answered, Apart, Paying, Refunding

\* A step of w that leaves the tables alone.
LEMMA QuietStep ==
    ASSUME IndInv, NEW w \in PayWorkers, UNCHANGED payTables, OthersUnchanged(w),
           payPc' \in [PayWorkers -> PayControl], payReq' \in [PayWorkers -> PaymentRequest],
           OwnInv(w)',
           \A v \in PayWorkers \ {w} : Apart(v, w)' /\ Apart(w, v)'
    PROVE  IndInv'
<1>1. payments' = payments /\ refunds' = refunds
  BY Zenon DEF payTables
<1>2. \A key : KeyUsed(key)' <=> KeyUsed(key)
  BY <1>1, Zenon DEF KeyUsed, PayBook!KeyUsed
<1>3. PaymentTypeOK'
  BY <1>1, Zenon DEF IndInv, PaymentTypeOK
<1>4. ASSUME NEW v \in PayWorkers \ {w} PROVE OwnInv(v)'
  <2>1. payPc'[v] = payPc[v] /\ payReq'[v] = payReq[v] /\ ChecksHold(v) /\ Answered(v)
    BY Zenon DEF OthersUnchanged, IndInv, RefundChecksHold, AnsweredMeansSettled, Answered
  <2> QED
    BY <1>1, <1>2, <2>1, Zenon DEF OwnInv, ChecksHold, Answered, RefundAmount
<1>5. ASSUME NEW u \in PayWorkers, NEW v \in PayWorkers, u # v PROVE Apart(u, v)'
  <2>1. CASE u = w \/ v = w
    BY <1>5, <2>1, Zenon
  <2>2. CASE u # w /\ v # w
    BY <1>5, <2>2 DEF OthersUnchanged, Apart, IndInv, RefundChecksHold
  <2> QED
    BY <2>1, <2>2, Zenon
<1>6. RefundChecksHold' /\ AnsweredMeansSettled'
  BY <1>4, <1>5, Zenon DEF RefundChecksHold, AnsweredMeansSettled, OwnInv, Answered
<1>7. RefundedOnce' /\ KeysAreUnique'
  BY <1>1 DEF IndInv, RefundedOnce, KeysAreUnique
<1> QED
  BY <1>3, <1>6, <1>7, Zenon DEF IndInv

\* An error inside ProcessPayment or Refund writes nothing.
LEMMA RollbackInv ==
    ASSUME IndInv, NEW w \in PayWorkers, PayReturn(w), UNCHANGED payTables PROVE IndInv'
<1>1. PaymentTypeOK
  BY Zenon DEF IndInv
<1> QED
  BY <1>1, ReturnFacts, IdleOwnInv, QuietStep, Zenon

\* A step of w that only moves it on.
LEMMA MoveInv ==
    ASSUME IndInv, NEW w \in PayWorkers, NEW label \in PayControl, PayGoto(w, label),
           UNCHANGED <<payTables, payReq>>, OwnInv(w)',
           \A v \in PayWorkers \ {w} : Apart(v, w)' /\ Apart(w, v)'
    PROVE  IndInv'
<1>1. PaymentTypeOK /\ UNCHANGED payTables /\ payReq' = payReq
  BY Zenon DEF IndInv
<1>2. OthersUnchanged(w)
  BY <1>1, GotoFacts, Zenon DEF OthersUnchanged
<1> QED
  BY <1>1, <1>2, GotoFacts, QuietStep, Zenon DEF PaymentTypeOK
\* A new call: the request fits where it starts.
LEMMA StartInv ==
    ASSUME IndInv, NEW w \in PayWorkers, NEW r \in PaymentRequest, NEW label \in {"insert", "byKey"},
           label = "insert" => r \in PayRequest,
           label = "byKey" => r \in RefundRequest /\ payments[r.order] # Unpaid,
           PayGoto(w, label), payReq' = [payReq EXCEPT ![w] = r], UNCHANGED payTables
    PROVE  IndInv'
<1>1. PaymentTypeOK /\ payments' = payments
  BY Zenon DEF IndInv, payTables
<1>2. label \in PayControl
  BY Zenon DEF PayControl, Paying, Refunding
<1>3. /\ payReq' \in [PayWorkers -> PaymentRequest] /\ payReq'[w] = r
      /\ \A v \in PayWorkers \ {w} : payReq'[v] = payReq[v]
  BY <1>1, Zenon DEF PaymentTypeOK
<1>4. payPc'[w] = label /\ OthersUnchanged(w) /\ payPc' \in [PayWorkers -> PayControl]
  BY <1>1, <1>2, <1>3, GotoFacts, Zenon DEF OthersUnchanged
<1>5. OwnInv(w)'
  BY <1>1, <1>3, <1>4, Zenon DEF OwnInv, ChecksHold, Answered, Paying, Refunding
<1>6. \A v \in PayWorkers \ {w} : Apart(v, w)' /\ Apart(w, v)'
  BY <1>4, Zenon DEF Apart
<1> QED
  BY <1>3, <1>4, <1>5, <1>6, QuietStep, Zenon

\* A new ProcessPayment or Refund call preserves the invariant.
LEMMA CallInv ==
    ASSUME IndInv, NEW w \in PayWorkers, CallPayment(w) PROVE IndInv'
<1>1. ASSUME NEW caller \in Callers, NEW o \in PayOrders, NEW amount \in Amounts,
             NEW outcome \in {"success", "failed"}, ProcessPayment(w, caller, o, amount, outcome)
      PROVE  IndInv'
  <2> DEFINE r == [op |-> "pay", order |-> o, user |-> caller, amount |-> amount,
                   outcome |-> outcome]
  <2>1. r \in PayRequest /\ r \in PaymentRequest
    BY <1>1, Zenon DEF PayRequest, PaymentRequest, ProcessPayment
  <2>2. PayGoto(w, "insert") /\ payReq' = [payReq EXCEPT ![w] = r] /\ UNCHANGED payTables
    BY <1>1, Zenon DEF ProcessPayment
  <2> QED
    BY <2>1, <2>2, StartInv, Zenon
<1>2. ASSUME NEW caller \in Callers, NEW o \in PayOrders, NEW amount \in RefundAmounts,
             NEW key \in RefundKeys, Refund(w, caller, o, amount, key)
      PROVE  IndInv'
  <2> DEFINE r == [op |-> "refund", order |-> o, amount |-> amount, key |-> key]
  <2>1. r \in RefundRequest /\ r \in PaymentRequest /\ payments[r.order] # Unpaid
    BY <1>2, Zenon DEF RefundRequest, PaymentRequest, Refund
  <2>2. PayGoto(w, "byKey") /\ payReq' = [payReq EXCEPT ![w] = r] /\ UNCHANGED payTables
    BY <1>2, Zenon DEF Refund
  <2> QED
    BY <2>1, <2>2, StartInv, Zenon
<1> QED
  BY <1>1, <1>2, Zenon DEF CallPayment

\* CreateOrGet, insert or select, preserves the invariant.
LEMMA CreateOrGetInv ==
    ASSUME IndInv, NEW w \in PayWorkers, CreateOrGetInsert(w) \/ CreateOrGetSelect(w)
    PROVE  IndInv'
<1>1. PICK label \in {"select", "settle"} :
        /\ payPc[w] \in {"insert", "select"} /\ PayGoto(w, label) /\ UNCHANGED <<payTables, payReq>>
  BY Zenon DEF CreateOrGetInsert, CreateOrGetSelect
<1>2. PaymentTypeOK /\ ChecksHold(w) /\ label \in PayControl
  BY Zenon DEF IndInv, RefundChecksHold, PayControl, Paying
<1>3. payPc'[w] = label /\ payReq'[w] = payReq[w]
  BY <1>1, <1>2, GotoFacts, Zenon
<1>4. OwnInv(w)'
  BY <1>1, <1>2, <1>3, Zenon DEF OwnInv, ChecksHold, Answered, Paying, Refunding
<1>5. \A v \in PayWorkers \ {w} : Apart(v, w)' /\ Apart(w, v)'
  BY <1>3, Zenon DEF Apart
<1> QED
  BY <1>1, <1>2, <1>4, <1>5, MoveInv, Zenon

\* The lookup of the key, a hit or a miss, preserves the invariant.
LEMMA GetRefundByIdempotencyKeyInv ==
    ASSUME IndInv, NEW w \in PayWorkers, GetRefundByIdempotencyKey(w) PROVE IndInv'
<1>1. PICK label \in {"refunded", "read"} :
        /\ payPc[w] = "byKey" /\ PayGoto(w, label) /\ UNCHANGED <<payTables, payReq>>
        /\ label = "refunded" => payReq[w].key # NoKey /\ KeyUsed(payReq[w].key)
  BY Zenon DEF GetRefundByIdempotencyKey
<1>2. PaymentTypeOK /\ ChecksHold(w) /\ label \in PayControl
  BY Zenon DEF IndInv, RefundChecksHold, PayControl, Refunding
<1>3. payPc'[w] = label /\ payReq'[w] = payReq[w] /\ payments' = payments
  BY <1>1, <1>2, GotoFacts, Zenon DEF payTables
<1>4. KeyUsed(payReq[w].key) => KeyUsed(payReq[w].key)'
  BY <1>1, Zenon DEF KeyUsed, PayBook!KeyUsed, payTables
<1>5. OwnInv(w)'
  BY <1>1, <1>2, <1>3, <1>4, Zenon DEF OwnInv, ChecksHold, Answered, Paying, Refunding
<1>6. \A v \in PayWorkers \ {w} : Apart(v, w)' /\ Apart(w, v)'
  BY <1>3, Zenon DEF Apart
<1> QED
  BY <1>1, <1>2, <1>5, <1>6, MoveInv, Zenon

\* What a row that is not empty holds.
LEMMA RowFacts ==
    ASSUME PaymentTypeOK, NEW o \in PayOrders, payments[o] # Unpaid
    PROVE  /\ payments[o].status \in {"success", "failed", "refunded"}
           /\ payments[o].user \in Users
           /\ payments[o].amount \in Amounts
           /\ payments[o].amount \in Nat /\ payments[o].amount > 0
<1>1. payments[o] \in [status : {"success", "failed", "refunded"}, user : Users,
                       amount : Amounts]
  BY Zenon DEF PaymentTypeOK, Row
<1>2. payments[o].amount \in Amounts
  BY <1>1, Zenon
<1>3. payments[o].amount \in Nat \ {0}
  BY <1>2, PaymentAssumption, Zenon
<1> QED
  BY <1>1, <1>2, <1>3

\* The unlocked checks of Refund preserve the invariant.
LEMMA CheckPaymentInv ==
    ASSUME IndInv, NEW w \in PayWorkers, CheckPayment(w) PROVE IndInv'
<1>1. CASE PayRollback(w)
  BY <1>1, RollbackInv, Zenon DEF PayRollback
<1>2. CASE ~PayRollback(w)
  <2>1. /\ payPc[w] = "read" /\ CanRefund(payReq[w]) /\ PayGoto(w, "create")
        /\ UNCHANGED <<payTables, payReq>>
    BY <1>2, Zenon DEF CheckPayment
  <2>2. PaymentTypeOK /\ ChecksHold(w) /\ "create" \in PayControl
    BY Zenon DEF IndInv, RefundChecksHold, PayControl, Refunding
  <2>3. payPc'[w] = "create" /\ payReq'[w] = payReq[w] /\ payments' = payments
    BY <2>1, <2>2, GotoFacts, Zenon DEF payTables
  <2>4. payReq[w] \in RefundRequest /\ payments[payReq[w].order] # Unpaid
    BY <2>1, <2>2, Zenon DEF ChecksHold, Refunding
  <2>5. payReq[w].order \in PayOrders /\ payReq[w].amount \in Nat
    <3>1. payReq[w].order \in PayOrders /\ payReq[w].amount \in RefundAmounts
      BY <2>4, Zenon DEF RefundRequest
    <3> QED
      BY <3>1, PaymentAssumption, Zenon
  <2>6. RefundAmount(payReq[w]) \in 1 .. payments[payReq[w].order].amount
    BY <2>1, <2>2, <2>4, <2>5, RowFacts DEF CanRefund, RefundAmount
  <2>7. OwnInv(w)'
    BY <2>3, <2>4, <2>6, Zenon DEF OwnInv, ChecksHold, Answered, Paying, Refunding, RefundAmount
  <2>8. \A v \in PayWorkers \ {w} : Apart(v, w)' /\ Apart(w, v)'
    BY <2>3, Zenon DEF Apart
  <2> QED
    BY <2>1, <2>2, <2>7, <2>8, MoveInv, Zenon
<1> QED
  BY <1>1, <1>2, Zenon

\* The insert of the refund, still uncommitted, preserves the invariant.
LEMMA CreateRefundInv ==
    ASSUME IndInv, NEW w \in PayWorkers, CreateRefund(w) PROVE IndInv'
<1>1. CASE PayRollback(w)
  BY <1>1, RollbackInv, Zenon DEF PayRollback
<1>2. CASE ~PayRollback(w)
  <2>1. /\ payPc[w] = "create" /\ PayGoto(w, "update") /\ UNCHANGED <<payTables, payReq>>
        /\ ~KeyTaken(w, payReq[w].key)
        /\ payReq[w].key # NoKey => ~KeyUsed(payReq[w].key)
    BY <1>2, Zenon DEF CreateRefund
  <2>2. PaymentTypeOK /\ ChecksHold(w) /\ "update" \in PayControl
    BY Zenon DEF IndInv, RefundChecksHold, PayControl, Refunding
  <2>3. /\ payPc'[w] = "update" /\ payReq' = payReq /\ payments' = payments
        /\ \A v \in PayWorkers \ {w} : payPc'[v] = payPc[v]
    BY <2>1, <2>2, GotoFacts, Zenon DEF payTables
  <2>4. ~KeyUsed(payReq[w].key) => ~KeyUsed(payReq[w].key)'
    BY <2>1, Zenon DEF KeyUsed, PayBook!KeyUsed, payTables
  <2>5. OwnInv(w)'
    BY <2>1, <2>2, <2>3, <2>4, Zenon
    DEF OwnInv, ChecksHold, Answered, Paying, Refunding, RefundAmount
  <2>6. \A v \in PayWorkers \ {w} : Apart(v, w)' /\ Apart(w, v)'
    BY <2>1, <2>3, Zenon DEF Apart, KeyTaken
  <2> QED
    BY <2>1, <2>2, <2>5, <2>6, MoveInv, Zenon
<1> QED
  BY <1>1, <1>2, Zenon

\* The conditional update, still uncommitted, preserves the invariant.
LEMMA MarkRefundedInv ==
    ASSUME IndInv, NEW w \in PayWorkers, MarkRefunded(w) PROVE IndInv'
<1>1. CASE PayRollback(w)
  BY <1>1, RollbackInv, Zenon DEF PayRollback
<1>2. CASE ~PayRollback(w)
  <2>1. /\ payPc[w] = "update" /\ PayGoto(w, "commit") /\ UNCHANGED <<payTables, payReq>>
        /\ payments[payReq[w].order].status = "success"
        /\ ~PaymentRowUpdated(w, payReq[w].order)
    BY <1>2, Zenon DEF MarkRefunded
  <2>2. PaymentTypeOK /\ ChecksHold(w) /\ "commit" \in PayControl
    BY Zenon DEF IndInv, RefundChecksHold, PayControl, Refunding
  <2>3. /\ payPc'[w] = "commit" /\ payReq' = payReq /\ payments' = payments
        /\ \A v \in PayWorkers \ {w} : payPc'[v] = payPc[v]
    BY <2>1, <2>2, GotoFacts, Zenon DEF payTables
  <2>4. ~KeyUsed(payReq[w].key) => ~KeyUsed(payReq[w].key)'
    BY <2>1, Zenon DEF KeyUsed, PayBook!KeyUsed, payTables
  <2>5. OwnInv(w)'
    BY <2>1, <2>2, <2>3, <2>4, Zenon
    DEF OwnInv, ChecksHold, Answered, Paying, Refunding, RefundAmount
  <2>6. \A v \in PayWorkers \ {w} : Apart(v, w)' /\ Apart(w, v)'
    BY <2>1, <2>3 DEF Apart, PaymentRowUpdated, Others, IndInv, RefundChecksHold
  <2> QED
    BY <2>1, <2>2, <2>5, <2>6, MoveInv, Zenon
<1> QED
  BY <1>1, <1>2, Zenon
-----------------------------------------------------------------------------
(* The two steps that change the tables. *)

\* Committed(w, label), as the other requests see it.
LEMMA CommittedFacts ==
    ASSUME PaymentTypeOK, NEW w \in PayWorkers, NEW label \in {"paid", "refunded"}, PayCommitted(w, label)
    PROVE  /\ payPc' \in [PayWorkers -> PayControl] /\ payReq' \in [PayWorkers -> PaymentRequest]
           /\ OthersUnchanged(w)
           /\ \/ payPc'[w] = "idle"
              \/ payPc'[w] = label /\ payReq'[w] = payReq[w]
<1>1. label \in PayControl
  BY Zenon DEF PayControl, Paying, Refunding
<1> QED
  BY <1>1, GotoFacts, ReturnFacts, Zenon DEF PayCommitted, OthersUnchanged, PaymentTypeOK

\* ProcessPayment writes a row only where there was none, and then a settled one.
LEMMA SettleFacts ==
    ASSUME IndInv, NEW w \in PayWorkers, SettlePayment(w)
    PROVE  LET o == payReq[w].order IN
           /\ payReq[w] \in PayRequest /\ o \in PayOrders /\ refunds' = refunds
           /\ payments[o] # Unpaid => payments' = payments
           /\ payments[o] = Unpaid =>
                payments' = [payments EXCEPT ![o] =
                  [status |-> payReq[w].outcome, user |-> payReq[w].user, amount |-> payReq[w].amount]]
<1> DEFINE o == payReq[w].order
<1>1. PaymentTypeOK /\ ChecksHold(w) /\ payPc[w] = "settle"
  BY Zenon DEF IndInv, RefundChecksHold, SettlePayment
<1>2. payReq[w] \in PayRequest /\ o \in PayOrders
  BY <1>1, Zenon DEF ChecksHold, Paying, PayRequest
<1>3. /\ payments' = [payments EXCEPT ![o] =
                       UpdateStatusIf(RowOf(payReq[w]), payReq[w].outcome, "pending")]
      /\ refunds' = refunds
  BY Zenon DEF SettlePayment
<1>4. CASE payments[o] # Unpaid
  <2>1. RowOf(payReq[w]) = payments[o] /\ payments[o].status # "pending"
    BY <1>1, <1>2, <1>4, RowFacts, Zenon DEF RowOf
  <2>2. UpdateStatusIf(RowOf(payReq[w]), payReq[w].outcome, "pending") = payments[o]
    BY <2>1, Zenon DEF UpdateStatusIf
  <2> QED
    BY <1>1, <1>2, <1>3, <1>4, <2>2, Zenon DEF PaymentTypeOK
<1>5. CASE payments[o] = Unpaid
  <2>1. RowOf(payReq[w]) = [status |-> "pending", user |-> payReq[w].user, amount |-> payReq[w].amount]
    BY <1>5, Zenon DEF RowOf
  <2>2. UpdateStatusIf(RowOf(payReq[w]), payReq[w].outcome, "pending")
          = [status |-> payReq[w].outcome, user |-> payReq[w].user, amount |-> payReq[w].amount]
    BY <2>1 DEF UpdateStatusIf
  <2> QED
    BY <1>2, <1>3, <1>5, <2>2, Zenon
<1> QED
  BY <1>4, <1>5, Zenon

\* The commit of ProcessPayment writes an outcome once and changes no other.
LEMMA SettlePaymentInv ==
    ASSUME IndInv, NEW w \in PayWorkers, SettlePayment(w) PROVE IndInv'
<1> DEFINE o == payReq[w].order
           row == [status |-> payReq[w].outcome, user |-> payReq[w].user, amount |-> payReq[w].amount]
<1>1. /\ payReq[w] \in PayRequest /\ o \in PayOrders /\ refunds' = refunds
      /\ payments[o] # Unpaid => payments' = payments
      /\ payments[o] = Unpaid => payments' = [payments EXCEPT ![o] = row]
  BY SettleFacts, Zenon
<1>2. PaymentTypeOK /\ PayCommitted(w, "paid")
  BY Zenon DEF IndInv, SettlePayment
<1>3. row \in Row /\ row # Unpaid /\ row.status \in {"success", "failed"}
  <2>1. row \in [status : {"success", "failed", "refunded"}, user : Users, amount : Amounts]
    BY <1>1, Zenon DEF PayRequest
  <2>2. row.status \in {"success", "failed"} /\ Unpaid.status = "none"
    BY <1>1, Zenon DEF PayRequest, Unpaid, PayBook!Unpaid
  <2> QED
    BY <2>1, <2>2, Zenon DEF Row
<1>4. \A x \in PayOrders : payments[x] # Unpaid => payments'[x] = payments[x]
  BY <1>1, <1>2, Zenon DEF PaymentTypeOK
<1>5. payments'[o] # Unpaid /\ payments' \in [PayOrders -> Row]
  BY <1>1, <1>2, <1>3, ZenonT(30) DEF PaymentTypeOK
<1>6. PaymentTypeOK'
  BY <1>1, <1>2, <1>5, CommittedFacts, Zenon DEF PaymentTypeOK
<1>7. \A key : KeyUsed(key)' <=> KeyUsed(key)
  BY <1>1, Zenon DEF KeyUsed, PayBook!KeyUsed
<1>8. ASSUME NEW v \in PayWorkers \ {w} PROVE OwnInv(v)'
  <2>1. payPc'[v] = payPc[v] /\ payReq'[v] = payReq[v]
    BY <1>2, CommittedFacts, Zenon DEF OthersUnchanged
  <2>2. ChecksHold(v) /\ Answered(v)
    BY Zenon DEF IndInv, RefundChecksHold, AnsweredMeansSettled, Answered
  <2>3. /\ payPc[v] \in Refunding =>
             payReq[v].order \in PayOrders /\ payments'[payReq[v].order] = payments[payReq[v].order]
        /\ payPc[v] \in Paying =>
             payReq[v].order \in PayOrders
    BY <1>4, <2>2, Zenon DEF ChecksHold, RefundRequest, PayRequest
  <2>4. ChecksHold(v)'
    BY <1>7, <2>1, <2>2, <2>3, Zenon DEF ChecksHold, RefundAmount, Refunding
  <2>5. Answered(v)'
    BY <1>4, <1>7, <2>1, <2>2, <2>3, Zenon DEF Answered, Paying, Refunding
  <2> QED
    BY <2>4, <2>5, Zenon DEF OwnInv
<1>9. OwnInv(w)'
  <2>1. CASE payPc'[w] = "idle"
    BY <2>1, IdleOwnInv, Zenon
  <2>2. CASE payPc'[w] = "paid" /\ payReq'[w] = payReq[w]
    BY <1>1, <1>5, <2>2, Zenon DEF OwnInv, ChecksHold, Answered, Paying, Refunding
  <2> QED
    BY <1>2, <2>1, <2>2, CommittedFacts, Zenon
<1>10. ASSUME NEW u \in PayWorkers, NEW v \in PayWorkers, u # v PROVE Apart(u, v)'
  <2>1. payPc'[w] \notin {"update", "commit"}
    BY <1>2, CommittedFacts, Zenon
  <2>2. OthersUnchanged(w)
    BY <1>2, CommittedFacts, Zenon
  <2> QED
    BY <1>10, <2>1, <2>2 DEF Apart, OthersUnchanged, IndInv, RefundChecksHold
<1>11. RefundChecksHold' /\ AnsweredMeansSettled'
  BY <1>8, <1>9, <1>10, Zenon DEF RefundChecksHold, AnsweredMeansSettled, OwnInv, Answered
<1>12. RefundedOnce'
  <2>1. ASSUME NEW x \in PayOrders
        PROVE  \/ payments'[x] = payments[x]
               \/ payments[x] = Unpaid /\ payments'[x].status \in {"success", "failed"}
    BY <1>1, <1>2, <1>3, Zenon DEF PaymentTypeOK
  <2>2. Unpaid.status = "none"
    BY Zenon DEF Unpaid, PayBook!Unpaid
  <2> QED
    BY <1>1, <2>1, <2>2, Zenon DEF IndInv, RefundedOnce
<1>13. KeysAreUnique'
  <2>1. refunds' = refunds
    BY <1>1, Zenon
  <2> QED
    BY <2>1 DEF IndInv, KeysAreUnique
<1> QED
  BY <1>6, <1>11, <1>12, <1>13, Zenon DEF IndInv

------------------------------------------------------------------------------
(* The commit of a refund. *)

\* Refund turns a successful payment into a refunded one with its first and only
\* refund row, under a key that is new.
LEMMA CommitRefundFacts ==
    ASSUME IndInv, NEW w \in PayWorkers, CommitRefund(w)
    PROVE  LET o == payReq[w].order
               refund == [amount |-> RefundAmount(payReq[w]), key |-> payReq[w].key]
           IN  /\ payReq[w] \in RefundRequest /\ o \in PayOrders
               /\ payments[o] # Unpaid /\ payments[o].status = "success"
               /\ RefundAmount(payReq[w]) \in 1 .. payments[o].amount
               /\ payReq[w].key # NoKey => ~KeyUsed(payReq[w].key)
               /\ payments' = [payments EXCEPT ![o] = [payments[o] EXCEPT !.status = "refunded"]]
               /\ refunds[o] = <<>>
               /\ refunds' = [refunds EXCEPT ![o] = <<refund>>]
<1> DEFINE o == payReq[w].order
           refund == [amount |-> RefundAmount(payReq[w]), key |-> payReq[w].key]
<1>1. PaymentTypeOK /\ ChecksHold(w) /\ payPc[w] = "commit"
  BY Zenon DEF IndInv, RefundChecksHold, CommitRefund
<1>2. /\ payReq[w] \in RefundRequest /\ payments[o] # Unpaid /\ payments[o].status = "success"
      /\ RefundAmount(payReq[w]) \in 1 .. payments[o].amount
      /\ payReq[w].key # NoKey => ~KeyUsed(payReq[w].key)
  BY <1>1, Zenon DEF ChecksHold, Refunding
<1>3. o \in PayOrders
  BY <1>2, Zenon DEF RefundRequest
<1>4. payments' = [payments EXCEPT ![o] = [payments[o] EXCEPT !.status = "refunded"]]
  BY <1>2, Zenon DEF CommitRefund, UpdateStatusIf
<1>5. refunds[o] = <<>>
  BY <1>2, <1>3, Zenon DEF IndInv, RefundedOnce
<1>6. refunds' = [refunds EXCEPT ![o] = Append(refunds[o], refund)]
  BY Zenon DEF CommitRefund
<1>7. Append(<<>>, refund) = <<refund>>
  OBVIOUS
<1> QED
  BY <1>2, <1>3, <1>4, <1>5, <1>6, <1>7, Zenon

\* The commit of Refund marks one payment and writes its only refund.
LEMMA CommitRefundInv ==
    ASSUME IndInv, NEW w \in PayWorkers, CommitRefund(w) PROVE IndInv'
<1> DEFINE o == payReq[w].order
           refund == [amount |-> RefundAmount(payReq[w]), key |-> payReq[w].key]
           row == [payments[o] EXCEPT !.status = "refunded"]
<1>1. /\ payReq[w] \in RefundRequest /\ o \in PayOrders
      /\ payments[o] # Unpaid /\ payments[o].status = "success"
      /\ RefundAmount(payReq[w]) \in 1 .. payments[o].amount
      /\ payReq[w].key # NoKey => ~KeyUsed(payReq[w].key)
      /\ payments' = [payments EXCEPT ![o] = row]
      /\ refunds[o] = <<>>
      /\ refunds' = [refunds EXCEPT ![o] = <<refund>>]
  BY CommitRefundFacts, Zenon
<1>2. PaymentTypeOK /\ PayCommitted(w, "refunded") /\ payPc[w] = "commit"
  BY Zenon DEF IndInv, CommitRefund
<1>3. /\ row \in [status : {"success", "failed", "refunded"}, user : Users, amount : Amounts]
      /\ row.status = "refunded" /\ row.amount = payments[o].amount /\ row.user = payments[o].user
  <2>1. payments[o] \in [status : {"success", "failed", "refunded"}, user : Users,
                         amount : Amounts]
    BY <1>1, <1>2, Zenon DEF PaymentTypeOK, Row
  <2> QED
    BY <2>1, Zenon
<1>4. refund \in Refunded /\ payments[o].amount \in Nat
  <2>1. payments[o].amount \in Nat
    BY <1>1, <1>2, RowFacts, Zenon
  <2>2. RefundAmount(payReq[w]) \in Nat /\ payReq[w].key \in RefundKeys
    BY <1>1, <2>1 DEF RefundRequest
  <2> QED
    BY <2>1, <2>2, Zenon DEF Refunded
<1>5. payments'[o] = row /\ \A x \in PayOrders \ {o} : payments'[x] = payments[x]
  BY <1>1, <1>2, Zenon DEF PaymentTypeOK
<1>6. refunds'[o] = <<refund>> /\ \A x \in PayOrders \ {o} : refunds'[x] = refunds[x]
  BY <1>1, <1>2, Zenon DEF PaymentTypeOK
<1>7. PaymentTypeOK'
  <2>1. row \in Row
    BY <1>3, Zenon DEF Row
  <2>2. payments' \in [PayOrders -> Row]
    BY <1>1, <1>2, <2>1, Zenon DEF PaymentTypeOK
  <2>3. <<refund>> \in Seq(Refunded)
    BY <1>4
  <2>4. refunds' \in [PayOrders -> Seq(Refunded)]
    BY <1>1, <1>2, <2>3, Zenon DEF PaymentTypeOK
  <2> QED
    BY <1>2, <2>2, <2>4, CommittedFacts, Zenon DEF PaymentTypeOK
<1>8. ASSUME NEW key PROVE KeyUsed(key)' <=> KeyUsed(key) \/ key = payReq[w].key
  <2>1. /\ DOMAIN <<refund>> = {1} /\ <<refund>>[1] = refund /\ refund.key = payReq[w].key
        /\ DOMAIN refunds[o] = {}
    BY <1>1
  <2>2. KeyUsed(key)' => KeyUsed(key) \/ key = payReq[w].key
    BY <1>6, <2>1 DEF KeyUsed, PayBook!KeyUsed
  <2>3. KeyUsed(key) => KeyUsed(key)'
    BY <1>6, <2>1 DEF KeyUsed, PayBook!KeyUsed
  <2>4. key = payReq[w].key => KeyUsed(key)'
    BY <1>1, <1>6, <2>1 DEF KeyUsed, PayBook!KeyUsed
  <2> QED
    BY <2>2, <2>3, <2>4, Zenon
<1>9. ASSUME NEW v \in PayWorkers \ {w} PROVE OwnInv(v)'
  <2>1. payPc'[v] = payPc[v] /\ payReq'[v] = payReq[v]
    BY <1>2, CommittedFacts, Zenon DEF OthersUnchanged
  <2>2. ChecksHold(v) /\ Answered(v) /\ Apart(v, w)
    BY Zenon DEF IndInv, RefundChecksHold, AnsweredMeansSettled, Answered
  <2>3. /\ payPc[v] \in Refunding => payReq[v].order \in PayOrders
        /\ payPc[v] \in Paying => payReq[v].order \in PayOrders
    BY <2>2, Zenon DEF ChecksHold, RefundRequest, PayRequest
  <2>4. \A x \in PayOrders : payments[x] # Unpaid =>
           payments'[x] # Unpaid /\ payments'[x].amount = payments[x].amount
    <3>1. Unpaid.status = "none"
      BY Zenon DEF Unpaid, PayBook!Unpaid
    <3> QED
      BY <1>3, <1>5, <3>1, Zenon
  <2>5. ChecksHold(v)'
    <3>1. payPc[v] = "commit" => payReq[v].order # o
      BY <1>2, <2>2, Zenon DEF Apart
    <3>2. payPc[v] \in {"update", "commit"} /\ payReq[v].key # NoKey => payReq[v].key # payReq[w].key
      BY <1>2, <2>2, Zenon DEF Apart
    <3> QED
      BY <1>5, <1>8, <2>1, <2>2, <2>3, <2>4, <3>1, <3>2
         DEF ChecksHold, RefundAmount, Refunding
  <2>6. Answered(v)'
    BY <1>3, <1>5, <1>8, <2>1, <2>2, <2>3, <2>4 DEF Answered, Paying, Refunding
  <2> QED
    BY <2>5, <2>6, Zenon DEF OwnInv
<1>10. OwnInv(w)'
  <2>1. CASE payPc'[w] = "idle"
    BY <2>1, IdleOwnInv, Zenon
  <2>2. CASE payPc'[w] = "refunded" /\ payReq'[w] = payReq[w]
    <3>1. Unpaid.status = "none"
      BY Zenon DEF Unpaid, PayBook!Unpaid
    <3> QED
      BY <1>1, <1>3, <1>5, <2>2, <3>1 DEF OwnInv, ChecksHold, Answered, Paying, Refunding
  <2> QED
    BY <1>2, <2>1, <2>2, CommittedFacts, Zenon
<1>11. ASSUME NEW u \in PayWorkers, NEW v \in PayWorkers, u # v PROVE Apart(u, v)'
  <2>1. payPc'[w] \notin {"update", "commit"}
    BY <1>2, CommittedFacts, Zenon
  <2>2. OthersUnchanged(w)
    BY <1>2, CommittedFacts, Zenon
  <2> QED
    BY <1>11, <2>1, <2>2 DEF Apart, OthersUnchanged, IndInv, RefundChecksHold
<1>12. RefundChecksHold' /\ AnsweredMeansSettled'
  BY <1>9, <1>10, <1>11, Zenon DEF RefundChecksHold, AnsweredMeansSettled, OwnInv, Answered
<1>13. RefundedOnce'
  <2>1. Len(<<refund>>) = 1 /\ <<refund>>[1].amount = RefundAmount(payReq[w])
    BY Zenon
  <2>2. /\ payments'[o].status = "refunded" /\ Len(refunds'[o]) = 1
        /\ refunds'[o][1].amount \in 1 .. payments'[o].amount
    BY <1>1, <1>3, <1>5, <1>6, <2>1
  <2>3. ASSUME NEW x \in PayOrders \ {o}
        PROVE  payments'[x] = payments[x] /\ refunds'[x] = refunds[x]
    BY <1>5, <1>6, Zenon
  <2> HIDE DEF o
  <2> QED
    BY <2>2, <2>3, Zenon DEF IndInv, RefundedOnce
<1>14. KeysAreUnique'
  <2> SUFFICES ASSUME NEW o1 \in PayOrders, NEW o2 \in PayOrders,
                      NEW i \in DOMAIN refunds'[o1], NEW j \in DOMAIN refunds'[o2],
                      refunds'[o1][i].key = refunds'[o2][j].key,
                      refunds'[o1][i].key # NoKey
               PROVE  o1 = o2 /\ i = j
    BY DEF KeysAreUnique
  <2>1. DOMAIN <<refund>> = {1} /\ <<refund>>[1].key = payReq[w].key
    OBVIOUS
  <2>2. CASE o1 # o /\ o2 # o
    BY <1>6, <2>2 DEF IndInv, KeysAreUnique
  <2>3. CASE o1 = o /\ o2 = o
    <3>1. DOMAIN refunds'[o1] = {1} /\ DOMAIN refunds'[o2] = {1}
      BY <1>6, <2>1, <2>3, Zenon
    <3> QED
      BY <2>3, <3>1, Zenon
  <2>4. CASE o1 = o /\ o2 # o
    BY <1>1, <1>6, <2>1, <2>4 DEF KeyUsed, PayBook!KeyUsed
  <2>5. CASE o1 # o /\ o2 = o
    BY <1>1, <1>6, <2>1, <2>5 DEF KeyUsed, PayBook!KeyUsed
  <2> QED
    BY <2>2, <2>3, <2>4, <2>5, Zenon
<1> QED
  BY <1>7, <1>12, <1>13, <1>14, Zenon DEF IndInv

\* A crash, a failed statement or the reply to the caller changes no table.
LEMMA ReturnInv ==
    ASSUME IndInv, NEW w \in PayWorkers, FailPayment(w) \/ Answer(w) PROVE IndInv'
  BY RollbackInv, Zenon DEF FailPayment, Answer, PayRollback

\* Every step a request takes by itself preserves the invariant.
LEMMA ProceedInv ==
    ASSUME IndInv, NEW w \in PayWorkers, ProceedPayment(w) PROVE IndInv'
  BY CreateOrGetInv, SettlePaymentInv, GetRefundByIdempotencyKeyInv, CheckPaymentInv,
     CreateRefundInv, MarkRefundedInv, CommitRefundInv, ReturnInv, Zenon DEF ProceedPayment

\* Empty tables satisfy the inductive invariant.
LEMMA InitInv == PaymentInit => IndInv
<1> SUFFICES ASSUME PaymentInit PROVE IndInv
  OBVIOUS
<1>1. PaymentTypeOK
  <2>1. "idle" \in PayControl /\ NoPayRequest \in PaymentRequest /\ Unpaid \in Row
    BY Zenon DEF PayControl, PaymentRequest, Row
  <2>2. <<>> \in Seq(Refunded)
    OBVIOUS
  <2> QED
    BY <2>1, <2>2, Zenon DEF PaymentInit, PaymentTypeOK
<1>2. RefundChecksHold /\ AnsweredMeansSettled
  BY Zenon DEF PaymentInit, RefundChecksHold, ChecksHold, Apart, AnsweredMeansSettled, Paying, Refunding
<1>3. RefundedOnce /\ KeysAreUnique
  <2>1. Unpaid.status = "none"
    BY Zenon DEF Unpaid, PayBook!Unpaid
  <2> QED
    BY <2>1 DEF PaymentInit, RefundedOnce, KeysAreUnique
<1> QED
  BY <1>1, <1>2, <1>3, Zenon DEF IndInv

\* A step that changes nothing preserves the invariant.
LEMMA StutterInv == IndInv /\ UNCHANGED paymentVars => IndInv'
<1> SUFFICES ASSUME IndInv, UNCHANGED <<payments, refunds, payPc, payReq>> PROVE IndInv'
  BY Zenon DEF paymentVars, payTables
<1>1. PaymentTypeOK' /\ RefundedOnce' /\ KeysAreUnique'
  BY DEF IndInv, PaymentTypeOK, RefundedOnce, KeysAreUnique
<1>2. AnsweredMeansSettled'
  BY Zenon DEF IndInv, AnsweredMeansSettled, KeyUsed, PayBook!KeyUsed
<1>3. \A w \in PayWorkers : ChecksHold(w)'
  BY Zenon DEF IndInv, RefundChecksHold, ChecksHold, RefundAmount, KeyUsed, PayBook!KeyUsed
<1>4. \A u, v \in PayWorkers : u # v => Apart(u, v)'
  BY Zenon DEF IndInv, RefundChecksHold, Apart
<1> QED
  BY <1>1, <1>2, <1>3, <1>4, Zenon DEF IndInv, RefundChecksHold

\* Every step of the service preserves the inductive invariant.
LEMMA NextInv == IndInv /\ [PaymentNext]_paymentVars => IndInv'
<1> SUFFICES ASSUME IndInv, [PaymentNext]_paymentVars PROVE IndInv'
  OBVIOUS
<1>1. CASE UNCHANGED paymentVars
  BY <1>1, StutterInv, Zenon
<1>2. CASE PaymentNext
  <2>1. PICK w \in PayWorkers : CallPayment(w) \/ ProceedPayment(w) \/ FailPayment(w)
    BY <1>2, Zenon DEF PaymentNext
  <2> QED
    BY <2>1, CallInv, ProceedInv, ReturnInv, Zenon
<1> QED
  BY <1>1, <1>2, Zenon

\* The conjunction of the invariants is inductive.
THEOREM Invariance == PaymentSpec => []IndInv
  BY InitInv, NextInv, PTL DEF PaymentSpec

\* Every variable keeps its type, and no payment is ever stored as pending.
THEOREM TypeCorrect == PaymentSpec => []PaymentTypeOK
<1>1. IndInv => PaymentTypeOK
  BY Zenon DEF IndInv
<1> QED
  BY <1>1, Invariance, PTL

\* Whatever number of Refund calls race, a payment is refunded once and within
\* its amount.
THEOREM RefundsOnce == PaymentSpec => []RefundedOnce
<1>1. IndInv => RefundedOnce
  BY Zenon DEF IndInv
<1> QED
  BY <1>1, Invariance, PTL

\* No two refunds, of one payment or of two, have the same idempotency key.
THEOREM RefundKeysAreUnique == PaymentSpec => []KeysAreUnique
<1>1. IndInv => KeysAreUnique
  BY Zenon DEF IndInv
<1> QED
  BY <1>1, Invariance, PTL

\* What a refund read without a lock still holds when it commits.
THEOREM RefundChecksDoHold == PaymentSpec => []RefundChecksHold
<1>1. IndInv => RefundChecksHold
  BY Zenon DEF IndInv
<1> QED
  BY <1>1, Invariance, PTL

\* The answers of ProcessPayment and Refund are true of the tables.
THEOREM AnswersAreSettled == PaymentSpec => []AnsweredMeansSettled
<1>1. IndInv => AnsweredMeansSettled
  BY Zenon DEF IndInv
<1> QED
  BY <1>1, Invariance, PTL

-----------------------------------------------------------------------------
(* Refinement. *)

\* Every step leaves the tables alone or is a commit of one of the two operations.
LEMMA StepsOfTables ==
    ASSUME [PaymentNext]_paymentVars
    PROVE  \/ UNCHANGED payTables
           \/ \E w \in PayWorkers : SettlePayment(w) \/ CommitRefund(w)
<1>1. CASE UNCHANGED paymentVars
  BY <1>1, Zenon DEF paymentVars, payTables
<1>2. ASSUME NEW w \in PayWorkers, CallPayment(w) \/ FailPayment(w) PROVE UNCHANGED payTables
  BY <1>2, Zenon DEF CallPayment, ProcessPayment, Refund, FailPayment, PayRollback
<1>3. ASSUME NEW w \in PayWorkers, CreateOrGetInsert(w) \/ CreateOrGetSelect(w) \/ Answer(w)
      PROVE  UNCHANGED payTables
  BY <1>3, Zenon DEF CreateOrGetInsert, CreateOrGetSelect, Answer, PayRollback
<1>4. ASSUME NEW w \in PayWorkers, GetRefundByIdempotencyKey(w) \/ CheckPayment(w)
      PROVE  UNCHANGED payTables
  BY <1>4, Zenon DEF GetRefundByIdempotencyKey, CheckPayment, PayRollback
<1>5. ASSUME NEW w \in PayWorkers, CreateRefund(w) \/ MarkRefunded(w) PROVE UNCHANGED payTables
  BY <1>5, Zenon DEF CreateRefund, MarkRefunded, PayRollback
<1> QED
  BY <1>1, <1>2, <1>3, <1>4, <1>5, Zenon DEF PaymentNext, ProceedPayment

\* SettlePayment charges an order that was not paid, and otherwise changes nothing.
LEMMA SettleCharges ==
    ASSUME IndInv, NEW w \in PayWorkers, SettlePayment(w)
    PROVE  \/ UNCHANGED payTables
           \/ PayBook!PayCharge(payReq[w].order, payReq[w].user, payReq[w].amount) /\ payReq[w] \in PayRequest
<1> DEFINE o == payReq[w].order
<1>1. payReq[w] \in PayRequest /\ o \in PayOrders /\ PaymentTypeOK
  BY Zenon DEF IndInv, RefundChecksHold, ChecksHold, SettlePayment, Paying, PayRequest
<1>2. CASE payments[o] = Unpaid
  <2>1. RowOf(payReq[w]) = [status |-> "pending", user |-> payReq[w].user, amount |-> payReq[w].amount]
    BY <1>2, Zenon DEF RowOf
  <2>2. UpdateStatusIf(RowOf(payReq[w]), payReq[w].outcome, "pending")
          = PayBook!Settled(payReq[w].outcome, payReq[w].user, payReq[w].amount)
    BY <2>1 DEF UpdateStatusIf, PayBook!Settled
  <2>3. payments' = [payments EXCEPT ![o] =
                       PayBook!Settled(payReq[w].outcome, payReq[w].user, payReq[w].amount)]
    BY <2>2, Zenon DEF SettlePayment
  <2>4. payReq[w].outcome \in {"success", "failed"} /\ refunds' = refunds
    BY <1>1, Zenon DEF PayRequest, SettlePayment
  <2> QED
    BY <1>1, <1>2, <2>3, <2>4, Zenon DEF PayBook!PayCharge, Unpaid
<1>3. CASE payments[o] # Unpaid
  <2>1. payments[o].status # "pending"
    BY <1>1, <1>3, Zenon DEF PaymentTypeOK, Row
  <2>2. UpdateStatusIf(RowOf(payReq[w]), payReq[w].outcome, "pending") = payments[o]
    BY <1>3, <2>1, Zenon DEF RowOf, UpdateStatusIf
  <2>3. payments' = payments
    BY <1>1, <2>2, Zenon DEF SettlePayment, PaymentTypeOK
  <2> QED
    BY <2>3, Zenon DEF SettlePayment, payTables
<1> QED
  BY <1>2, <1>3, Zenon

\* CommitRefund is a refund of the book.
LEMMA CommitRefunds ==
    ASSUME IndInv, NEW w \in PayWorkers, CommitRefund(w)
    PROVE  PayBook!PayNext
<1> DEFINE o == payReq[w].order
           amount == RefundAmount(payReq[w])
<1>1. /\ payReq[w] \in RefundRequest /\ o \in PayOrders
      /\ payments[o].status = "success" /\ amount \in 1 .. payments[o].amount
      /\ payReq[w].key # NoKey => ~KeyUsed(payReq[w].key)
      /\ payments' = [payments EXCEPT ![o] = [payments[o] EXCEPT !.status = "refunded"]]
  BY CommitRefundFacts, Zenon
<1>2. PayBook!PayRefund(o, amount, payReq[w].key)
  BY <1>1, Zenon DEF PayBook!PayRefund, CommitRefund, KeyUsed
<1>3. payReq[w].key \in RefundKeys
  BY <1>1, Zenon DEF RefundRequest
<1> QED
  BY <1>1, <1>2, <1>3, Zenon DEF PayBook!PayNext

\* A payment's life: made once with a final outcome, refunded once if successful.
THEOREM LifecycleHolds == PaymentSpec => PaymentLifecycle
<1> DEFINE Advance(o) ==
      LET old == payments[o]
          new == payments'[o]
      IN  \/ new = old
          \/ old = Unpaid /\ new.status \in {"success", "failed"}
          \/ /\ old.status = "success" /\ new.status = "refunded"
             /\ new.user = old.user /\ new.amount = old.amount
<1>1. ASSUME IndInv, [PaymentNext]_paymentVars, NEW o \in PayOrders PROVE Advance(o)
  <2>1. CASE UNCHANGED payTables
    BY <2>1, Zenon DEF payTables
  <2>2. ASSUME NEW w \in PayWorkers, SettlePayment(w) PROVE Advance(o)
    <3>1. CASE UNCHANGED payTables
      BY <3>1, Zenon DEF payTables
    <3>2. CASE PayBook!PayCharge(payReq[w].order, payReq[w].user, payReq[w].amount)
      BY <1>1, <3>2 DEF PayBook!PayCharge, PayBook!Settled, Unpaid, IndInv, PaymentTypeOK
    <3> QED
      BY <1>1, <2>2, <3>1, <3>2, SettleCharges, Zenon
  <2>3. ASSUME NEW w \in PayWorkers, CommitRefund(w) PROVE Advance(o)
    <3> DEFINE q == payReq[w].order
    <3>1. /\ q \in PayOrders /\ payments[q] # Unpaid /\ payments[q].status = "success"
          /\ payments' = [payments EXCEPT ![q] = [payments[q] EXCEPT !.status = "refunded"]]
      BY <1>1, <2>3, CommitRefundFacts, Zenon
    <3>2. payments[q] \in [status : {"success", "failed", "refunded"}, user : Users,
                           amount : Amounts]
      BY <1>1, <3>1, Zenon DEF IndInv, PaymentTypeOK, Row
    <3>3. payments'[q] = [payments[q] EXCEPT !.status = "refunded"]
          /\ (o # q => payments'[o] = payments[o])
      BY <1>1, <3>1, Zenon DEF IndInv, PaymentTypeOK
    <3> QED
      BY <3>1, <3>2, <3>3
  <2> QED
    BY <1>1, <2>1, <2>2, <2>3, StepsOfTables, Zenon
<1>2. IndInv /\ [PaymentNext]_paymentVars => [\A o \in PayOrders : Advance(o)]_paymentVars
  BY <1>1, Zenon
<1> QED
  BY <1>2, Invariance, PTL DEF PaymentSpec, PaymentLifecycle

\* The concurrent transactions implement the abstract book: an order is charged
\* at most once and refunded at most once, each in one atomic step.
THEOREM Refinement == PaymentSpec => ImplementsPaymentBook
<1>1. PaymentInit => PayBook!PayInit
  BY Zenon DEF PaymentInit, PayBook!PayInit, Unpaid
<1>2. ASSUME IndInv, [PaymentNext]_paymentVars PROVE [PayBook!PayNext]_(PayBook!payVars)
  <2>1. CASE UNCHANGED payTables
    BY <2>1, Zenon DEF payTables, PayBook!payVars
  <2>2. ASSUME NEW w \in PayWorkers, SettlePayment(w) PROVE [PayBook!PayNext]_(PayBook!payVars)
    <3>1. CASE UNCHANGED payTables
      BY <3>1, Zenon DEF payTables, PayBook!payVars
    <3>2. CASE PayBook!PayCharge(payReq[w].order, payReq[w].user, payReq[w].amount)
               /\ payReq[w] \in PayRequest
      BY <3>2, Zenon DEF PayBook!PayNext, PayRequest
    <3> QED
      BY <1>2, <2>2, <3>1, <3>2, SettleCharges, Zenon
  <2> QED
    BY <1>2, <2>1, <2>2, StepsOfTables, CommitRefunds, Zenon
<1> QED
  BY <1>1, <1>2, Invariance, PTL DEF PaymentSpec, ImplementsPaymentBook, PayBook!PaySpec
=============================================================================
