----------------------------- MODULE SagaSettled -----------------------------
(***************************************************************************)
(* Compensation, cancellation and status updates keep the invariant of     *)
(* SagaAlone.tla too; so an order that met no failure and never had two    *)
(* runs at once is settled between its runs.                               *)
(***************************************************************************)
EXTENDS SagaAlone

-----------------------------------------------------------------------------
(* The compensation. *)

UndoingLabels == {"release", "cancelOrder", "cancelSaga"}

\* The only run on an order that gives back what the order took.
LEMMA AtUndo ==
    ASSUME NEW r, NEW o, Phase(r, o), pc[r] \in UndoingLabels
    PROVE  ~tries[r].expired /\ job[r].kind \in {"create", "cancel"} /\ InUndo(r, o)
  BY ZenonT(30) DEF Phase, InCheckout, UndoingLabels

\* What such a run must have done to be at label with copy s.
Undoing(label, s, o) ==
    /\ Known(o, s, reservations') /\ MayUndo(label, s, o)
    /\ payments'[o].status # "success"
    /\ label = "cancelSaga" => orders'[o].status = "cancelled"

\* It goes on to the next part of the compensation.
LEMMA GoUndo ==
    ASSUME Types, NEW r \in Runs, NEW o, job[r].order = o, job[r].kind \in {"create", "cancel"},
           ~tries[r].expired, NEW s \in SagaRow, NEW label \in UndoingLabels,
           Remember(r, s, label), Undoing(label, s, o)
    PROVE  Carries(r, o)
<1>1. Went(r, s, label)
  BY GotoStep, Zenon
<1>2. \A i \in DOMAIN s.items : ~(i < 1)
  <2>1. DOMAIN s.items = 1 .. Len(s.items) /\ Len(s.items) \in Nat
    BY SagaFields, Zenon
  <2> QED
    BY <2>1
<1>3. UndoneSoFar(r)'
  BY <1>1, <1>2, ZenonT(30) DEF Undoing, MayUndo, UndoneSoFar, Went
<1>4. InUndo(r, o)'
  BY <1>1, <1>3, Zenon DEF Undoing, InUndo, UndoingLabels, Went
<1> QED
  BY <1>1, <1>4, Zenon DEF Carries, Phase, UndoingLabels, Went

\* An undisturbed order is never marked failed, and never cancelled before it is bought.
LEMMA NeverAlone ==
    ASSUME IndInv, AloneInv, NEW r \in Runs, MarkFailed(r) \/ CancelDirectly(r)
    PROVE  AloneInv'
<1>1. pc[r] \in {"markFailed", "cancelDirectly"} /\ pc[r] # "idle"
  BY Zenon DEF MarkFailed, CancelDirectly
<1>2. PICK o \in Followed : job[r].order = o /\ WorksOn(r, o) /\ Types
  BY <1>1, OnOrder, Zenon
<1>3. ~Phase(r, o)
  BY <1>1, Zenon DEF Phase, InCheckout, InUndo
<1>4. (NoFault \/ Fault(o)) /\ Return(r) /\ Writes(o)
  <2>1. CASE MarkFailed(r)
    <3>1. /\ sagas' = sagas \/ sagas' = [sagas EXCEPT ![o] = [mem[r] EXCEPT !.status = "failed"]]
          /\ UNCHANGED <<orders, services>> /\ (NoFault \/ Fault(o)) /\ Return(r)
      BY <1>2, <2>1, Zenon DEF MarkFailed, Save, Call
    <3> QED
      BY <3>1, SaveWrites, Zenon
  <2>2. CASE CancelDirectly(r)
    <3>1. /\ orders' = orders \/ orders' = [orders EXCEPT ![o].status = "cancelled"]
          /\ UNCHANGED <<sagas, services>> /\ (NoFault \/ Fault(o)) /\ Return(r)
      BY <1>2, <2>2, Zenon DEF CancelDirectly, UpdateStatus, Call
    <3> QED
      BY <3>1, Zenon DEF Writes, services, OrderStatuses
  <2> QED
    BY <2>1, <2>2, Zenon
<1>5. Steps(r)
  BY <1>2, <1>4, ReturnStep, Zenon
<1> QED
  BY <1>2, <1>3, <1>4, <1>5, StepAlone, Zenon

\* A refused reservation or payment leads to the release of what is on record; there
\* is no payment to give back.
LEMMA MarkCompensatingAlone ==
    ASSUME IndInv, AloneInv, NEW r \in Runs, MarkCompensating(r) PROVE AloneInv'
<1> DEFINE s     == [mem[r] EXCEPT !.status = "compensating"]
           label == compensationPlan[mem[r].status]
<1>1. pc[r] = "markCompensating" /\ pc[r] # "idle" /\ pc[r] \in CheckoutLabels
  BY Zenon DEF MarkCompensating, CheckoutLabels
<1>2. PICK o \in Followed : /\ job[r].order = o /\ WorksOn(r, o) /\ Types /\ o \in Orders
                            /\ mem[r] \in SagaRow
  BY <1>1, OnOrder, Zenon
<1>3. /\ sagas' = sagas \/ sagas' = [sagas EXCEPT ![o] = s]
      /\ UNCHANGED <<orders, services>> /\ (NoFault \/ Fault(o))
      /\ Remember(r, s, label)
  BY <1>2, Zenon DEF MarkCompensating, Save, Call
<1>4. s \in SagaRow /\ s.items = mem[r].items /\ s.paymentID = mem[r].paymentID
  BY <1>2, StatusWritten, Zenon DEF SagaStatus
<1> HIDE DEF s
<1>5. /\ Writes(o) /\ payments' = payments /\ reservations' = reservations
  BY <1>3, SaveWrites, Zenon
<1>6. Steps(r)
  BY <1>2, <1>3, GotoStep, Zenon
<1>7. ASSUME Phase(r, o) PROVE Carries(r, o)
  <2>1. /\ ~tries[r].expired /\ job[r].kind = "create"
        /\ InCheckout(o, pc[r], mem[r], reservations, payments[o], orders[o].status)
    BY <1>1, <1>7, AtCheckout, Zenon
  <2>2. mem[r].status \in {"reserving", "paying"} /\ ~mem[r].paymentID
    BY <1>1, <2>1, Zenon DEF InCheckout
  <2>3. label = "release"
    BY <2>2, NextSteps, Zenon
  <2> HIDE DEF label
  <2>4. payments[o].status # "success"
    <3>1. payments[o] = Pay!Unpaid
      BY <2>1, <2>2, Zenon DEF InCheckout
    <3> QED
      BY <3>1 DEF Pay!Unpaid
  <2>5. Known(o, s, reservations)
    <3>1. Known(o, mem[r], reservations)
      BY <2>1, Zenon DEF InCheckout
    <3> QED
      BY <1>4, <3>1 DEF Known
  <2>6. Undoing(label, s, o)
    BY <1>4, <1>5, <2>2, <2>3, <2>4, <2>5, Zenon DEF Undoing, MayUndo
  <2>7. label \in UndoingLabels
    BY <2>3, Zenon DEF UndoingLabels
  <2> QED
    BY <1>2, <1>3, <1>4, <2>1, <2>6, <2>7, GoUndo, Zenon
<1> QED
  BY <1>2, <1>3, <1>5, <1>6, <1>7, StepAlone, Zenon

\* The copy that CancelOrder compensates is the stored saga.
LEMMA GoRefund ==
    ASSUME NEW r \in Runs, NEW o, Went(r, sagas[o], "refund"), SameOrder(o),
           ~tries[r].expired, job[r].kind = "cancel", Bought(o)'
    PROVE  Carries(r, o)
  BY Zenon DEF Carries, Phase, Went, SameOrder

\* CancelOrder reads the saga of an order that was bought.
LEMMA LoadForCancelAlone ==
    ASSUME IndInv, AloneInv, NEW r \in Runs, LoadForCancel(r) PROVE AloneInv'
<1>1. pc[r] = "loadForCancel" /\ pc[r] # "idle"
  BY Zenon DEF LoadForCancel
<1>2. PICK o \in Followed : /\ job[r].order = o /\ WorksOn(r, o) /\ Types /\ o \in Orders
                            /\ TablesOK
  BY <1>1, OnOrder, Zenon
<1>3. Call(r, o, sagas[o] # NoSaga, TRUE, TRUE, Remember(r, sagas[o], "refund"), Return(r))
  BY <1>2, Zenon DEF LoadForCancel
<1>4. UNCHANGED <<orders, sagas, services>>
  BY Zenon DEF LoadForCancel
<1>5. (NoFault \/ Fault(o)) /\ (Remember(r, sagas[o], "refund") \/ Return(r))
  BY <1>3, Zenon DEF Call
<1>6. Writes(o) /\ SameOrder(o)
  BY <1>4, NoTables, Zenon DEF Writes
<1>7. Steps(r)
  BY <1>2, <1>5, GotoStep, ReturnStep, Zenon
<1>8. ASSUME Phase(r, o), o \notin disturbed' PROVE Carries(r, o)
  <2>1. ~tries[r].expired /\ job[r].kind = "cancel" /\ Bought(o)
    BY <1>1, <1>8, Zenon DEF Phase, InCheckout, InUndo
  <2>2. sagas[o] # NoSaga
    BY <2>1 DEF Bought, NoSaga
  <2>3. Remember(r, sagas[o], "refund")
    BY <1>3, <1>8, <2>1, <2>2, Zenon DEF Call, Fault
  <2>4. Bought(o)'
    BY <1>2, <1>6, <2>1, SameTables, Zenon DEF TablesOK
  <2>5. Went(r, sagas[o], "refund")
    BY <1>2, <2>3, GotoStep, Zenon
  <2> QED
    BY <1>6, <2>1, <2>4, <2>5, GoRefund, Zenon
<1> QED
  BY <1>2, <1>5, <1>6, <1>7, <1>8, StepAlone, Zenon

\* A run that tries again or gives up leaves an order that it has not touched bought.
LEMMA RefusedRefund ==
    ASSUME Types, NEW r \in Runs, NEW o, Bought(o)', sagas'[o] = mem[r], pc[r] = "refund",
           job[r].kind = "cancel", RetryOr(r, GiveUp(r, "release"))
    PROVE  Carries(r, o)
<1>1. CASE Retry(r)
  <2>1. pc'[r] = pc[r] /\ job'[r] = job[r] /\ mem'[r] = mem[r] /\ ~tries'[r].expired
    BY <1>1, RetryStep, Zenon
  <2> QED
    BY <2>1, Zenon DEF Carries, Phase
<1>2. CASE GiveUp(r, "release")
  <2>1. Return(r)
    BY <1>2, Zenon DEF GiveUp, Cancelling
  <2> QED
    BY <2>1, ReturnStep, Zenon DEF Carries
<1> QED
  BY <1>1, <1>2, Zenon DEF RetryOr

\* The refund of an undisturbed order is carried out, or refused with nothing done.
LEMMA RefundPaymentAlone ==
    ASSUME IndInv, AloneInv, NEW r \in Runs, RefundPayment(r) PROVE AloneInv'
<1>1. pc[r] = "refund" /\ pc[r] # "idle"
  BY Zenon DEF RefundPayment
<1>2. PICK o \in Followed : /\ job[r].order = o /\ WorksOn(r, o) /\ Types /\ o \in Orders
                            /\ TablesOK /\ GoodFor(o, mem[r]) /\ mem[r] \in SagaRow
  BY <1>1, OnOrder, Zenon
<1> DEFINE key     == RefundKey(r)
           Refused == RetryOr(r, GiveUp(r, "release"))
<1>3. \/ ~mem[r].paymentID /\ Skip(r, "release") /\ NoFault /\ UNCHANGED <<payments, refunds>>
      \/ /\ mem[r].paymentID
         /\ Call(r, o, RefundAccepted(o, key), Refund(o, key), UNCHANGED <<payments, refunds>>,
                 Skip(r, "release"), Refused)
  BY <1>2, Zenon DEF RefundPayment
<1>4. /\ UNCHANGED <<orders, sagas, bookVars>>
      /\ orders' = orders /\ sagas' = sagas /\ reservations' = reservations
  BY Zenon DEF RefundPayment, bookVars
<1>5. /\ Refund(o, key) \/ UNCHANGED <<payments, refunds>>
      /\ NoFault \/ Fault(o)
      /\ Skip(r, "release") \/ Refused
  BY <1>3, Zenon DEF Call
<1>6. Writes(o)
  <2>1. payments' = payments \/ \E row : payments' = [payments EXCEPT ![o] = row]
    BY <1>5, Zenon DEF Refund, Pay!PayRefund
  <2> QED
    BY <1>4, <2>1, Zenon DEF Writes
<1>7. Steps(r)
  BY <1>2, <1>5, OtherSteps, Zenon
<1>8. ASSUME Phase(r, o), o \notin disturbed' PROVE Carries(r, o)
  <2>1. ~tries[r].expired /\ job[r].kind = "cancel" /\ Bought(o) /\ mem[r] = sagas[o]
    BY <1>1, <1>8, Zenon DEF Phase, InCheckout, InUndo
  <2>2. mem[r].paymentID /\ Known(o, mem[r], reservations)
    BY <1>2, <2>1, Zenon DEF Bought, GoodFor, GoodCopy
  <2>3. \/ RefundAccepted(o, key) /\ Refund(o, key) /\ Skip(r, "release")
        \/ UNCHANGED <<payments, refunds>> /\ Refused
    BY <1>3, <1>8, <2>1, <2>2, Zenon DEF Call, Fault
  <2>4. CASE RefundAccepted(o, key) /\ Refund(o, key) /\ Skip(r, "release")
    <3>1. payments'[o].status = "refunded"
      BY <1>2, <1>4, <2>1, <2>4, RefundTables, Zenon DEF RefundKey
    <3>2. Undoing("release", mem[r], o)
      BY <1>4, <2>2, <3>1, Zenon DEF Undoing, MayUndo
    <3>3. Remember(r, mem[r], "release")
      BY <1>2, <2>4, SkipRemembers, Zenon
    <3> QED
      BY <1>2, <2>1, <3>2, <3>3, GoUndo, Zenon DEF UndoingLabels
  <2>5. CASE UNCHANGED <<payments, refunds>> /\ Refused
    <3>1. SameOrder(o) /\ sagas'[o] = mem[r]
      BY <1>4, <2>1, <2>5, Zenon DEF SameOrder
    <3>2. Bought(o)'
      BY <1>2, <2>1, <3>1, SameTables, Zenon
    <3> QED
      BY <1>1, <1>2, <2>1, <2>5, <3>1, <3>2, RefusedRefund, Zenon
  <2> QED
    BY <2>3, <2>4, <2>5, Zenon
<1> QED
  BY <1>2, <1>5, <1>6, <1>7, <1>8, StepAlone, Zenon

\* What Release leaves in the rows of the order.
LEMMA ReleaseRows ==
    ASSUME TablesOK, NEW o \in Orders, NEW line \in Line, Release(o, line)
    PROVE  /\ \A p \in Products : reservations'[<<o, p>>].status = "reserved" =>
                 reservations[<<o, p>>].status = "reserved"
           /\ \/ reservations' = reservations
              \/ \E p \in Products : \E row :
                    reservations' = [reservations EXCEPT ![<<o, p>>] = row]
<1>1. line.product \in Products /\ reservations \in [Keys -> Reservation]
  BY Zenon DEF Line, TablesOK, BookTypeOK
<1>2. CASE UNCHANGED bookVars
  BY <1>2, Zenon DEF bookVars
<1>3. CASE BookRelease(o, line.product)
  <2>1. PICK q : reservations' = [reservations EXCEPT ![<<o, line.product>>] =
                                    [quantity |-> q, status |-> "released"]]
    BY <1>3, Zenon DEF BookRelease
  <2> QED
    BY <1>1, <2>1, Zenon DEF Keys
<1> QED
  BY <1>2, <1>3, Zenon DEF Release

\* A line on record is never refused.
LEMMA ReleaseIsAccepted ==
    ASSUME TablesOK, NEW o \in Orders, NEW s \in SagaRow, GoodFor(o, s),
           NEW i \in DOMAIN s.items
    PROVE  ReleaseAccepted(o, s.items[i])
<1> DEFINE line == s.items[i]
           row  == reservations[<<o, line.product>>]
<1>1. line.product \in Products
  BY SagaFields, Zenon
<1>2. row \in Reservation
  BY <1>1, Zenon DEF TablesOK, BookTypeOK, Keys
<1>3. row.status # "none" /\ row.quantity = line.quantity
  BY Zenon DEF GoodFor, GoodCopy
<1> HIDE DEF row
<1>4. row.status \in {"reserved", "released"} /\ row = [quantity |-> row.quantity,
                                                       status   |-> row.status]
  BY <1>2, <1>3 DEF Reservation, ReservationStatus
<1>5. \/ row = [quantity |-> line.quantity, status |-> "reserved"]
      \/ row = [quantity |-> line.quantity, status |-> "released"]
  BY <1>3, <1>4, Zenon
<1> QED
  BY <1>5, Zenon DEF row, ReleaseAccepted, ReleaseIsRetry, ReserveIsRetry

\* One more line is released.
LEMMA ReleaseItemAlone ==
    ASSUME IndInv, AloneInv, NEW r \in Runs, ReleaseItem(r) PROVE AloneInv'
<1> DEFINE pos  == tries[r].pos
           line == mem[r].items[pos]
<1>1. pc[r] = "release" /\ pc[r] # "idle" /\ pc[r] \in UndoingLabels
  BY Zenon DEF ReleaseItem, UndoingLabels
<1>2. PICK o \in Followed : /\ job[r].order = o /\ WorksOn(r, o) /\ Types /\ o \in Orders
                            /\ TablesOK /\ GoodFor(o, mem[r]) /\ mem[r] \in SagaRow
  BY <1>1, OnOrder, Zenon
<1>3. /\ pos \in DOMAIN mem[r].items /\ pos \in Nat /\ line \in Line
      /\ DOMAIN mem[r].items = 1 .. Len(mem[r].items)
      /\ \A i \in DOMAIN mem[r].items : mem[r].items[i].product \in Products
  <2>1. pos \in Nat \ {0} /\ pos <= Len(mem[r].items)
    BY <1>2, Zenon DEF Types, Tries, ReleaseItem
  <2>2. /\ DOMAIN mem[r].items = 1 .. Len(mem[r].items) /\ Len(mem[r].items) \in Nat
        /\ \A i \in DOMAIN mem[r].items : mem[r].items[i].product \in Products
        /\ mem[r].items \in Seq(Line)
    BY <1>2, SagaFields, Zenon
  <2> HIDE DEF pos
  <2>3. pos \in DOMAIN mem[r].items /\ pos \in Nat
    BY <2>1, <2>2
  <2>4. line \in Line
    BY <2>2, <2>3
  <2> QED
    BY <2>2, <2>3, <2>4, Zenon
<1>4. Call(r, o, ReleaseAccepted(o, line), Release(o, line), UNCHANGED bookVars,
           NextLine(r, FALSE), NextLine(r, TRUE))
  BY <1>2, Zenon DEF ReleaseItem
<1>5. /\ UNCHANGED <<orders, sagas, payments, refunds>>
      /\ orders' = orders /\ sagas' = sagas /\ payments' = payments
  BY Zenon DEF ReleaseItem
<1>6. ReleaseAccepted(o, line)
  BY <1>2, <1>3, ReleaseIsAccepted, Zenon
<1> HIDE DEF line
<1>7. /\ Release(o, line) \/ UNCHANGED bookVars
      /\ NoFault \/ Fault(o)
      /\ \E failed \in BOOLEAN : NextLine(r, failed)
  BY <1>4, Zenon DEF Call
<1>8. Writes(o)
  <2>1. \/ reservations' = reservations
        \/ \E p \in Products : \E row : reservations' = [reservations EXCEPT ![<<o, p>>] = row]
    BY <1>2, <1>3, <1>7, ReleaseRows, Zenon DEF bookVars
  <2> QED
    BY <1>5, <2>1, Zenon DEF Writes
<1>9. Steps(r)
  BY <1>2, <1>7, LineStep, Zenon
<1>10. ASSUME Phase(r, o), o \notin disturbed' PROVE Carries(r, o)
  <2>1. ~tries[r].expired /\ job[r].kind \in {"create", "cancel"} /\ InUndo(r, o)
    BY <1>1, <1>10, AtUndo, Zenon
  <2>2. Release(o, line) /\ NextLine(r, FALSE)
    BY <1>4, <1>6, <1>10, <2>1, Zenon DEF Call, Fault
  <2>3. /\ pc'[r] = pc[r] /\ job'[r] = job[r] /\ mem'[r] = mem[r] /\ ~tries'[r].bad
        /\ tries'[r].expired = tries[r].expired /\ tries'[r].pos = pos + 1
    BY <1>2, <2>1, <2>2, LineStep, Zenon DEF InUndo
  <2>4. /\ Grow /\ reservations'[<<o, line.product>>].status = "released"
    BY <1>2, <1>3, <1>5, <2>2, ReleaseTables, Zenon
  <2>5. Known(o, mem[r], reservations')
    BY <1>2, <1>3, <2>1, <2>2, ReleaseRows, Zenon DEF InUndo, Known
  <2>6. UndoneSoFar(r)'
    <3>1. mem[r].paymentID => payments[o].status = "refunded"
      BY <1>1, <1>2, <2>1, Zenon DEF InUndo, UndoneSoFar, UndoLabels
    <3>2. ASSUME NEW i \in DOMAIN mem[r].items, i < pos + 1
          PROVE  reservations'[<<o, mem[r].items[i].product>>].status = "released"
      <4>1. CASE i = pos
        BY <2>4, <4>1, Zenon DEF line
      <4>2. CASE i # pos
        <5>1. i < pos
          BY <1>3, <3>2, <4>2
        <5>2. reservations[<<o, mem[r].items[i].product>>].status = "released"
          BY <1>1, <1>2, <2>1, <5>1, Zenon DEF InUndo, UndoneSoFar
        <5> QED
          BY <1>2, <1>3, <2>4, <5>2, Zenon DEF Grow
      <4> QED
        BY <4>1, <4>2, Zenon
    <3> QED
      BY <1>1, <1>2, <1>5, <2>3, <3>1, <3>2, Zenon DEF UndoneSoFar
  <2>7. InUndo(r, o)'
    BY <1>1, <1>5, <2>1, <2>3, <2>5, <2>6, Zenon DEF InUndo
  <2> QED
    BY <1>1, <2>1, <2>3, <2>7, Zenon DEF Carries, Phase
<1> QED
  BY <1>2, <1>7, <1>8, <1>9, <1>10, StepAlone, Zenon

\* Every line is released.
LEMMA ReleaseDoneAlone ==
    ASSUME IndInv, AloneInv, NEW r \in Runs, ReleaseDone(r) PROVE AloneInv'
<1>1. pc[r] = "release" /\ pc[r] # "idle" /\ pc[r] \in UndoingLabels
  BY Zenon DEF ReleaseDone, UndoingLabels
<1>2. PICK o \in Followed : /\ job[r].order = o /\ WorksOn(r, o) /\ Types
                            /\ mem[r] \in SagaRow
  BY <1>1, OnOrder, Zenon
<1>3. NoFault /\ UNCHANGED <<orders, sagas, services>>
  BY Zenon DEF ReleaseDone
<1>4. Writes(o) /\ payments' = payments /\ reservations' = reservations
  BY <1>3, NoTables, Zenon DEF Writes
<1>5. Steps(r)
  <2>1. Skip(r, "cancelOrder") \/ RetryOr(r, GiveUp(r, "cancelOrder"))
    BY Zenon DEF ReleaseDone
  <2> QED
    BY <1>2, <2>1, OtherSteps, Zenon
<1>6. ASSUME Phase(r, o) PROVE Carries(r, o)
  <2>1. ~tries[r].expired /\ job[r].kind \in {"create", "cancel"} /\ InUndo(r, o)
    BY <1>1, <1>6, AtUndo, Zenon
  <2>2. Remember(r, mem[r], "cancelOrder")
    BY <1>2, <2>1, SkipRemembers, Zenon DEF InUndo, ReleaseDone
  <2>3. \A i \in DOMAIN mem[r].items : i < tries[r].pos
    <3>1. DOMAIN mem[r].items = 1 .. Len(mem[r].items) /\ Len(mem[r].items) \in Nat
      BY <1>2, SagaFields, Zenon
    <3>2. tries[r].pos \in Nat /\ tries[r].pos > Len(mem[r].items)
      BY <1>2, Zenon DEF Types, Tries, ReleaseDone
    <3> QED
      BY <3>1, <3>2
  <2>4. Undoing("cancelOrder", mem[r], o)
    <3>1. mem[r].paymentID => payments[o].status = "refunded"
      BY <1>1, <1>2, <2>1, Zenon DEF InUndo, UndoneSoFar, UndoLabels
    <3>2. \A i \in DOMAIN mem[r].items :
             reservations[<<o, mem[r].items[i].product>>].status = "released"
      BY <1>1, <1>2, <2>1, <2>3, Zenon DEF InUndo, UndoneSoFar
    <3>3. Known(o, mem[r], reservations) /\ payments[o].status # "success"
      BY <2>1, Zenon DEF InUndo
    <3> QED
      BY <1>4, <3>1, <3>2, <3>3, Zenon DEF Undoing, MayUndo
  <2> QED
    BY <1>2, <2>1, <2>2, <2>4, GoUndo, Zenon DEF UndoingLabels
<1> QED
  BY <1>2, <1>3, <1>4, <1>5, <1>6, StepAlone, Zenon

\* The order is marked cancelled.
LEMMA CancelOrderRowAlone ==
    ASSUME IndInv, AloneInv, NEW r \in Runs, CancelOrderRow(r) PROVE AloneInv'
<1> DEFINE Cancelled(o) == orders' = [orders EXCEPT ![o].status = "cancelled"]
<1>1. pc[r] = "cancelOrder" /\ pc[r] # "idle" /\ pc[r] \in UndoingLabels
  BY Zenon DEF CancelOrderRow, UndoingLabels
<1>2. PICK o \in Followed : /\ job[r].order = o /\ WorksOn(r, o) /\ Types /\ o \in Orders
                            /\ mem[r] \in SagaRow /\ TablesOK /\ orders[o] # NoOrder
  BY <1>1, OnOrder, Zenon
<1>3. Call(r, o, TRUE, Cancelled(o), UNCHANGED orders, Skip(r, "cancelSaga"),
           GiveUp(r, "cancelSaga"))
  BY <1>2, Zenon DEF CancelOrderRow, UpdateStatus
<1>4. sagas' = sagas /\ payments' = payments /\ reservations' = reservations
  BY Zenon DEF CancelOrderRow, UpdateStatus, services
<1>5. /\ orders' = orders \/ Cancelled(o)
      /\ NoFault \/ Fault(o)
      /\ Skip(r, "cancelSaga") \/ GiveUp(r, "cancelSaga")
  BY <1>3, Zenon DEF Call
<1>6. Writes(o)
  BY <1>4, <1>5, Zenon DEF Writes, OrderStatuses
<1>7. Steps(r)
  BY <1>2, <1>5, OtherSteps, Zenon
<1>8. ASSUME Phase(r, o), o \notin disturbed' PROVE Carries(r, o)
  <2>1. ~tries[r].expired /\ job[r].kind \in {"create", "cancel"} /\ InUndo(r, o)
    BY <1>1, <1>8, AtUndo, Zenon
  <2>2. Cancelled(o) /\ Skip(r, "cancelSaga")
    BY <1>3, <1>8, <2>1, Zenon DEF Call, Fault
  <2>3. Remember(r, mem[r], "cancelSaga")
    BY <1>2, <2>2, SkipRemembers, Zenon
  <2>4. orders'[o].status = "cancelled"
    BY <1>2, <2>2, Zenon DEF TablesOK, OrderRow
  <2>5. Undoing("cancelSaga", mem[r], o)
    BY <1>1, <1>2, <1>4, <2>1, <2>4, Zenon DEF InUndo, UndoneSoFar, Undoing, MayUndo, UndoLabels
  <2> QED
    BY <1>2, <2>1, <2>3, <2>5, GoUndo, Zenon DEF UndoingLabels
<1> QED
  BY <1>2, <1>5, <1>6, <1>7, <1>8, StepAlone, Zenon

\* The saga is marked cancelled, with everything given back.
LEMMA CancelSagaRowAlone ==
    ASSUME IndInv, AloneInv, NEW r \in Runs, CancelSagaRow(r) PROVE AloneInv'
<1> DEFINE s == [mem[r] EXCEPT !.status = "cancelled"]
<1>1. pc[r] = "cancelSaga" /\ pc[r] # "idle" /\ pc[r] \in UndoingLabels
  BY Zenon DEF CancelSagaRow, UndoingLabels
<1>2. PICK o \in Followed : /\ job[r].order = o /\ WorksOn(r, o) /\ Types /\ o \in Orders
                            /\ mem[r] \in SagaRow /\ TablesOK
  BY <1>1, OnOrder, Zenon
<1>3. Call(r, o, TRUE, sagas' = [sagas EXCEPT ![o] = s], UNCHANGED sagas, Return(r), Return(r))
  BY <1>2, Zenon DEF CancelSagaRow, Save
<1>4. s.status = "cancelled"
  BY <1>2, StatusWritten, Zenon DEF SagaStatus
<1> HIDE DEF s
<1>5. /\ sagas' = sagas \/ sagas' = [sagas EXCEPT ![o] = s]
      /\ UNCHANGED <<orders, services>> /\ (NoFault \/ Fault(o)) /\ Return(r)
  BY <1>3, Zenon DEF Call, CancelSagaRow, Save
<1>6. Writes(o) /\ orders' = orders /\ payments' = payments /\ reservations' = reservations
  BY <1>5, SaveWrites, Zenon
<1>7. Steps(r) /\ pc'[r] = "idle"
  BY <1>2, <1>5, ReturnStep, Zenon
<1>8. ASSUME Phase(r, o), o \notin disturbed' PROVE Carries(r, o)
  <2>1. ~tries[r].expired /\ InUndo(r, o)
    BY <1>1, <1>8, AtUndo, Zenon
  <2>2. sagas'[o].status = "cancelled"
    <3>1. sagas' = [sagas EXCEPT ![o] = s]
      BY <1>3, <1>8, <2>1, Zenon DEF Call, Fault
    <3> QED
      BY <1>2, <1>4, <3>1, Zenon DEF TablesOK
  <2>3. \A p \in Products : reservations[<<o, p>>].status # "reserved"
    <3>1. \A i \in DOMAIN mem[r].items :
             reservations[<<o, mem[r].items[i].product>>].status = "released"
      BY <1>1, <1>2, <2>1, Zenon DEF InUndo, UndoneSoFar
    <3>2. Known(o, mem[r], reservations)
      BY <2>1, Zenon DEF InUndo
    <3> QED
      BY <3>1, <3>2, Zenon DEF Known
  <2>4. payments[o].status # "success" /\ orders[o].status = "cancelled"
    BY <1>1, <2>1, Zenon DEF InUndo
  <2>5. GivenBack(o)'
    BY <1>6, <2>2, <2>3, <2>4, Zenon DEF GivenBack, Compensated
  <2> QED
    BY <1>7, <2>5, Zenon DEF Carries
<1> QED
  BY <1>2, <1>5, <1>6, <1>7, <1>8, StepAlone, Zenon

\* An order that has been paid for does not go back to waiting for its payment.
LEMMA NoWayBack ==
    ASSUME NEW status \in OrderStatuses \ {"pending", "awaiting_payment"}, NEW target,
           CanTransition(status, target)
    PROVE  target \notin {"pending", "awaiting_payment"}
<1>1. /\ allowedTransitions["unspecified"] = {} /\ allowedTransitions["cancelled"] = {}
      /\ allowedTransitions["refunded"] = {} /\ allowedTransitions["delivered"] = {"refunded"}
      /\ allowedTransitions["paid"] = {"processing", "cancelled", "refunded"}
      /\ allowedTransitions["processing"] = {"shipped", "cancelled", "refunded"}
      /\ allowedTransitions["shipped"] = {"delivered", "cancelled", "refunded"}
  BY Zenon DEF allowedTransitions
<1>2. status \in {"unspecified", "paid", "processing", "shipped", "delivered", "cancelled",
                  "refunded"}
  BY Zenon DEF OrderStatuses
<1>3. \A x \in allowedTransitions[status] : x \notin {"pending", "awaiting_payment"}
  BY <1>1, <1>2, Zenon
<1> QED
  BY <1>3, Zenon DEF CanTransition

\* UpdateOrderStatus moves a settled order, and leaves it settled.
LEMMA SetStatusAlone ==
    ASSUME IndInv, AloneInv, NEW r \in Runs, SetStatus(r) PROVE AloneInv'
<1> DEFINE target == job[r].target
           Updated(o) == orders' = [orders EXCEPT ![o].status = target]
<1>1. pc[r] = "setStatus" /\ pc[r] # "idle"
  BY Zenon DEF SetStatus
<1>2. PICK o \in Followed : /\ job[r].order = o /\ WorksOn(r, o) /\ Types /\ o \in Orders
                            /\ TablesOK /\ Working(r) /\ orders[o] # NoOrder
  BY <1>1, OnOrder, Zenon
<1>3. target \in OrderStatuses
  <2>1. job[r].kind = "update" /\ job[r] \in Job
    BY <1>1, <1>2, Zenon DEF Working, TaskFits, Types
  <2> QED
    BY <2>1, SagaAssumption DEF Job, NoJob
<1>4. Call(r, o, TRUE, Updated(o), UNCHANGED orders, Return(r), Return(r))
  BY <1>2, Zenon DEF SetStatus, UpdateStatus
<1> HIDE DEF target
<1>5. sagas' = sagas /\ payments' = payments /\ reservations' = reservations
  BY Zenon DEF SetStatus, UpdateStatus, services
<1>6. (orders' = orders \/ Updated(o)) /\ (NoFault \/ Fault(o)) /\ Return(r)
  BY <1>4, Zenon DEF Call
<1>7. Writes(o)
  BY <1>3, <1>5, <1>6, Zenon DEF Writes
<1>8. Steps(r) /\ pc'[r] = "idle"
  BY <1>2, <1>6, ReturnStep, Zenon
<1>9. ASSUME Phase(r, o), o \notin disturbed' PROVE Carries(r, o)
  <2>1. /\ ~tries[r].expired
        /\ \/ Bought(o) /\ CanTransition(orders[o].status, target)
           \/ GivenBack(o) /\ target = "cancelled"
    BY <1>1, <1>9, Zenon DEF Phase, InCheckout, InUndo, target
  <2>2. orders'[o].status = target
    <3>1. Updated(o)
      BY <1>4, <1>9, <2>1, Zenon DEF Call, Fault
    <3> QED
      BY <1>2, <3>1, Zenon DEF TablesOK, OrderRow
  <2>3. CASE Bought(o) /\ CanTransition(orders[o].status, target)
    <3>1. orders[o].status \in OrderStatuses
      BY <1>2, Zenon DEF TablesOK, OrderRow
    <3>2. target \notin {"pending", "awaiting_payment"}
      BY <2>3, <3>1, NoWayBack, Zenon DEF Bought
    <3>3. Bought(o)'
      BY <1>5, <2>2, <2>3, <3>2, Zenon DEF Bought
    <3> QED
      BY <1>8, <3>3, Zenon DEF Carries
  <2>4. CASE GivenBack(o) /\ target = "cancelled"
    <3>1. GivenBack(o)'
      BY <1>5, <2>2, <2>4, Zenon DEF GivenBack, Compensated
    <3> QED
      BY <1>8, <3>1, Zenon DEF Carries
  <2> QED
    BY <2>1, <2>3, <2>4, Zenon
<1> QED
  BY <1>2, <1>6, <1>7, <1>8, <1>9, StepAlone, Zenon

\* A deadline or a crash counts as a disturbance of the order.
LEMMA FaultAlone ==
    ASSUME IndInv, AloneInv, NEW r \in Runs, Expire(r) \/ Crash(r) PROVE AloneInv'
<1>1. pc[r] # "idle"
  BY Zenon DEF Expire, Crash
<1>2. PICK o \in Followed : job[r].order = o /\ WorksOn(r, o) /\ Types
  BY <1>1, OnOrder, Zenon
<1>3. Fault(o) /\ UNCHANGED <<orders, sagas, services>>
  BY <1>2, Zenon DEF Expire, Crash
<1>4. Writes(o)
  BY <1>3, NoTables, Zenon DEF Writes
<1>5. Steps(r)
  <2>1. CASE Expire(r)
    <3>1. /\ pc' = pc /\ job' = job /\ mem' = mem
          /\ tries' = [tries EXCEPT ![r].expired = TRUE]
      BY <2>1, Zenon DEF Expire
    <3> QED
      BY <1>2, <3>1, Zenon DEF Types, Steps, SameRun
  <2>2. CASE Crash(r)
    BY <1>2, <2>2, ReturnStep, Zenon DEF Crash
  <2> QED
    BY <2>1, <2>2, Zenon
<1>6. o \in disturbed'
  BY <1>3, Zenon DEF Fault
<1> QED
  BY <1>2, <1>3, <1>4, <1>5, <1>6, StepAlone, Zenon

\* A step of no run that writes no row of a followed order.
LEMMA NobodysStep ==
    ASSUME IndInv, AloneInv, disturbed' = disturbed, \A x \in Followed : SameOrder(x),
           \A q \in Runs : SameRun(q)
    PROVE  AloneInv'
  BY AloneElsewhere, Zenon DEF AloneInv

\* Other orders take and give back stock under keys of their own.
LEMMA OtherOrderAlone ==
    ASSUME IndInv, AloneInv, NEW key \in OtherDemand, OtherOrder(key[1], key[2])
    PROVE  AloneInv'
<1>1. /\ orders' = orders /\ sagas' = sagas /\ payments' = payments /\ pc' = pc
      /\ job' = job /\ mem' = mem /\ tries' = tries /\ disturbed' = disturbed
  BY Zenon DEF OtherOrder
<1>2. key \in Keys /\ key = <<key[1], key[2]>>
  BY SagaAssumption DEF Keys
<1>3. reservations \in [Keys -> Reservation]
  BY Zenon DEF IndInv, TablesOK, BookTypeOK
<1>4. \E row : reservations' = [reservations EXCEPT ![<<key[1], key[2]>>] = row]
  BY Zenon DEF OtherOrder, BookReserve, BookRelease
<1>5. \A k \in Keys \ {key} : reservations'[k] = reservations[k]
  BY <1>2, <1>3, <1>4, Zenon
<1>6. ASSUME NEW x \in Followed PROVE SameOrder(x)
  <2>1. \A p \in Products : <<x, p>> \in Keys \ {key}
    BY Zenon DEF Followed, Keys
  <2> QED
    BY <1>1, <1>5, <2>1, Zenon DEF SameOrder
<1>7. \A q \in Runs : SameRun(q)
  BY <1>1, Zenon DEF SameRun
<1> QED
  BY <1>1, <1>6, <1>7, NobodysStep, Zenon

-----------------------------------------------------------------------------
(* The theorem. *)

\* Nothing has been ordered.
LEMMA InitAlone == Init => AloneInv
<1> SUFFICES ASSUME Init, NEW o \in Followed PROVE AloneOK(o)
  BY Zenon DEF AloneInv
<1>1. /\ o \in Orders /\ orders = [x \in Orders |-> NoOrder]
      /\ sagas = [x \in Orders |-> NoSaga] /\ payments = [x \in Orders |-> Pay!Unpaid]
      /\ reservations = [k \in Keys |-> NoReservation]
  BY Zenon DEF Init, BookInit, Pay!PayInit, Followed
<1>2. Untouched(o)
  BY <1>1, Zenon DEF Untouched, Keys, NoReservation
<1>3. orders[o] = NoOrder
  BY <1>1, Zenon
<1> QED
  BY <1>2, <1>3, Zenon DEF AloneOK

\* Every step of a run, a deadline, a crash or another order keeps the invariant.
LEMMA NextAlone == IndInv /\ AloneInv /\ [Next]_vars => AloneInv'
<1> SUFFICES ASSUME IndInv, AloneInv, [Next]_vars PROVE AloneInv'
  OBVIOUS
<1>1. ASSUME NEW r \in Runs, NEW o \in Followed,
             \/ CreateOrder(r, o) \/ Recover(r, o) \/ CancelOrder(r, o)
             \/ \E target \in Targets : UpdateOrderStatus(r, o, target)
      PROVE  AloneInv'
  BY <1>1, CreateOrderAlone, TakeUpAlone, Zenon
<1>2. ASSUME NEW r \in Runs, Proceed(r) PROVE AloneInv'
  <2>1. CASE LoadSaga(r) \/ InsertSaga(r) \/ StartStep(r) \/ ReserveInventoryStep(r)
    BY <2>1, LoadSagaAlone, InsertSagaAlone, OrderStepAlone, ReserveInventoryStepAlone, Zenon
  <2>2. CASE \/ PrepareStep(r) \/ ProcessPaymentStep(r) \/ ConfirmOrderStep(r)
             \/ PersistSaga(r)
    BY <2>2, PrepareStepAlone, ProcessPaymentStepAlone, OrderStepAlone, PersistSagaAlone, Zenon
  <2>3. CASE MarkFailed(r) \/ MarkCompensating(r) \/ RefundPayment(r)
    BY <2>3, NeverAlone, MarkCompensatingAlone, RefundPaymentAlone, Zenon
  <2>4. CASE ReleaseItem(r) \/ ReleaseDone(r) \/ CancelOrderRow(r) \/ CancelSagaRow(r)
    BY <2>4, ReleaseItemAlone, ReleaseDoneAlone, CancelOrderRowAlone, CancelSagaRowAlone, Zenon
  <2>5. CASE CancelDirectly(r) \/ LoadForCancel(r) \/ SetStatus(r)
    BY <2>5, NeverAlone, LoadForCancelAlone, SetStatusAlone, Zenon
  <2> QED
    BY <1>2, <2>1, <2>2, <2>3, <2>4, <2>5, Zenon DEF Proceed
<1>3. ASSUME NEW r \in Runs, Expire(r) \/ Crash(r) PROVE AloneInv'
  BY <1>3, FaultAlone, Zenon
<1>4. ASSUME NEW key \in OtherDemand, OtherOrder(key[1], key[2]) PROVE AloneInv'
  BY <1>4, OtherOrderAlone, Zenon
<1>5. CASE UNCHANGED vars
  <2>1. /\ UNCHANGED <<orders, sagas, services>> /\ pc' = pc /\ job' = job /\ mem' = mem
        /\ tries' = tries /\ disturbed' = disturbed
    BY <1>5, Zenon DEF vars
  <2>2. (\A x \in Followed : SameOrder(x)) /\ \A q \in Runs : SameRun(q)
    BY <2>1, NoTables, Zenon DEF SameRun
  <2> QED
    BY <2>1, <2>2, NobodysStep, Zenon
<1> QED
  BY <1>1, <1>2, <1>3, <1>4, <1>5, Zenon DEF Next

\* A confirmed order that the invariant calls bought holds every line it was to hold.
LEMMA BoughtIsReserved ==
    ASSUME IndInv, NEW o \in Orders, Bought(o)
    PROVE  \A i \in DOMAIN Items[o] : ReserveIsRetry(o, Items[o][i])
<1> DEFINE s == sagas[o]
<1>1. s \in SagaRow /\ GoodFor(o, s) /\ reservations \in [Keys -> Reservation]
  BY Zenon DEF IndInv, TablesOK, OrderOK, BookTypeOK
<1>2. Len(s.items) = Len(Items[o]) /\ Held(o, s, reservations)
  BY <1>1, Zenon DEF Bought, GoodFor, GoodCopy
<1> HIDE DEF s
<1>3. DOMAIN Items[o] = DOMAIN s.items
  BY <1>1, <1>2, SagaFields, LinesKnown, Zenon
<1>4. ASSUME NEW i \in DOMAIN s.items PROVE ReserveIsRetry(o, s.items[i])
  <2> DEFINE row == reservations[<<o, s.items[i].product>>]
  <2>1. row \in Reservation
    BY <1>1, SagaFields, Zenon DEF Keys
  <2>2. row.status = "reserved" /\ row.quantity = s.items[i].quantity
    BY <1>1, <1>2, Zenon DEF Held, GoodFor, GoodCopy
  <2> HIDE DEF row
  <2>3. row = [quantity |-> row.quantity, status |-> row.status]
    BY <2>1 DEF Reservation
  <2> QED
    BY <2>2, <2>3, Zenon DEF row, ReserveIsRetry
<1> QED
  BY <1>2, <1>3, <1>4, Zenon DEF Held

\* The saga never leaves an order half done: whatever stock, payment-service and the
\* customer answer, an order that met no failure, no deadline and no second run at the
\* same time, and whose payment did not fail, is, between runs, either confirmed with
\* every line reserved in its quantity and its payment kept, or cancelled with nothing
\* held and nothing charged.
THEOREM SettledAlone == Spec => []SettledWhenAlone
<1>1. IndInv /\ AloneInv /\ ChargedByUser => SettledWhenAlone
  <2> SUFFICES ASSUME IndInv, AloneInv, ChargedByUser, NEW o \in Followed \ disturbed,
                      orders[o] # NoOrder, Quiet(o), payments[o].status # "failed"
               PROVE  \/ /\ Bought(o) /\ payments[o].status = "success"
                         /\ ServiceSubject \in Users
                         /\ \A i \in DOMAIN Items[o] : ReserveIsRetry(o, Items[o][i])
                      \/ GivenBack(o)
    BY Zenon DEF SettledWhenAlone, Bought, GivenBack
  <2>1. Bought(o) \/ GivenBack(o)
    BY Zenon DEF AloneInv, AloneOK, Quiet, Solo
  <2>2. Bought(o) => payments[o].status = "success"
    BY Zenon DEF Bought
  <2>3. payments[o].status = "success" => payments[o] # Pay!Unpaid
    BY DEF Pay!Unpaid
  <2> QED
    BY <2>1, <2>2, <2>3, BoughtIsReserved, Zenon DEF Followed, ChargedByUser
<1> QED
  BY <1>1, InitAlone, NextAlone, Invariance, SubjectPays, PTL DEF Spec

=============================================================================
