----------------------------- MODULE SagaProofs ------------------------------
(***************************************************************************)
(* Compensation, cancellation, deadlines and crashes preserve the          *)
(* invariant of SagaSteps.tla too, and what follows for Saga.tla: for any  *)
(* orders, products, runs, order lines and limits.                         *)
(***************************************************************************)
EXTENDS SagaForward

-----------------------------------------------------------------------------
(* Compensation. *)

\* The compensation of a failed step starts with a copy that says so.
LEMMA MarkCompensatingInv ==
    ASSUME IndInv, NEW r \in Runs, MarkCompensating(r) PROVE IndInv'
<1> DEFINE s     == [mem[r] EXCEPT !.status = "compensating"]
           label == compensationPlan[mem[r].status]
<1>1. /\ pc[r] = "markCompensating" /\ Working(r) /\ job[r].order \in Orders
      /\ mem[r] \in SagaRow /\ GoodFor(job[r].order, mem[r])
  BY AtWork, Zenon DEF MarkCompensating
<1>2. /\ \/ sagas' = [sagas EXCEPT ![job[r].order] = s]
         \/ sagas' = sagas
      /\ UNCHANGED <<orders, services>> /\ (NoFault \/ Fault(job[r].order))
      /\ Remember(r, s, label)
  BY Zenon DEF MarkCompensating, Save, Call
<1>3. /\ ~Cancelling(r) /\ job[r].kind # "update"
      /\ mem[r].status \in {"reserving", "paying", "confirming"}
  BY <1>1, Zenon DEF Working, TaskFits, StatusFits, Cancelling, UndoLabels
<1>4. label \in {"release", "refund"}
  BY <1>3, NextSteps, Zenon
<1>5. GoodFor(job[r].order, s)
  BY <1>1, CopyWithStatus, Zenon DEF GoodFor, SagaStatus
<1>6. s.status = "compensating"
  BY <1>1, StatusWritten, Zenon DEF SagaStatus
<1> HIDE DEF s, label
<1>7. /\ label \in Label \ {"idle"} /\ TaskFits(label, job[r].kind)
      /\ StatusFits(label, s.status)
  BY <1>3, <1>4, <1>6, Zenon DEF Label, TaskFits, StatusFits, UndoLabels, Cancelling
<1>8. /\ TablesOK' /\ Grow /\ Counted
      /\ GoodCopy(job[r].order, s, reservations', payments'[job[r].order],
                  orders'[job[r].order].items)
  BY <1>1, <1>2, <1>5, <1>6, SaveInv, ZenonT(30)
<1>9. Moved(r) /\ RunOK(r)'
  BY <1>1, <1>2, <1>3, <1>7, <1>8, GoOn, ZenonT(30)
<1> QED
  BY <1>8, <1>9, StepInv, ZenonT(30)

\* A run that compensates goes on to the next part, if CancelOrder has earned it.
LEMMA UndoRun ==
    ASSUME IndInv, NEW r \in Runs, pc[r] \in UndoLabels, Grow, NEW label \in UndoLabels,
           Cancelling(r) => MayUndo(label, mem[r], job[r].order), Skip(r, label)
    PROVE  Moved(r) /\ RunOK(r)'
<1>1. pc[r] # "idle" /\ Working(r)
  BY AtWork, Zenon DEF UndoLabels
<1>2. mem[r].status # "none" /\ job[r].kind # "update"
  BY <1>1, Zenon DEF Working, StatusFits, TaskFits, UndoLabels
<1>3. /\ label \in Label \ {"idle"} /\ TaskFits(label, job[r].kind)
      /\ StatusFits(label, mem[r].status)
  BY <1>2, Zenon DEF UndoLabels, Label, TaskFits, StatusFits
<1> QED
  BY <1>1, <1>3, GoOnSame, Zenon

\* A compensation that failed: another attempt, the end of CancelOrder, or the next
\* part without it.
LEMMA UndoFailsRun ==
    ASSUME IndInv, NEW r \in Runs, pc[r] \in UndoLabels, Grow, NEW label \in UndoLabels,
           GiveUp(r, label) \/ RetryOr(r, GiveUp(r, label))
    PROVE  Moved(r) /\ RunOK(r)'
<1>1. pc[r] # "idle"
  BY Zenon DEF UndoLabels
<1>2. CASE MayRetry(r) /\ Retry(r)
  BY <1>1, <1>2, RetryRun, Zenon
<1>3. CASE Cancelling(r) /\ Return(r)
  BY <1>3, ReturnRun, Zenon
<1>4. CASE ~Cancelling(r) /\ Skip(r, label)
  BY <1>4, UndoRun, Zenon
<1> QED
  BY <1>2, <1>3, <1>4, Zenon DEF GiveUp, RetryOr

\* The refund of the payment, under the key of this kind of run and this order.
LEMMA RefundPaymentInv ==
    ASSUME IndInv, NEW r \in Runs, RefundPayment(r) PROVE IndInv'
<1> DEFINE o == job[r].order
<1>1. /\ pc[r] = "refund" /\ pc[r] \in UndoLabels /\ Working(r) /\ o \in Followed
      /\ o \in Orders /\ TablesOK /\ "release" \in UndoLabels
  BY AtWork, Zenon DEF RefundPayment, IndInv, UndoLabels
<1>2. UNCHANGED <<orders, sagas, bookVars>>
  BY Zenon DEF RefundPayment
<1>3. CASE /\ ~mem[r].paymentID /\ Skip(r, "release")
           /\ NoFault /\ UNCHANGED <<payments, refunds>>
  <2>1. TablesOK' /\ Grow
    BY <1>1, <1>2, <1>3, TablesSame, ZenonT(30) DEF services, bookVars
  <2>2. MayUndo("release", mem[r], o)
    BY <1>3, Zenon DEF MayUndo
  <2>3. Moved(r) /\ RunOK(r)'
    BY <1>1, <1>3, <2>1, <2>2, UndoRun, ZenonT(30)
  <2> QED
    BY <1>1, <1>3, <2>1, <2>3, FaultsCounted, StepInv, ZenonT(30)
<1>4. CASE mem[r].paymentID
  <2>1. /\ \/ /\ RefundAccepted(o, RefundKey(r)) /\ Refund(o, RefundKey(r))
              /\ Skip(r, "release") \/ RetryOr(r, GiveUp(r, "release"))
           \/ UNCHANGED <<payments, refunds>> /\ RetryOr(r, GiveUp(r, "release"))
        /\ NoFault \/ Fault(o)
    BY <1>4, Zenon DEF RefundPayment, Call
  <2>2. CASE RefundAccepted(o, RefundKey(r)) /\ Refund(o, RefundKey(r))
    <3>1. job[r].kind \in {"create", "recover", "cancel"}
      BY <1>1, Zenon DEF Working, TaskFits
    <3>2. TablesOK' /\ Grow /\ payments'[o].status = "refunded"
      BY <1>1, <1>2, <2>2, <3>1, RefundTables, ZenonT(30) DEF RefundKey
    <3>3. CASE Skip(r, "release")
      <4>1. MayUndo("release", mem[r], o)
        BY <3>2, Zenon DEF MayUndo
      <4>2. Moved(r) /\ RunOK(r)'
        BY <1>1, <3>2, <3>3, <4>1, UndoRun, Zenon
      <4> QED
        BY <1>1, <2>1, <3>2, <4>2, FaultsCounted, StepInv, ZenonT(30)
    <3>4. CASE RetryOr(r, GiveUp(r, "release"))
      BY <1>1, <2>1, <3>2, <3>4, UndoFailsRun, FaultsCounted, StepInv, ZenonT(30)
    <3> QED
      BY <2>1, <3>3, <3>4, Zenon
  <2>3. CASE UNCHANGED <<payments, refunds>> /\ RetryOr(r, GiveUp(r, "release"))
    <3>1. TablesOK' /\ Grow
      BY <1>1, <1>2, <2>3, TablesSame, Zenon DEF services, bookVars
    <3> QED
      BY <1>1, <2>1, <2>3, <3>1, UndoFailsRun, FaultsCounted, StepInv, ZenonT(30)
  <2> QED
    BY <2>1, <2>2, <2>3, Zenon
<1> QED
  BY <1>3, <1>4, ZenonT(30) DEF RefundPayment

\* What a call of Release leaves in the tables.
LEMMA ReleaseTables ==
    ASSUME TablesOK, NEW o \in Orders, NEW line \in Line, Release(o, line),
           UNCHANGED <<orders, sagas, payments, refunds>>
    PROVE  TablesOK' /\ Grow /\ reservations'[<<o, line.product>>].status = "released"
<1>1. line.product \in Products
  BY Zenon DEF Line
<1>2. CASE ReleaseIsRetry(o, line) /\ UNCHANGED bookVars
  <2>1. reservations' = reservations /\ UNCHANGED <<orders, sagas, services>>
    BY <1>2, Zenon DEF bookVars, services
  <2>2. TablesOK' /\ Grow
    BY <2>1, TablesSame, Zenon
  <2> QED
    BY <1>2, <2>1, <2>2 DEF ReleaseIsRetry
<1>3. CASE BookRelease(o, line.product)
  BY <1>1, <1>3, BookTables, ZenonT(30)
<1> QED
  BY <1>2, <1>3, Zenon DEF Release

\* The counters after a line.
LEMMA LineCounted ==
    ASSUME NEW t \in Tries, NEW bad \in BOOLEAN
    PROVE  LET u == [t EXCEPT !.pos = t.pos + 1, !.bad = bad] IN
           u \in Tries /\ u.pos = t.pos + 1 /\ u.bad = bad
<1>1. t.pos + 1 \in Nat \ {0}
  BY DEF Tries
<1> QED
  BY <1>1, Zenon DEF Tries

\* Compensate moves on to the next line.
LEMMA NextLineRun ==
    ASSUME IndInv, NEW r \in Runs, NEW failed \in BOOLEAN, NextLine(r, failed)
    PROVE  /\ Moved(r) /\ pc'[r] = pc[r] /\ job'[r] = job[r] /\ mem'[r] = mem[r]
           /\ tries'[r].pos = tries[r].pos + 1
           /\ ~tries'[r].bad => ~tries[r].bad /\ ~failed
<1> DEFINE bad == tries[r].bad \/ failed
           u   == [tries[r] EXCEPT !.pos = tries[r].pos + 1, !.bad = bad]
<1>1. /\ pc' = pc /\ job' = job /\ mem' = mem
      /\ pc \in [Runs -> Label] /\ job \in [Runs -> Job]
      /\ mem \in [Runs -> SagaRow] /\ tries \in [Runs -> Tries]
  BY Zenon DEF NextLine, IndInv, TypeOK, Tries
<1>2. tries'[r] = u /\ \A q \in Runs \ {r} : tries'[q] = tries[q]
  BY <1>1, Zenon DEF NextLine
<1>3. tries' = [q \in Runs |-> tries'[q]]
  BY <1>1, Zenon DEF NextLine
<1>4. bad \in BOOLEAN /\ tries[r] \in Tries
  BY <1>1, Zenon
<1>5. ~bad => ~tries[r].bad /\ ~failed
  OBVIOUS
<1> HIDE DEF bad
<1>6. u \in Tries /\ u.pos = tries[r].pos + 1 /\ u.bad = bad
  BY <1>4, LineCounted, Zenon
<1> HIDE DEF u
<1>7. tries' \in [Runs -> Tries]
  BY <1>1, <1>2, <1>3, <1>6, Zenon
<1> QED
  BY <1>1, <1>2, <1>5, <1>6, <1>7, Zenon DEF Moved

\* A line is released, or the run remembers that it was not.
LEMMA ReleaseItemInv ==
    ASSUME IndInv, NEW r \in Runs, ReleaseItem(r) PROVE IndInv'
<1> DEFINE o    == job[r].order
           pos  == tries[r].pos
           line == mem[r].items[pos]
<1>1. /\ pc[r] = "release" /\ Working(r) /\ o \in Followed /\ o \in Orders /\ TablesOK
      /\ orders[o] # NoOrder /\ mem[r] \in SagaRow /\ GoodFor(o, mem[r]) /\ tries[r] \in Tries
  BY AtWork, Zenon DEF ReleaseItem, IndInv
<1>2. /\ pos \in Nat \ {0} /\ pos <= Len(mem[r].items)
      /\ DOMAIN mem[r].items = 1 .. Len(mem[r].items) /\ Len(mem[r].items) \in Nat
      /\ \A i \in DOMAIN mem[r].items : mem[r].items[i].product \in Products
  BY <1>1, SagaFields, Zenon DEF ReleaseItem, Tries
<1>3. mem[r].items \in Seq(Line)
  BY <1>1, SagaFields, Zenon
<1>4. line \in Line
  BY <1>2, <1>3
<1>5. /\ \/ Release(o, line) /\ (NextLine(r, FALSE) \/ NextLine(r, TRUE))
         \/ UNCHANGED bookVars /\ NextLine(r, TRUE)
      /\ NoFault \/ Fault(o)
      /\ UNCHANGED <<orders, sagas, payments, refunds>>
  BY Zenon DEF ReleaseItem, Call
<1> HIDE DEF line
<1>6. TablesOK' /\ Grow /\ Counted
  <2>1. CASE Release(o, line)
    BY <1>1, <1>4, <1>5, <2>1, ReleaseTables, FaultsCounted, ZenonT(30)
  <2>2. CASE UNCHANGED bookVars
    BY <1>1, <1>5, <2>2, TablesSame, FaultsCounted, Zenon DEF services, bookVars
  <2> QED
    BY <1>5, <2>1, <2>2, Zenon
<1>7. PICK failed \in BOOLEAN :
         /\ NextLine(r, failed)
         /\ ~failed => reservations'[<<o, line.product>>].status = "released"
  <2>1. CASE Release(o, line) /\ NextLine(r, FALSE)
    BY <1>1, <1>4, <1>5, <2>1, ReleaseTables, ZenonT(30)
  <2>2. CASE NextLine(r, TRUE)
    BY <2>2, Zenon
  <2> QED
    BY <1>5, <2>1, <2>2, Zenon
<1>8. /\ Moved(r) /\ pc'[r] = pc[r] /\ job'[r] = job[r] /\ mem'[r] = mem[r]
      /\ tries'[r].pos = pos + 1
      /\ ~tries'[r].bad => ~tries[r].bad /\ ~failed
  BY <1>7, NextLineRun, Zenon
<1>9. orders'[o] # NoOrder /\ orders'[o].items = orders[o].items
  BY <1>1, <1>6, Zenon DEF Grow
<1>10. GoodFor(job[r].order, mem[r])'
  BY <1>1, <1>6, <1>8, GoodKept, Zenon DEF GoodFor
<1>11. Cancelling(r) => UndoneSoFar(r)'
  <2> SUFFICES ASSUME Cancelling(r) PROVE UndoneSoFar(r)'
    OBVIOUS
  <2>1. UndoneSoFar(r)
    BY <1>1, Zenon DEF Working
  <2>2. mem[r].paymentID => payments'[o].status = "refunded"
    BY <1>1, <1>6, <2>1, Zenon DEF UndoneSoFar, UndoLabels, Grow
  <2>3. ASSUME ~tries'[r].bad, NEW i \in DOMAIN mem[r].items, i < pos + 1
        PROVE  reservations'[<<o, mem[r].items[i].product>>].status = "released"
    <3>1. CASE i = pos
      BY <1>7, <1>8, <2>3, <3>1, Zenon DEF line
    <3>2. CASE i # pos
      <4>1. i < pos
        BY <1>2, <2>3, <3>2
      <4>2. reservations[<<o, mem[r].items[i].product>>].status = "released"
        BY <1>1, <1>8, <2>1, <2>3, <4>1, ZenonT(30) DEF UndoneSoFar
      <4> QED
        BY <1>1, <1>2, <1>6, <4>2, ZenonT(30) DEF Grow
    <3> QED
      BY <3>1, <3>2, Zenon
  <2> QED
    BY <1>1, <1>8, <2>2, <2>3, Zenon DEF UndoneSoFar
<1>12. Working(r)'
  BY <1>1, <1>8, <1>9, <1>10, <1>11, ZenonT(30) DEF Working, Cancelling
<1>13. RunOK(r)'
  BY <1>1, <1>8, <1>12, Zenon DEF RunOK
<1> QED
  BY <1>6, <1>8, <1>13, StepInv, Zenon

\* Every recorded line has had its turn.
LEMMA ReleaseDoneInv ==
    ASSUME IndInv, NEW r \in Runs, ReleaseDone(r) PROVE IndInv'
<1> DEFINE o == job[r].order
<1>1. /\ pc[r] = "release" /\ pc[r] \in UndoLabels /\ Working(r) /\ o \in Followed
      /\ o \in Orders /\ TablesOK /\ "cancelOrder" \in UndoLabels
      /\ mem[r] \in SagaRow /\ tries[r] \in Tries
  BY AtWork, Zenon DEF ReleaseDone, IndInv, UndoLabels
<1>2. TablesOK' /\ Grow /\ Counted
  BY <1>1, TablesSame, FaultsCounted, Zenon DEF ReleaseDone
<1>3. CASE ~tries[r].bad /\ Skip(r, "cancelOrder")
  <2>1. ASSUME Cancelling(r) PROVE MayUndo("cancelOrder", mem[r], o)
    <3>1. UndoneSoFar(r)
      BY <1>1, <2>1, Zenon DEF Working
    <3>2. /\ \A i \in DOMAIN mem[r].items : i < tries[r].pos
          /\ \A i \in DOMAIN mem[r].items : mem[r].items[i].product \in Products
      <4>1. /\ DOMAIN mem[r].items = 1 .. Len(mem[r].items) /\ Len(mem[r].items) \in Nat
            /\ \A i \in DOMAIN mem[r].items : mem[r].items[i].product \in Products
        BY <1>1, SagaFields, ZenonT(30)
      <4>2. tries[r].pos > Len(mem[r].items) /\ tries[r].pos \in Nat
        BY <1>1, Zenon DEF ReleaseDone, Tries
      <4> QED
        BY <4>1, <4>2
    <3>3. \A i \in DOMAIN mem[r].items :
             reservations'[<<o, mem[r].items[i].product>>].status = "released"
      BY <1>1, <1>2, <1>3, <3>1, <3>2, ZenonT(30) DEF UndoneSoFar, Grow
    <3>4. mem[r].paymentID => payments'[o].status = "refunded"
      BY <1>1, <1>2, <3>1, Zenon DEF UndoneSoFar, UndoLabels, Grow
    <3> QED
      BY <3>3, <3>4, Zenon DEF MayUndo
  <2>2. Moved(r) /\ RunOK(r)'
    BY <1>1, <1>2, <1>3, <2>1, UndoRun, ZenonT(30)
  <2> QED
    BY <1>2, <2>2, StepInv, Zenon
<1>4. CASE RetryOr(r, GiveUp(r, "cancelOrder"))
  BY <1>1, <1>2, <1>4, UndoFailsRun, StepInv, Zenon
<1> QED
  BY <1>3, <1>4, ZenonT(30) DEF ReleaseDone

\* The order is marked cancelled after its compensation.
LEMMA CancelOrderRowInv ==
    ASSUME IndInv, NEW r \in Runs, CancelOrderRow(r) PROVE IndInv'
<1> DEFINE o == job[r].order
<1>1. /\ pc[r] = "cancelOrder" /\ pc[r] \in UndoLabels /\ Working(r) /\ o \in Followed
      /\ o \in Orders /\ orders[o] # NoOrder /\ TablesOK /\ "cancelSaga" \in UndoLabels
      /\ "cancelled" \in OrderStatuses /\ mem[r] \in SagaRow
  BY AtWork, Zenon DEF CancelOrderRow, IndInv, UndoLabels, OrderStatuses
<1>2. /\ \/ orders' = [orders EXCEPT ![o].status = "cancelled"]
         \/ orders' = orders
      /\ UNCHANGED <<sagas, services>> /\ (NoFault \/ Fault(o))
      /\ Skip(r, "cancelSaga") \/ GiveUp(r, "cancelSaga")
  BY Zenon DEF CancelOrderRow, UpdateStatus, Call
<1>3. TablesOK' /\ Grow
  <2>1. CASE orders' = [orders EXCEPT ![o].status = "cancelled"]
    BY <1>1, <1>2, <2>1, UpdateTables, ZenonT(30)
  <2>2. CASE orders' = orders
    BY <1>1, <1>2, <2>2, TablesSame, ZenonT(30)
  <2> QED
    BY <1>2, <2>1, <2>2, Zenon
<1>4. Counted
  BY <1>1, <1>2, FaultsCounted, Zenon
<1>5. CASE Skip(r, "cancelSaga")
  <2>1. ASSUME Cancelling(r) PROVE MayUndo("cancelSaga", mem[r], o)
    <3>1. UndoneSoFar(r) /\ reservations' = reservations /\ payments' = payments
      BY <1>1, <1>2, <2>1, Zenon DEF Working, services
    <3> QED
      BY <1>1, <3>1, Zenon DEF UndoneSoFar, MayUndo, UndoLabels
  <2>2. Moved(r) /\ RunOK(r)'
    BY <1>1, <1>3, <1>5, <2>1, UndoRun, ZenonT(30)
  <2> QED
    BY <1>3, <1>4, <2>2, StepInv, ZenonT(30)
<1>6. CASE GiveUp(r, "cancelSaga")
  BY <1>1, <1>3, <1>4, <1>6, UndoFailsRun, StepInv, ZenonT(30)
<1> QED
  BY <1>2, <1>5, <1>6, Zenon

\* A run whose last statement writes the status of the order: CancelOrder without a
\* saga, and UpdateOrderStatus.
LEMMA LastUpdateInv ==
    ASSUME IndInv, NEW r \in Runs, CancelDirectly(r) \/ SetStatus(r) PROVE IndInv'
<1> DEFINE o == job[r].order
<1>1. pc[r] # "idle"
  BY Zenon DEF CancelDirectly, SetStatus
<1>2. /\ Working(r) /\ o \in Followed /\ o \in Orders /\ orders[o] # NoOrder /\ TablesOK
      /\ job[r] \in Job
  BY <1>1, AtWork, Zenon DEF IndInv
<1>3. PICK status \in OrderStatuses : UpdateStatus(r, o, status, Return(r), Return(r))
  <2>1. CASE CancelDirectly(r)
    <3>1. "cancelled" \in OrderStatuses
      BY Zenon DEF OrderStatuses
    <3> QED
      BY <2>1, <3>1, Zenon DEF CancelDirectly
  <2>2. CASE SetStatus(r)
    <3>1. job[r].kind = "update"
      BY <1>2, <2>2, Zenon DEF SetStatus, Working, TaskFits
    <3>2. job[r].target \in OrderStatuses
      BY <1>2, <3>1, SagaAssumption DEF Job, NoJob
    <3> QED
      BY <2>2, <3>2, Zenon DEF SetStatus
  <2> QED
    BY <2>1, <2>2, Zenon
<1>4. /\ \/ orders' = [orders EXCEPT ![o].status = status]
         \/ orders' = orders
      /\ UNCHANGED <<sagas, services>> /\ (NoFault \/ Fault(o)) /\ Return(r)
  BY <1>3, Zenon DEF UpdateStatus, Call
<1>5. TablesOK' /\ Grow
  <2>1. CASE orders' = [orders EXCEPT ![o].status = status]
    BY <1>2, <1>4, <2>1, UpdateTables, Zenon
  <2>2. CASE orders' = orders
    BY <1>2, <1>4, <2>2, TablesSame, Zenon
  <2> QED
    BY <1>4, <2>1, <2>2, Zenon
<1>6. Counted
  BY <1>2, <1>4, FaultsCounted, Zenon
<1> QED
  BY <1>4, <1>5, <1>6, ReturnRun, StepInv, ZenonT(30)

\* CancelOrder reads the saga that it is going to compensate.
LEMMA LoadForCancelInv ==
    ASSUME IndInv, NEW r \in Runs, LoadForCancel(r) PROVE IndInv'
<1> DEFINE o == job[r].order
<1>1. /\ pc[r] = "loadForCancel" /\ Working(r) /\ o \in Followed /\ o \in Orders
      /\ orders[o] # NoOrder /\ TablesOK
  BY AtWork, Zenon DEF LoadForCancel, IndInv
<1>2. /\ UNCHANGED <<orders, sagas, services>> /\ (NoFault \/ Fault(o))
      /\ \/ sagas[o] # NoSaga /\ Remember(r, sagas[o], "refund")
         \/ Return(r)
  BY Zenon DEF LoadForCancel, Call
<1>3. TablesOK' /\ Grow /\ Counted
  BY <1>1, <1>2, TablesSame, FaultsCounted, ZenonT(30)
<1>4. CASE sagas[o] # NoSaga /\ Remember(r, sagas[o], "refund")
  <2>1. sagas[o].status # "none" /\ GoodFor(o, sagas[o])
    BY <1>1, <1>4, ZenonT(30) DEF TablesOK, OrderOK
  <2>2. GoodCopy(o, sagas[o], reservations', payments'[o], orders'[o].items)
    BY <1>1, <1>3, <2>1, GoodKept, ZenonT(30)
  <2>3. "refund" \in Label \ {"idle"} /\ MayUndo("refund", sagas[o], o)
    BY Zenon DEF Label, MayUndo
  <2>4. TaskFits("refund", job[r].kind) /\ StatusFits("refund", sagas[o].status)
    <3>1. job[r].kind = "cancel"
      BY <1>1, Zenon DEF Working, TaskFits
    <3> QED
      BY <2>1, <2>3, <3>1, ZenonT(30) DEF TaskFits, StatusFits, UndoLabels
  <2>5. Moved(r) /\ RunOK(r)'
    BY <1>1, <1>3, <1>4, <2>2, <2>3, <2>4, GoOn, ZenonT(30)
  <2> QED
    BY <1>3, <2>5, StepInv, Zenon
<1>5. CASE Return(r)
  BY <1>3, <1>5, ReturnRun, StepInv, ZenonT(30)
<1> QED
  BY <1>2, <1>4, <1>5, Zenon

\* The deadline passes: the run stays where it is, with its count.
LEMMA ExpireInv ==
    ASSUME IndInv, NEW r \in Runs, Expire(r) PROVE IndInv'
<1> DEFINE o == job[r].order
<1>1. /\ pc[r] # "idle" /\ Working(r) /\ o \in Followed /\ o \in Orders /\ TablesOK
      /\ tries[r] \in Tries
  BY AtWork, Zenon DEF Expire, IndInv
<1>2. TablesOK' /\ Grow /\ Counted
  BY <1>1, TablesSame, FaultsCounted, Zenon DEF Expire
<1>3. /\ pc' = pc /\ job' = job /\ mem' = mem /\ orders' = orders
      /\ reservations' = reservations /\ payments' = payments
      /\ pc \in [Runs -> Label] /\ job \in [Runs -> Job]
      /\ mem \in [Runs -> SagaRow] /\ tries \in [Runs -> Tries]
  BY Zenon DEF Expire, services, IndInv, TypeOK, Tries
<1>4. tries' = [tries EXCEPT ![r] = [tries[r] EXCEPT !.expired = TRUE]]
  BY Zenon DEF Expire
<1>5. LET u == [tries[r] EXCEPT !.expired = TRUE] IN
      u \in Tries /\ u.pos = tries[r].pos /\ u.bad = tries[r].bad
  BY <1>1, Zenon DEF Tries
<1>6. /\ tries' \in [Runs -> Tries] /\ \A q \in Runs \ {r} : tries'[q] = tries[q]
      /\ tries'[r].pos = tries[r].pos /\ tries'[r].bad = tries[r].bad
  BY <1>3, <1>4, <1>5, Zenon
<1>7. Moved(r)
  BY <1>3, <1>6, Zenon DEF Moved
<1>8. GoodFor(job[r].order, mem[r])' /\ (UndoneSoFar(r) => UndoneSoFar(r)')
  BY <1>1, <1>3, <1>6, Zenon DEF GoodFor, UndoneSoFar, Working
<1>9. Working(r)'
  BY <1>1, <1>3, <1>8, Zenon DEF Working, Cancelling
<1>10. RunOK(r)'
  BY <1>1, <1>3, <1>9, Zenon DEF RunOK
<1> QED
  BY <1>2, <1>7, <1>10, StepInv, ZenonT(30)

\* The process dies: what it held is gone, and the tables are what they were.
LEMMA CrashInv ==
    ASSUME IndInv, NEW r \in Runs, Crash(r) PROVE IndInv'
<1>1. job[r].order \in Followed /\ TablesOK /\ Return(r)
  BY AtWork, Zenon DEF Crash, IndInv
<1>2. TablesOK' /\ Grow /\ Counted
  BY <1>1, TablesSame, FaultsCounted, Zenon DEF Crash
<1> QED
  BY <1>1, <1>2, ReturnRun, StepInv, Zenon

\* The stock that other orders take and give back is no concern of the runs.
LEMMA OtherOrderInv ==
    ASSUME IndInv, NEW key \in OtherDemand, OtherOrder(key[1], key[2]) PROVE IndInv'
<1>1. key[1] \in Orders /\ key[2] \in Products
  BY SagaAssumption, Zenon DEF Keys
<1>2. TablesOK' /\ Grow
  BY <1>1, BookTables, Zenon DEF OtherOrder, IndInv
<1>3. /\ pc' = pc /\ job' = job /\ mem' = mem /\ tries' = tries
      /\ faults' = faults /\ disturbed' = disturbed
  BY Zenon DEF OtherOrder
<1>4. \A r \in Runs : RunOK(r)'
  BY <1>2, <1>3, RunKept, ZenonT(30) DEF IndInv
<1>5. TypeOK'
  BY <1>2, <1>3, ZenonT(30) DEF IndInv, TypeOK, TablesOK, Payment
<1> QED
  BY <1>2, <1>4, <1>5, Zenon DEF IndInv

-----------------------------------------------------------------------------
(* The theorems. *)

\* Nothing has been ordered.
LEMMA InitInv == Init => IndInv
<1> SUFFICES ASSUME Init PROVE IndInv
  OBVIOUS
<1>1. /\ orders = [o \in Orders |-> NoOrder] /\ sagas = [o \in Orders |-> NoSaga]
      /\ payments = [o \in Orders |-> Pay!Unpaid] /\ refunds = [o \in Orders |-> <<>>]
      /\ pc = [r \in Runs |-> "idle"] /\ job = [r \in Runs |-> NoJob]
      /\ mem = [r \in Runs |-> NoSaga] /\ tries = [r \in Runs |-> Fresh]
      /\ faults = 0 /\ disturbed = {}
  BY Zenon DEF Init, Pay!PayInit
<1>2. BookTypeOK
  BY StockAssumption, Zenon DEF Init, BookInit, BookTypeOK, Stock, Reservation, NoReservation,
                         ReservationStatus
<1>3. /\ NoSaga \in SagaRow /\ NoOrder \in OrderRow /\ NoJob \in Job /\ "idle" \in Label
      /\ Fresh \in Tries
  BY SagaAssumption DEF NoSaga, SagaRow, OrderRow, Job, Label, Fresh, Tries
<1>4. /\ payments \in [Orders -> Payment]
      /\ refunds \in [Orders -> Seq([amount : {Total}, key : RefundKeys])]
  BY <1>1 DEF Payment
<1>5. /\ orders \in [Orders -> OrderRow] /\ sagas \in [Orders -> SagaRow]
      /\ pc \in [Runs -> Label] /\ job \in [Runs -> Job] /\ mem \in [Runs -> SagaRow]
      /\ tries \in [Runs -> Tries]
  BY <1>1, <1>3, Zenon
<1>6. faults \in 0 .. MaxFaults /\ disturbed \subseteq Followed
  BY <1>1, SagaAssumption
<1>7. TypeOK
  BY <1>2, <1>4, <1>5, <1>6, Zenon DEF TypeOK, Payment, Tries
<1>8. ASSUME NEW o \in Orders PROVE OrderOK(o)
  <2>1. /\ orders[o] = NoOrder /\ sagas[o] = NoSaga /\ payments[o] = Pay!Unpaid
        /\ refunds[o] = <<>>
    BY <1>1, Zenon
  <2>2. GoodFor(o, sagas[o])
    BY <2>1, EmptyCopy, Zenon DEF GoodFor
  <2> QED
    BY <2>1, <2>2 DEF OrderOK
<1>9. \A r \in Runs : RunOK(r)
  BY <1>1, Zenon DEF RunOK
<1> QED
  BY <1>2, <1>4, <1>5, <1>7, <1>8, <1>9, ZenonT(30) DEF IndInv, TablesOK

\* Every step of a run, a deadline, a crash or another order keeps the invariant.
LEMMA NextInv == IndInv /\ [Next]_vars => IndInv'
<1> SUFFICES ASSUME IndInv, [Next]_vars PROVE IndInv'
  OBVIOUS
<1>1. ASSUME NEW r \in Runs, NEW o \in Followed,
             \/ CreateOrder(r, o) \/ Recover(r, o) \/ CancelOrder(r, o)
             \/ \E target \in Targets : UpdateOrderStatus(r, o, target)
      PROVE  IndInv'
  BY <1>1, CreateOrderInv, TakeUpInv, Zenon
<1>2. ASSUME NEW r \in Runs, Proceed(r) PROVE IndInv'
  <2>1. CASE LoadSaga(r) \/ InsertSaga(r) \/ StartStep(r) \/ ReserveInventoryStep(r)
    BY <2>1, LoadSagaInv, InsertSagaInv, OrderStepInv, ReserveInventoryStepInv, ZenonT(30)
  <2>2. CASE \/ PrepareStep(r) \/ ProcessPaymentStep(r) \/ ConfirmOrderStep(r)
             \/ PersistSaga(r)
    BY <2>2, PrepareStepInv, ProcessPaymentStepInv, OrderStepInv, PersistSagaInv, ZenonT(30)
  <2>3. CASE MarkFailed(r) \/ MarkCompensating(r) \/ RefundPayment(r)
    BY <2>3, LastSaveInv, MarkCompensatingInv, RefundPaymentInv, Zenon
  <2>4. CASE ReleaseItem(r) \/ ReleaseDone(r) \/ CancelOrderRow(r) \/ CancelSagaRow(r)
    BY <2>4, ReleaseItemInv, ReleaseDoneInv, CancelOrderRowInv, LastSaveInv, ZenonT(30)
  <2>5. CASE CancelDirectly(r) \/ LoadForCancel(r) \/ SetStatus(r)
    BY <2>5, LastUpdateInv, LoadForCancelInv, Zenon
  <2> QED
    BY <1>2, <2>1, <2>2, <2>3, <2>4, <2>5, ZenonT(30) DEF Proceed
<1>3. ASSUME NEW r \in Runs, Expire(r) \/ Crash(r) PROVE IndInv'
  BY <1>3, ExpireInv, CrashInv, Zenon
<1>4. ASSUME NEW key \in OtherDemand, OtherOrder(key[1], key[2]) PROVE IndInv'
  BY <1>4, OtherOrderInv, Zenon
<1>5. CASE UNCHANGED vars
  <2>1. /\ UNCHANGED <<orders, sagas, services>> /\ pc' = pc /\ job' = job /\ mem' = mem
        /\ tries' = tries /\ faults' = faults /\ disturbed' = disturbed
    BY <1>5, Zenon DEF vars
  <2>2. TablesOK' /\ Grow
    BY <2>1, TablesSame, Zenon DEF IndInv
  <2>3. \A r \in Runs : RunOK(r)'
    BY <2>1, <2>2, RunKept, ZenonT(30) DEF IndInv
  <2>4. TypeOK'
    BY <2>1, <2>2, ZenonT(30) DEF IndInv, TypeOK, TablesOK, Payment
  <2> QED
    BY <2>2, <2>3, <2>4, Zenon DEF IndInv
<1> QED
  BY <1>1, <1>2, <1>3, <1>4, <1>5, Zenon DEF Next

\* The inductive invariant holds whatever fails, crashes or runs at the same time.
THEOREM Invariance == Spec => []IndInv
  BY InitInv, NextInv, PTL DEF Spec

\* The tables and the runs keep their types.
THEOREM TypeCorrect == Spec => []TypeOK
<1>1. IndInv => TypeOK
  BY Zenon DEF IndInv
<1> QED
  BY <1>1, Invariance, PTL

\* Every copy of a saga, stored or held by a run at work, is a good one.
LEMMA GoodCopies ==
    ASSUME IndInv, NEW o \in Orders
    PROVE  GoodFor(o, sagas[o]) /\ \A r \in Runs : WorksOn(r, o) => GoodFor(o, mem[r])
  BY ZenonT(30) DEF IndInv, TablesOK, OrderOK, RunOK, Working, WorksOn

\* Whatever a saga has recorded, inventory-service has reserved in that quantity, in
\* the row and in the copies of all runs.
THEOREM RecordIsTrue == Spec => []RecordedItemsWereReserved
<1>1. IndInv => RecordedItemsWereReserved
  BY GoodCopies, ZenonT(30) DEF RecordedItemsWereReserved, AllCopies, GoodFor, GoodCopy
<1> QED
  BY <1>1, Invariance, PTL

\* The status of every copy of a saga tells how many lines are recorded and whether
\* the payment is known; a known payment exists.
THEOREM StatusIsTrue == Spec => []StatusTellsProgress
<1>1. IndInv => StatusTellsProgress
  BY GoodCopies, ZenonT(30) DEF StatusTellsProgress, AllCopies, GoodFor, GoodCopy
<1> QED
  BY <1>1, Invariance, PTL

\* CancelOrder marks the order cancelled only after the payment was refunded and each
\* line released, as far as its copy of the saga knew of them.
THEOREM CancelIsCompensated == Spec => []CancelCompensates
<1>1. IndInv => CancelCompensates
  <2> SUFFICES ASSUME IndInv, NEW r \in Runs, pc[r] \in {"cancelOrder", "cancelSaga"},
                      Cancelling(r)
               PROVE  LET o == job[r].order IN
                      /\ mem[r].paymentID => payments[o].status = "refunded"
                      /\ \A i \in DOMAIN mem[r].items :
                            reservations[<<o, mem[r].items[i].product>>].status = "released"
    BY Zenon DEF CancelCompensates
  <2>1. UndoneSoFar(r)
    BY ZenonT(30) DEF IndInv, RunOK, Working
  <2> QED
    BY <2>1, Zenon DEF UndoneSoFar, UndoLabels
<1> QED
  BY <1>1, Invariance, PTL

-----------------------------------------------------------------------------
(* The two services as the saga uses them. *)

\* The actions of a run that call neither service.
LEMMA NoServiceCalled ==
    ASSUME NEW r \in Runs, Proceed(r), ~ReserveInventoryStep(r), ~ProcessPaymentStep(r),
           ~RefundPayment(r), ~ReleaseItem(r)
    PROVE  UNCHANGED services
<1>1. CASE LoadSaga(r) \/ InsertSaga(r) \/ LoadForCancel(r) \/ ReleaseDone(r)
  BY <1>1, Zenon DEF LoadSaga, InsertSaga, LoadForCancel, ReleaseDone
<1>2. CASE StartStep(r) \/ ConfirmOrderStep(r) \/ CancelOrderRow(r) \/ CancelDirectly(r)
             \/ SetStatus(r)
  BY <1>2, Zenon DEF StartStep, ConfirmOrderStep, CancelOrderRow, CancelDirectly, SetStatus,
                     UpdateStatus
<1>3. CASE PrepareStep(r) \/ PersistSaga(r) \/ MarkFailed(r) \/ MarkCompensating(r)
             \/ CancelSagaRow(r)
  BY <1>3, Zenon DEF PrepareStep, PersistSaga, MarkFailed, MarkCompensating, CancelSagaRow, Save
<1> QED
  BY <1>1, <1>2, <1>3, Zenon DEF Proceed

\* Nor does a run that begins.
LEMMA NoServiceAtStart ==
    ASSUME NEW r \in Runs, NEW o \in Followed,
           \/ CreateOrder(r, o) \/ Recover(r, o) \/ CancelOrder(r, o)
           \/ \E target \in Targets : UpdateOrderStatus(r, o, target)
    PROVE  UNCHANGED services
  BY Zenon DEF CreateOrder, Recover, CancelOrder, UpdateOrderStatus

\* payment-service never takes the subject for a payer without it being a user's.
ChargedByUser == \A o \in Orders : payments[o] # Pay!Unpaid => ServiceSubject \in Users

\* A subject that is no user's never gets an order charged: ProcessPayment refuses it,
\* and Refund finds no payment.
LEMMA NobodyPays ==
    ASSUME IndInv, ServiceSubject \notin Users, \A o \in Orders : payments[o] = Pay!Unpaid,
           [Next]_vars
    PROVE  UNCHANGED payments
<1>1. UNCHANGED services => UNCHANGED payments
  BY Zenon DEF services
<1>2. ASSUME NEW r \in Runs, Proceed(r) PROVE UNCHANGED payments
  <2>1. CASE ReserveInventoryStep(r) \/ ReleaseItem(r)
    BY <2>1, Zenon DEF ReserveInventoryStep, ReleaseItem
  <2>2. CASE ProcessPaymentStep(r)
    BY <2>2, Zenon DEF ProcessPaymentStep, Call
  <2>3. CASE RefundPayment(r)
    <3>1. job[r].order \in Orders
      BY <2>3, AtWork, Zenon DEF RefundPayment
    <3>2. ~RefundAccepted(job[r].order, RefundKey(r))
      BY <3>1, Zenon DEF RefundAccepted
    <3> QED
      BY <2>3, <3>2, Zenon DEF RefundPayment, Call
  <2> QED
    BY <1>1, <1>2, <2>1, <2>2, <2>3, NoServiceCalled, Zenon
<1>3. ASSUME NEW key \in OtherDemand, OtherOrder(key[1], key[2]) PROVE UNCHANGED payments
  BY <1>3, Zenon DEF OtherOrder
<1>4. CASE UNCHANGED vars
  BY <1>1, <1>4, Zenon DEF vars
<1>5. ASSUME NEW r \in Runs, Expire(r) \/ Crash(r) PROVE UNCHANGED payments
  BY <1>1, <1>5, Zenon DEF Expire, Crash
<1> QED
  BY <1>1, <1>2, <1>3, <1>4, <1>5, NoServiceAtStart, Zenon DEF Next

\* With the subject the code issues no order is ever charged, whatever fails.
THEOREM SubjectPays == Spec => []ChargedByUser
<1>1. Init => ChargedByUser
  BY Zenon DEF Init, Pay!PayInit, ChargedByUser
<1>2. IndInv /\ ChargedByUser /\ [Next]_vars => ChargedByUser'
  BY NobodyPays, Zenon DEF ChargedByUser
<1> QED
  BY <1>1, <1>2, Invariance, PTL DEF Spec

\* An order is charged only if the subject is a user's, and only after every one of its
\* lines was reserved, if they are stored in the order they came in.
THEOREM ChargeComesLast == Spec => []ChargedAfterReserving
<1>1. IndInv /\ ChargedByUser => ChargedAfterReserving
  BY Zenon DEF IndInv, TablesOK, OrderOK, ChargedAfterReserving, ChargedByUser, Followed
<1> QED
  BY <1>1, Invariance, SubjectPays, PTL

\* The lines a run asks inventory-service for.
LEMMA LineAsked ==
    ASSUME IndInv, NEW r \in Runs
    PROVE  /\ ReserveInventoryStep(r) =>
                 \/ UNCHANGED bookVars
                 \/ \E o \in Orders, line \in Line : Reserve(o, line)
           /\ ReleaseItem(r) =>
                 \/ UNCHANGED bookVars
                 \/ \E o \in Orders, line \in Line : Release(o, line)
<1>1. ASSUME pc[r] # "idle" PROVE job[r].order \in Orders /\ Working(r) /\ mem[r] \in SagaRow
  BY <1>1, AtWork, Zenon
<1>2. ASSUME ReserveInventoryStep(r), ~AllRecorded(r)
      PROVE  job[r].items[Len(mem[r].items) + 1] \in Line /\ job[r].order \in Orders
  <2>1. pc[r] = "reserve" /\ pc[r] # "idle"
    BY <1>2, Zenon DEF ReserveInventoryStep
  <2>2. job[r].kind # "update"
    BY <1>1, <2>1, Zenon DEF Working, TaskFits
  <2>3. job[r].items \in Seq(Line) /\ Len(mem[r].items) \in Nat
    BY <1>1, <2>1, <2>2, SagaFields, Zenon DEF Working, SameLines
  <2>4. ~(Len(mem[r].items) >= Len(job[r].items))
    BY <1>2, Zenon DEF AllRecorded
  <2>5. job[r].items[Len(mem[r].items) + 1] \in Line
    BY <2>3, <2>4
  <2> QED
    BY <1>1, <2>1, <2>5, Zenon
<1>3. ASSUME ReleaseItem(r)
      PROVE  mem[r].items[tries[r].pos] \in Line /\ job[r].order \in Orders
  <2>1. pc[r] # "idle" /\ tries[r].pos <= Len(mem[r].items)
    BY <1>3, Zenon DEF ReleaseItem
  <2>2. mem[r].items \in Seq(Line) /\ tries[r].pos \in Nat \ {0}
    BY <1>1, <2>1, SagaFields, Zenon DEF IndInv, TypeOK
  <2>3. mem[r].items[tries[r].pos] \in Line
    BY <2>1, <2>2
  <2> QED
    BY <1>1, <2>1, <2>3, Zenon
<1>4. ReserveInventoryStep(r) =>
         UNCHANGED bookVars \/ \E o \in Orders, line \in Line : Reserve(o, line)
  BY <1>2, Zenon DEF ReserveInventoryStep, Call
<1>5. ReleaseItem(r) =>
         UNCHANGED bookVars \/ \E o \in Orders, line \in Line : Release(o, line)
  BY <1>3, Zenon DEF ReleaseItem, Call
<1> QED
  BY <1>4, <1>5, Zenon

\* Every step of the saga is one of the stock book, or none.
LEMMA BookStep == IndInv /\ [Next]_vars => [BookNext]_bookVars
<1> SUFFICES ASSUME IndInv, [Next]_vars PROVE BookNext \/ UNCHANGED bookVars
  OBVIOUS
<1>1. UNCHANGED services => UNCHANGED bookVars
  BY Zenon DEF services, bookVars
<1>2. ASSUME NEW r \in Runs, Proceed(r) PROVE BookNext \/ UNCHANGED bookVars
  <2>1. CASE ReserveInventoryStep(r) \/ ReleaseItem(r)
    BY <2>1, LineAsked, Zenon DEF Reserve, Release, BookNext, Line
  <2>2. CASE ProcessPaymentStep(r) \/ RefundPayment(r)
    BY <2>2, Zenon DEF ProcessPaymentStep, RefundPayment
  <2> QED
    BY <1>1, <1>2, <2>1, <2>2, NoServiceCalled, Zenon
<1>3. ASSUME NEW key \in OtherDemand, OtherOrder(key[1], key[2]) PROVE BookNext
  <2>1. key[1] \in Orders /\ key[2] \in Products
    BY SagaAssumption, Zenon DEF Keys
  <2> QED
    BY <1>3, <2>1, Zenon DEF OtherOrder, BookNext
<1>4. CASE UNCHANGED vars
  BY <1>1, <1>4, Zenon DEF vars
<1>5. ASSUME NEW r \in Runs, Expire(r) \/ Crash(r) PROVE UNCHANGED bookVars
  BY <1>1, <1>5, Zenon DEF Expire, Crash
<1> QED
  BY <1>1, <1>2, <1>3, <1>4, <1>5, NoServiceAtStart, Zenon DEF Next

\* The saga uses inventory-service as StockBook promises it, which Inventory.tla is
\* shown to implement.
THEOREM StockBookIsKept == Spec => BookSpec
<1>1. Init => BookInit
  BY Zenon DEF Init
<1> QED
  BY <1>1, BookStep, Invariance, PTL DEF Spec, BookSpec

\* payment-service charges an order once, for a payer it accepts.
LEMMA ChargeStep ==
    ASSUME IndInv, NEW r \in Runs, ProcessPaymentStep(r)
    PROVE  Pay!PayNext \/ UNCHANGED <<payments, refunds>>
<1>1. job[r].order \in Orders
  BY AtWork, Zenon DEF ProcessPaymentStep
<1>2. \/ UNCHANGED <<payments, refunds>>
      \/ ServiceSubject \in Users /\ Pay!PayCharge(job[r].order, ServiceSubject, Total)
  BY Zenon DEF ProcessPaymentStep, Call, ProcessPayment
<1> QED
  BY <1>1, <1>2, Zenon DEF Pay!PayNext

\* It refunds a payment that succeeded, within its amount, under a key it knows.
LEMMA RefundStep ==
    ASSUME IndInv, NEW r \in Runs, RefundPayment(r)
    PROVE  Pay!PayNext \/ UNCHANGED <<payments, refunds>>
<1>1. /\ job[r].order \in Orders /\ TablesOK
      /\ job[r].kind \in {"create", "recover", "cancel"}
  BY AtWork, Zenon DEF RefundPayment, IndInv, Working, TaskFits
<1>2. PICK o \in Orders : o = job[r].order
  BY <1>1, Zenon
<1>3. RefundKey(r) \in RefundKeys
  BY <1>1, Zenon DEF RefundKey, RefundKeys
<1>4. CASE UNCHANGED <<payments, refunds>>
  BY <1>4, Zenon
<1>5. CASE ~UNCHANGED <<payments, refunds>>
  <2>1. /\ payments[o].status = "success" /\ payments[o] # Pay!Unpaid
        /\ Pay!PayRefund(o, Total, RefundKey(r))
    BY <1>2, <1>5, Zenon DEF RefundPayment, Call, RefundAccepted, Refund
  <2>2. payments[o].amount = Total
    BY <1>1, <2>1, Zenon DEF TablesOK, Payment
  <2>3. Total \in 1 .. payments[o].amount
    BY <2>2, SagaAssumption
  <2> QED
    BY <1>3, <2>1, <2>3, Zenon DEF Pay!PayNext
<1> QED
  BY <1>4, <1>5, Zenon

\* Every step of the saga is one of the payment book, or none.
LEMMA PayStep == IndInv /\ [Next]_vars => [Pay!PayNext]_(Pay!payVars)
<1> SUFFICES ASSUME IndInv, [Next]_vars PROVE Pay!PayNext \/ UNCHANGED <<payments, refunds>>
  BY Zenon DEF Pay!payVars
<1>1. UNCHANGED services => UNCHANGED <<payments, refunds>>
  BY Zenon DEF services
<1>2. ASSUME NEW r \in Runs, Proceed(r)
      PROVE  Pay!PayNext \/ UNCHANGED <<payments, refunds>>
  <2>1. CASE ReserveInventoryStep(r) \/ ReleaseItem(r)
    BY <2>1, Zenon DEF ReserveInventoryStep, ReleaseItem
  <2> QED
    BY <1>1, <1>2, <2>1, ChargeStep, RefundStep, NoServiceCalled, Zenon
<1>3. ASSUME NEW key \in OtherDemand, OtherOrder(key[1], key[2])
      PROVE  UNCHANGED <<payments, refunds>>
  BY <1>3, Zenon DEF OtherOrder
<1>4. CASE UNCHANGED vars
  BY <1>1, <1>4, Zenon DEF vars
<1>5. ASSUME NEW r \in Runs, Expire(r) \/ Crash(r) PROVE UNCHANGED <<payments, refunds>>
  BY <1>1, <1>5, Zenon DEF Expire, Crash
<1> QED
  BY <1>1, <1>2, <1>3, <1>4, <1>5, NoServiceAtStart, Zenon DEF Next

\* The saga uses payment-service as PaymentBook promises it, which Payment.tla is
\* shown to implement.
THEOREM PaymentBookIsKept == Spec => Pay!PaySpec
<1>1. Init => Pay!PayInit
  BY Zenon DEF Init
<1> QED
  BY <1>1, PayStep, Invariance, PTL DEF Spec, Pay!PaySpec

=============================================================================
