----------------------------- MODULE SagaForward -----------------------------
(***************************************************************************)
(* A run that begins, loads its saga and takes the steps of a checkout     *)
(* preserves the invariant of SagaSteps.tla.                               *)
(***************************************************************************)
EXTENDS SagaSteps

\* The step that each status is continued with.
LEMMA NextSteps ==
    /\ nextStep["pending"] = "start" /\ nextStep["reserving"] = "reserve"
    /\ nextStep["reserved"] = "prepare" /\ nextStep["paying"] = "pay"
    /\ nextStep["paid"] = "prepare" /\ nextStep["confirming"] = "confirm"
    /\ nextStep["confirmed"] = "idle" /\ nextStep["compensating"] = "idle"
    /\ nextStep["cancelled"] = "idle" /\ nextStep["failed"] = "idle"
    /\ prepared["reserved"] = "paying" /\ prepared["paid"] = "confirming"
    /\ compensationPlan["reserving"] = "release" /\ compensationPlan["paying"] = "release"
    /\ compensationPlan["confirming"] = "refund"
  BY Zenon DEF nextStep, prepared, compensationPlan

\* The loop of ProcessOrder goes on with a good copy.
LEMMA ContinueRun ==
    ASSUME IndInv, NEW r \in Runs, pc[r] # "idle", ~Cancelling(r), job[r].kind # "update",
           Grow, NEW s, Continue(r, s), s.status # "none",
           GoodCopy(job[r].order, s, reservations', payments'[job[r].order],
                    orders'[job[r].order].items)
    PROVE  Moved(r) /\ RunOK(r)'
<1>1. s \in SagaRow /\ s.status \in SagaStatus
  BY SagaFields, Zenon DEF GoodCopy
<1>2. CASE nextStep[s.status] = "idle"
  BY <1>2, ReturnRun, Zenon DEF Continue
<1>3. CASE nextStep[s.status] # "idle"
  <2> DEFINE label == nextStep[s.status]
  <2>1. /\ label \in {"start", "reserve", "prepare", "pay", "confirm"}
        /\ StatusFits(label, s.status)
    BY <1>1, <1>3, NextSteps, ZenonT(30) DEF SagaStatus, StatusFits
  <2>2. label \in Label \ {"idle"} /\ TaskFits(label, job[r].kind)
    BY <2>1, Zenon DEF Label, TaskFits, UndoLabels, Cancelling
  <2>3. Remember(r, s, label)
    BY <1>3, Zenon DEF Continue
  <2> HIDE DEF label
  <2> QED
    BY <2>1, <2>2, <2>3, GoOn, Zenon
<1> QED
  BY <1>2, <1>3, Zenon

\* A step of the saga that failed is tried again, or the compensation begins.
LEMMA StepFailsRun ==
    ASSUME IndInv, NEW r \in Runs, pc[r] \in {"start", "reserve", "pay", "confirm"}, Grow,
           StepFails(r)
    PROVE  Moved(r) /\ RunOK(r)'
<1>1. pc[r] # "idle" /\ Working(r)
  BY AtWork, Zenon
<1>2. CASE MayRetry(r) /\ Retry(r)
  BY <1>1, <1>2, RetryRun, Zenon
<1>3. CASE handleStepFailure(r)
  <2> DEFINE label == IF mem[r].status = "pending" THEN "markFailed" ELSE "markCompensating"
  <2>1. label \in Label \ {"idle"} /\ StatusFits(label, mem[r].status)
    BY <1>1, Zenon DEF Working, StatusFits, Label
  <2>2. TaskFits(label, job[r].kind) /\ ~Cancelling(r)
    BY <1>1, Zenon DEF Working, TaskFits, Label, UndoLabels, Cancelling
  <2>3. Skip(r, label)
    BY <1>3, Zenon DEF handleStepFailure
  <2> HIDE DEF label
  <2> QED
    BY <1>1, <2>1, <2>2, <2>3, GoOnSame, Zenon
<1> QED
  BY <1>2, <1>3, Zenon DEF StepFails, RetryOr

\* A new run has an empty copy.
LEMMA BeginRun ==
    ASSUME IndInv, NEW r \in Runs, NEW o \in Followed, NEW task \in Job, NEW label,
           Begin(r, o, task, label), task.order = o, TaskFits(label, task.kind),
           StatusFits(label, "none"), label \notin UndoLabels, orders'[o] # NoOrder,
           task.kind \in {"create", "recover", "cancel", "update"},
           task.kind # "update" => SameLines(o, task.items, orders'[o].items)
    PROVE  Moved(r) /\ RunOK(r)' /\ Counted
<1>1. /\ pc[r] = "idle" /\ label \in Label \ {"idle"} /\ o \in Orders
      /\ pc' = [pc EXCEPT ![r] = label] /\ job' = [job EXCEPT ![r] = task]
      /\ mem' = mem /\ tries' = tries /\ faults' = faults
      /\ disturbed' \in {disturbed, disturbed \cup {o}}
  BY Zenon DEF Begin, TaskFits, Followed
<1>2. Counted
  BY <1>1, Zenon DEF Counted, IndInv, TypeOK
<1>3. Moved(r) /\ pc'[r] = label /\ job'[r] = task
  BY <1>1, Zenon DEF Moved, IndInv, TypeOK, Tries
<1>4. mem'[r] = NoSaga /\ mem'[r].status = "none"
  BY <1>1, EmptyCopy, Zenon DEF IndInv, RunOK
<1>5. GoodFor(job[r].order, mem[r])'
  BY <1>1, <1>3, <1>4, EmptyCopy, Zenon DEF GoodFor
<1>6. UndoneSoFar(r)'
  BY <1>3, Zenon DEF UndoneSoFar, UndoLabels
<1>7. Working(r)'
  BY <1>3, <1>4, <1>5, <1>6, Zenon DEF Working
<1> QED
  BY <1>1, <1>2, <1>3, <1>7, Zenon DEF RunOK

-----------------------------------------------------------------------------
(* The start of a run. *)

\* However the identifiers fall, the lines are those of the order.
LEMMA ShuffledLines ==
    ASSUME NEW o \in Orders, NEW items \in Shuffled(Items[o])
    PROVE  items \in Seq(Line) /\ Len(items) = Len(Items[o])
<1>1. Items[o] \in Seq(Line) /\ Len(Items[o]) \in Nat
  BY LinesKnown, Zenon
<1>2. PICK f \in Bijection(1 .. Len(Items[o]), 1 .. Len(Items[o])) :
         items = [i \in 1 .. Len(Items[o]) |-> Items[o][f[i]]]
  BY Zenon DEF Shuffled
<1>3. \A i \in 1 .. Len(Items[o]) : f[i] \in 1 .. Len(Items[o])
  BY <1>2, Zenon DEF Bijection, Injection, IsInjective
<1>4. \A i \in 1 .. Len(Items[o]) : Items[o][f[i]] \in Line
  BY <1>1, <1>3
<1> QED
  BY <1>1, <1>2, <1>4

\* The transaction of CreateOrder: a new order has neither a saga nor a payment.
LEMMA CreateTables ==
    ASSUME TablesOK, NEW o \in Orders, orders[o] = NoOrder, NEW items \in Shuffled(Items[o]),
           orders' = [orders EXCEPT ![o] = [status |-> "pending", items |-> items]],
           UNCHANGED <<sagas, services>>
    PROVE  TablesOK' /\ Grow /\ orders'[o] # NoOrder /\ orders'[o].items = items
<1>1. /\ sagas' = sagas /\ stock' = stock /\ reservations' = reservations
      /\ payments' = payments /\ refunds' = refunds
  BY Zenon DEF services
<1>2. items \in Seq(Line) /\ Len(items) = Len(Items[o])
  BY ShuffledLines, Zenon
<1>3. [status |-> "pending", items |-> items] \in OrderRow
  BY <1>2, Zenon DEF OrderRow, OrderStatuses
<1>4. /\ orders'[o] = [status |-> "pending", items |-> items]
      /\ \A other \in Orders \ {o} : orders'[other] = orders[other]
      /\ orders' \in [Orders -> OrderRow]
  BY <1>3, Zenon DEF TablesOK
<1>5. orders'[o] # NoOrder /\ orders'[o].items = items
  BY <1>4, Zenon DEF NoOrder
<1>6. Grow
  BY <1>1, <1>4, Zenon DEF Grow
<1>7. sagas[o] = NoSaga /\ payments[o] = Pay!Unpaid
  BY Zenon DEF TablesOK, OrderOK
<1>8. DOMAIN refunds[o] = {}
  <2>1. payments[o].status # "refunded"
    BY <1>7 DEF Pay!Unpaid
  <2> QED
    BY <2>1, Zenon DEF TablesOK, OrderOK
<1>9. GoodFor(o, sagas[o])'
  BY <1>1, <1>7, EmptyCopy, Zenon DEF GoodFor
<1>10. OrderOK(o)'
  BY <1>1, <1>2, <1>5, <1>7, <1>8, <1>9, Zenon DEF OrderOK
<1>11. \A other \in Orders \ {o} : OrderOK(other)'
  BY <1>1, <1>4, <1>6, OrderKept, Zenon
<1> QED
  BY <1>1, <1>4, <1>5, <1>6, <1>10, <1>11, Zenon DEF TablesOK, BookTypeOK

\* A task as Begin is given it.
LEMMA TaskIsJob ==
    ASSUME NEW o \in Followed, NEW kind \in {"create", "recover", "cancel"},
           NEW items \in Seq(Line)
    PROVE  /\ Task(kind, o, items) \in Job /\ Task(kind, o, items).order = o
           /\ Task(kind, o, items).kind = kind /\ Task(kind, o, items).items = items
  BY Zenon DEF Task, Job

\* The stored lines of an order suit a run that is given them.
LEMMA StoredLines ==
    ASSUME TablesOK, NEW o \in Orders, orders[o] # NoOrder
    PROVE  orders[o].items \in Seq(Line) /\ SameLines(o, orders[o].items, orders[o].items)
<1>1. orders[o].items \in Seq(Line)
  BY Zenon DEF TablesOK, OrderRow
<1> QED
  BY <1>1, Zenon DEF TablesOK, OrderOK, SameLines

\* CreateOrder stores the order and starts its saga, unless the commit was not
\* acknowledged.
LEMMA CreateOrderInv ==
    ASSUME IndInv, NEW r \in Runs, NEW o \in Followed, CreateOrder(r, o) PROVE IndInv'
<1>1. PICK items \in Shuffled(Items[o]) :
         orders' = [orders EXCEPT ![o] = [status |-> "pending", items |-> items]]
  BY Zenon DEF CreateOrder
<1>2. o \in Orders /\ TablesOK /\ orders[o] = NoOrder /\ UNCHANGED <<sagas, services>>
  BY Zenon DEF CreateOrder, Followed, IndInv
<1>3. TablesOK' /\ Grow /\ orders'[o] # NoOrder
  BY <1>1, <1>2, CreateTables, Zenon
<1>4. CASE Begin(r, o, Task("create", o, Items[o]), "load")
  <2>1. Items[o] \in Seq(Line) /\ SameLines(o, Items[o], orders'[o].items)
    BY <1>2, LinesKnown, Zenon DEF SameLines
  <2>2. /\ Task("create", o, Items[o]) \in Job /\ Task("create", o, Items[o]).order = o
        /\ Task("create", o, Items[o]).kind = "create"
        /\ Task("create", o, Items[o]).items = Items[o]
    BY <2>1, TaskIsJob
  <2>3. /\ TaskFits("load", "create") /\ StatusFits("load", "none") /\ "load" \notin UndoLabels
    BY Zenon DEF TaskFits, StatusFits, Label, UndoLabels
  <2>4. Moved(r) /\ RunOK(r)' /\ Counted
    BY <1>3, <1>4, <2>1, <2>2, <2>3, BeginRun, Zenon
  <2> QED
    BY <1>3, <2>4, StepInv, Zenon
<1>5. CASE Fault(o) /\ UNCHANGED <<pc, job, mem, tries>>
  <2>1. Counted
    BY <1>5, FaultsCounted, Zenon
  <2>2. Moved(r)
    BY <1>5, Zenon DEF Moved, IndInv, TypeOK, Tries
  <2>3. RunOK(r)'
    BY <1>3, <1>5, RunKept, Zenon DEF IndInv
  <2> QED
    BY <1>3, <2>1, <2>2, <2>3, StepInv, Zenon
<1> QED
  BY <1>4, <1>5, Zenon DEF CreateOrder

\* Recover and CancelOrder take up an order with its stored lines; UpdateOrderStatus
\* needs none.
LEMMA TakeUpInv ==
    ASSUME IndInv, NEW r \in Runs, NEW o \in Followed,
           \/ Recover(r, o) \/ CancelOrder(r, o)
           \/ \E target \in Targets : UpdateOrderStatus(r, o, target)
    PROVE  IndInv'
<1>1. o \in Orders /\ TablesOK
  BY Zenon DEF Followed, IndInv
<1>2. UNCHANGED <<orders, sagas, services>> /\ orders[o] # NoOrder
  BY <1>1, Zenon DEF Recover, CancelOrder, UpdateOrderStatus, TablesOK, OrderOK
<1>3. TablesOK' /\ Grow
  BY <1>1, <1>2, TablesSame, Zenon
<1>4. orders' = orders
  BY <1>2, Zenon
<1>5. orders[o].items \in Seq(Line) /\ SameLines(o, orders[o].items, orders'[o].items)
  BY <1>1, <1>2, <1>4, StoredLines, Zenon
<1>6. /\ TaskFits("load", "recover") /\ StatusFits("load", "none") /\ "load" \notin UndoLabels
      /\ TaskFits("cancelDirectly", "cancel") /\ StatusFits("cancelDirectly", "none")
      /\ "cancelDirectly" \notin UndoLabels
      /\ TaskFits("loadForCancel", "cancel") /\ StatusFits("loadForCancel", "none")
      /\ "loadForCancel" \notin UndoLabels
      /\ TaskFits("setStatus", "update") /\ StatusFits("setStatus", "none")
      /\ "setStatus" \notin UndoLabels
  BY Zenon DEF TaskFits, StatusFits, Label, UndoLabels
<1>7. ASSUME NEW kind \in {"recover", "cancel"}, NEW label,
             Begin(r, o, Task(kind, o, orders[o].items), label), TaskFits(label, kind),
             StatusFits(label, "none"), label \notin UndoLabels
      PROVE  IndInv'
  <2> DEFINE task == Task(kind, o, orders[o].items)
  <2>1. task \in Job /\ task.order = o /\ task.kind = kind /\ task.items = orders[o].items
    BY <1>5, TaskIsJob
  <2> HIDE DEF task
  <2>2. Begin(r, o, task, label)
    BY <1>7, Zenon DEF task
  <2>3. Moved(r) /\ RunOK(r)' /\ Counted
    BY <1>2, <1>4, <1>5, <1>7, <2>1, <2>2, BeginRun, Zenon
  <2> QED
    BY <1>3, <2>3, StepInv, Zenon
<1>8. ASSUME NEW target \in Targets, UpdateOrderStatus(r, o, target) PROVE IndInv'
  <2> DEFINE task == [kind |-> "update", order |-> o, target |-> target]
  <2>1. task \in Job /\ task.order = o /\ task.kind = "update"
    BY Zenon DEF Job
  <2>2. Begin(r, o, task, "setStatus")
    BY <1>8, Zenon DEF UpdateOrderStatus
  <2> HIDE DEF task
  <2>3. Moved(r) /\ RunOK(r)' /\ Counted
    BY <1>2, <1>4, <1>6, <2>1, <2>2, BeginRun, ZenonT(30)
  <2> QED
    BY <1>3, <2>3, StepInv, Zenon
<1>9. CASE Recover(r, o)
  BY <1>6, <1>7, <1>9, Zenon DEF Recover
<1>10. CASE CancelOrder(r, o)
  BY <1>6, <1>7, <1>10, Zenon DEF CancelOrder
<1> QED
  BY <1>8, <1>9, <1>10, Zenon

-----------------------------------------------------------------------------
(* The steps of a run. *)

\* GetByOrderID
LEMMA LoadSagaInv ==
    ASSUME IndInv, NEW r \in Runs, LoadSaga(r) PROVE IndInv'
<1> DEFINE o == job[r].order
<1>1. pc[r] = "load" /\ Working(r) /\ o \in Followed /\ o \in Orders /\ TablesOK
  BY AtWork, Zenon DEF LoadSaga, IndInv
<1>2. /\ UNCHANGED <<orders, sagas, services>>
      /\ \/ IF sagas[o] = NoSaga THEN Skip(r, "insert") ELSE Continue(r, sagas[o])
         \/ Return(r)
      /\ NoFault \/ Fault(o)
  BY Zenon DEF LoadSaga, Call
<1>3. TablesOK' /\ Grow /\ Counted
  BY <1>1, <1>2, TablesSame, FaultsCounted, Zenon
<1>4. ~Cancelling(r) /\ job[r].kind # "update" /\ mem[r].status = "none"
  BY <1>1, Zenon DEF Working, TaskFits, StatusFits, Cancelling, UndoLabels
<1>5. CASE sagas[o] = NoSaga /\ Skip(r, "insert")
  <2>1. /\ "insert" \in Label \ {"idle"} /\ TaskFits("insert", job[r].kind)
        /\ StatusFits("insert", mem[r].status)
    BY <1>4, Zenon DEF Label, TaskFits, StatusFits, Cancelling
  <2>2. Moved(r) /\ RunOK(r)'
    BY <1>1, <1>3, <1>4, <1>5, <2>1, GoOnSame, ZenonT(30)
  <2> QED
    BY <1>3, <2>2, StepInv, Zenon
<1>6. CASE sagas[o] # NoSaga /\ Continue(r, sagas[o])
  <2>1. /\ sagas[o].status # "none" /\ orders[o] # NoOrder
        /\ GoodFor(o, sagas[o])
    BY <1>1, <1>6, Zenon DEF TablesOK, OrderOK
  <2>2. GoodCopy(o, sagas[o], reservations', payments'[o], orders'[o].items)
    BY <1>1, <1>3, <2>1, GoodKept, Zenon
  <2>3. Moved(r) /\ RunOK(r)'
    BY <1>1, <1>3, <1>4, <1>6, <2>1, <2>2, ContinueRun, Zenon
  <2> QED
    BY <1>3, <2>3, StepInv, Zenon
<1>7. CASE Return(r)
  BY <1>3, <1>7, ReturnRun, StepInv, Zenon
<1> QED
  BY <1>2, <1>5, <1>6, <1>7, Zenon

\* A run saves a good copy, in whatever way its row was, and then goes on with it or
\* returns.
LEMMA SaveInv ==
    ASSUME IndInv, NEW r \in Runs, pc[r] # "idle", NEW s, GoodFor(job[r].order, s),
           s.status # "none",
           \/ sagas' = [sagas EXCEPT ![job[r].order] = s]
           \/ sagas' = sagas,
           UNCHANGED <<orders, services>>, NoFault \/ Fault(job[r].order)
    PROVE  /\ TablesOK' /\ Grow /\ Counted
           /\ GoodCopy(job[r].order, s, reservations', payments'[job[r].order],
                       orders'[job[r].order].items)
           /\ Return(r) => IndInv'
           /\ Continue(r, s) /\ ~Cancelling(r) /\ job[r].kind # "update" => IndInv'
<1> DEFINE o == job[r].order
<1>1. o \in Followed /\ o \in Orders /\ orders[o] # NoOrder /\ TablesOK
  BY AtWork, Zenon DEF IndInv
<1>2. TablesOK' /\ Grow
  <2>1. CASE sagas' = [sagas EXCEPT ![o] = s]
    BY <1>1, <2>1, SaveTables, Zenon
  <2>2. CASE sagas' = sagas
    BY <1>1, <2>2, TablesSame, Zenon DEF services
  <2> QED
    BY <2>1, <2>2, Zenon
<1>3. Counted
  BY <1>1, FaultsCounted, Zenon
<1>4. GoodCopy(o, s, reservations', payments'[o], orders'[o].items)
  BY <1>1, <1>2, GoodKept, Zenon
<1>5. Return(r) => IndInv'
  BY <1>2, <1>3, ReturnRun, StepInv, Zenon
<1>6. ASSUME Continue(r, s), ~Cancelling(r), job[r].kind # "update" PROVE IndInv'
  BY <1>2, <1>3, <1>4, <1>6, ContinueRun, StepInv, Zenon
<1> QED
  BY <1>2, <1>3, <1>4, <1>5, <1>6, Zenon

\* INSERT of the new row
LEMMA InsertSagaInv ==
    ASSUME IndInv, NEW r \in Runs, InsertSaga(r) PROVE IndInv'
<1>1. pc[r] = "insert" /\ Working(r) /\ job[r].order \in Orders
  BY AtWork, Zenon DEF InsertSaga
<1>2. /\ \/ sagas' = [sagas EXCEPT ![job[r].order] = NewSaga]
         \/ sagas' = sagas
      /\ UNCHANGED <<orders, services>> /\ (NoFault \/ Fault(job[r].order))
      /\ Continue(r, NewSaga) \/ Return(r)
  BY Zenon DEF InsertSaga, Call
<1>3. ~Cancelling(r) /\ job[r].kind # "update"
  BY <1>1, Zenon DEF Working, TaskFits, Cancelling, UndoLabels
<1>4. GoodFor(job[r].order, NewSaga) /\ NewSaga.status # "none"
  BY <1>1, EmptyCopy, Zenon DEF GoodFor
<1> QED
  BY <1>1, <1>2, <1>3, <1>4, SaveInv, Zenon

\* Prepare promises no more than the step before it has done.
LEMMA PrepareStepInv ==
    ASSUME IndInv, NEW r \in Runs, PrepareStep(r) PROVE IndInv'
<1> DEFINE status == prepared[mem[r].status]
           s      == [mem[r] EXCEPT !.status = status]
<1>1. /\ pc[r] = "prepare" /\ Working(r) /\ job[r].order \in Orders
      /\ mem[r] \in SagaRow /\ GoodFor(job[r].order, mem[r])
  BY AtWork, Zenon DEF PrepareStep
<1>2. /\ \/ sagas' = [sagas EXCEPT ![job[r].order] = s]
         \/ sagas' = sagas
      /\ UNCHANGED <<orders, services>> /\ (NoFault \/ Fault(job[r].order))
      /\ Continue(r, s) \/ Return(r)
  BY Zenon DEF PrepareStep, Save, Call
<1>3. ~Cancelling(r) /\ job[r].kind # "update" /\ mem[r].status \in {"reserved", "paid"}
  BY <1>1, Zenon DEF Working, TaskFits, StatusFits, Cancelling, UndoLabels
<1>4. /\ status \in SagaStatus
      /\ \/ mem[r].status = "reserved" /\ status = "paying"
         \/ mem[r].status = "paid" /\ status = "confirming"
  BY <1>3, NextSteps, Zenon DEF SagaStatus
<1> HIDE DEF status
<1>5. GoodFor(job[r].order, s)
  <2>1. /\ Len(mem[r].items) = Len(Items[job[r].order])
        /\ status \in {"paid", "confirming", "confirmed"} => mem[r].paymentID
    BY <1>1, <1>4, Zenon DEF GoodFor, GoodCopy
  <2> QED
    BY <1>1, <1>4, <2>1, CopyWithStatus, ZenonT(30) DEF GoodFor
<1>6. s.status # "none"
  BY <1>1, <1>4, StatusWritten, ZenonT(30)
<1> HIDE DEF s
<1> QED
  BY <1>1, <1>2, <1>3, <1>5, <1>6, SaveInv, Zenon

\* persistSaga after a step
LEMMA PersistSagaInv ==
    ASSUME IndInv, NEW r \in Runs, PersistSaga(r) PROVE IndInv'
<1>1. pc[r] = "persist" /\ Working(r) /\ GoodFor(job[r].order, mem[r])
  BY AtWork, Zenon DEF PersistSaga
<1>2. /\ \/ sagas' = [sagas EXCEPT ![job[r].order] = mem[r]]
         \/ sagas' = sagas
      /\ UNCHANGED <<orders, services>> /\ (NoFault \/ Fault(job[r].order))
      /\ Continue(r, mem[r]) \/ Return(r)
  BY Zenon DEF PersistSaga, Save, Call
<1>3. ~Cancelling(r) /\ job[r].kind # "update" /\ mem[r].status # "none"
  BY <1>1, Zenon DEF Working, TaskFits, StatusFits, Cancelling, UndoLabels
<1> QED
  BY <1>1, <1>2, <1>3, SaveInv, Zenon

\* The saga ends as failed or cancelled.
LEMMA LastSaveInv ==
    ASSUME IndInv, NEW r \in Runs, MarkFailed(r) \/ CancelSagaRow(r) PROVE IndInv'
<1>1. PICK status \in {"failed", "cancelled"} :
         Save(r, job[r].order, [mem[r] EXCEPT !.status = status], Return(r), Return(r))
  BY Zenon DEF MarkFailed, CancelSagaRow
<1> DEFINE s == [mem[r] EXCEPT !.status = status]
<1>2. pc[r] # "idle" /\ status \in SagaStatus
  BY Zenon DEF MarkFailed, CancelSagaRow, SagaStatus
<1>3. job[r].order \in Orders /\ mem[r] \in SagaRow /\ GoodFor(job[r].order, mem[r])
  BY <1>2, AtWork, Zenon
<1>4. GoodFor(job[r].order, s)
  BY <1>2, <1>3, CopyWithStatus, Zenon DEF GoodFor
<1>5. s.status # "none"
  BY <1>2, <1>3, StatusWritten, ZenonT(30)
<1>6. /\ \/ sagas' = [sagas EXCEPT ![job[r].order] = s]
         \/ sagas' = sagas
      /\ UNCHANGED <<orders, services>> /\ (NoFault \/ Fault(job[r].order))
      /\ Return(r)
  BY <1>1, Zenon DEF Save, Call
<1> HIDE DEF s
<1> QED
  BY <1>2, <1>4, <1>5, <1>6, SaveInv, ZenonT(30)

\* A step that succeeded hands its copy over to be persisted.
LEMMA DoneRun ==
    ASSUME IndInv, NEW r \in Runs, pc[r] # "idle", ~Cancelling(r), job[r].kind # "update",
           Grow, NEW s, Done(r, s), s.status # "none",
           GoodCopy(job[r].order, s, reservations', payments'[job[r].order],
                    orders'[job[r].order].items)
    PROVE  Moved(r) /\ RunOK(r)'
<1>1. /\ "persist" \in Label \ {"idle"} /\ StatusFits("persist", s.status)
      /\ TaskFits("persist", job[r].kind)
  BY Zenon DEF Label, StatusFits, TaskFits, Cancelling
<1> QED
  BY <1>1, GoOn, Zenon DEF Done

\* StartStep and ConfirmOrderStep write the order's status.
LEMMA OrderStepInv ==
    ASSUME IndInv, NEW r \in Runs, StartStep(r) \/ ConfirmOrderStep(r) PROVE IndInv'
<1> DEFINE o == job[r].order
<1>1. PICK written \in OrderStatuses, status \in {"reserving", "confirmed"} :
         /\ UpdateStatus(r, o, written, Done(r, [mem[r] EXCEPT !.status = status]), StepFails(r))
         /\ \/ pc[r] = "start" /\ status = "reserving"
            \/ pc[r] = "confirm" /\ status = "confirmed"
  BY Zenon DEF StartStep, ConfirmOrderStep, OrderStatuses
<1> DEFINE s == [mem[r] EXCEPT !.status = status]
<1>2. /\ Working(r) /\ o \in Followed /\ o \in Orders /\ orders[o] # NoOrder /\ TablesOK
      /\ mem[r] \in SagaRow /\ GoodFor(o, mem[r])
  BY <1>1, AtWork, Zenon DEF IndInv
<1>3. /\ \/ orders' = [orders EXCEPT ![o].status = written]
         \/ orders' = orders
      /\ UNCHANGED <<sagas, services>> /\ (NoFault \/ Fault(o))
      /\ Done(r, s) \/ StepFails(r)
  BY <1>1, Zenon DEF UpdateStatus, Call
<1>4. TablesOK' /\ Grow
  <2>1. CASE orders' = [orders EXCEPT ![o].status = written]
    BY <1>2, <1>3, <2>1, UpdateTables, Zenon
  <2>2. CASE orders' = orders
    BY <1>2, <1>3, <2>2, TablesSame, Zenon
  <2> QED
    BY <1>3, <2>1, <2>2, Zenon
<1>5. Counted
  BY <1>2, <1>3, FaultsCounted, Zenon
<1>6. GoodFor(o, s) /\ s.status # "none"
  <2>1. /\ status \in SagaStatus
        /\ status = "confirmed" => mem[r].paymentID /\ Len(mem[r].items) = Len(Items[o])
    BY <1>1, <1>2, Zenon DEF Working, StatusFits, GoodFor, GoodCopy, SagaStatus
  <2>2. GoodCopy(o, s, reservations, payments[o], orders[o].items)
    BY <1>1, <1>2, <2>1, CopyWithStatus, Zenon DEF GoodFor
  <2>3. s.status = status
    BY <1>2, <2>1, StatusWritten, Zenon
  <2> QED
    BY <1>1, <2>2, <2>3, Zenon DEF GoodFor
<1> HIDE DEF s
<1>7. CASE Done(r, s)
  <2>1. ~Cancelling(r) /\ job[r].kind # "update"
    BY <1>1, <1>2, Zenon DEF Working, TaskFits, Cancelling, UndoLabels
  <2>2. GoodCopy(o, s, reservations', payments'[o], orders'[o].items)
    BY <1>2, <1>4, <1>6, GoodKept, Zenon
  <2>3. Moved(r) /\ RunOK(r)'
    BY <1>1, <1>4, <1>6, <1>7, <2>1, <2>2, DoneRun, ZenonT(30)
  <2> QED
    BY <1>4, <1>5, <2>3, StepInv, Zenon
<1>8. CASE StepFails(r)
  BY <1>1, <1>4, <1>5, <1>8, StepFailsRun, StepInv, ZenonT(30)
<1> QED
  BY <1>3, <1>7, <1>8, Zenon

\* What a call of inventory-service on behalf of o leaves in the tables.
LEMMA ReserveTables ==
    ASSUME TablesOK, NEW o \in Orders, NEW line \in Line, Reserve(o, line),
           UNCHANGED <<orders, sagas, payments, refunds>>
    PROVE  /\ TablesOK' /\ Grow
           /\ reservations'[<<o, line.product>>].status # "none"
           /\ reservations'[<<o, line.product>>].quantity = line.quantity
<1>1. line.product \in Products /\ line.quantity \in Quantities
  BY Zenon DEF Line
<1>2. CASE ReserveIsRetry(o, line) /\ UNCHANGED bookVars
  <2>1. reservations' = reservations /\ UNCHANGED <<orders, sagas, services>>
    BY <1>2, Zenon DEF bookVars, services
  <2>2. TablesOK' /\ Grow
    BY <2>1, TablesSame, Zenon
  <2> QED
    BY <1>2, <2>1, <2>2 DEF ReserveIsRetry
<1>3. CASE BookReserve(o, line.product, line.quantity)
  BY <1>1, <1>3, BookTables
<1> QED
  BY <1>2, <1>3, Zenon DEF Reserve

\* The next line is reserved and recorded, or all of them are.
LEMMA ReserveInventoryStepInv ==
    ASSUME IndInv, NEW r \in Runs, ReserveInventoryStep(r) PROVE IndInv'
<1> DEFINE o == job[r].order
<1>1. /\ pc[r] = "reserve" /\ Working(r) /\ o \in Followed /\ o \in Orders
      /\ orders[o] # NoOrder /\ TablesOK /\ mem[r] \in SagaRow /\ GoodFor(o, mem[r])
  BY AtWork, Zenon DEF ReserveInventoryStep, IndInv
<1>2. /\ ~Cancelling(r) /\ job[r].kind # "update" /\ mem[r].status = "reserving"
      /\ SameLines(o, job[r].items, orders[o].items)
  BY <1>1, Zenon DEF Working, TaskFits, StatusFits, Cancelling, UndoLabels
<1>3. /\ Len(mem[r].items) \in Nat /\ job[r].items \in Seq(Line)
      /\ Len(job[r].items) = Len(Items[o]) /\ Len(Items[o]) \in Nat
      /\ Len(mem[r].items) <= Len(Items[o])
  BY <1>1, <1>2, SagaFields, LinesKnown, Zenon DEF SameLines, GoodFor, GoodCopy
<1>4. UNCHANGED <<orders, sagas, payments, refunds>>
  BY Zenon DEF ReserveInventoryStep
<1>5. CASE /\ AllRecorded(r) /\ Done(r, [mem[r] EXCEPT !.status = "reserved"])
           /\ NoFault /\ UNCHANGED bookVars
  <2> DEFINE s == [mem[r] EXCEPT !.status = "reserved"]
  <2>1. TablesOK' /\ Grow
    BY <1>1, <1>4, <1>5, TablesSame, Zenon DEF services, bookVars
  <2>2. Len(mem[r].items) = Len(Items[o])
    BY <1>3, <1>5 DEF AllRecorded
  <2>3. GoodFor(o, s) /\ s.status # "none"
    BY <1>1, <2>2, CopyWithStatus, StatusWritten, ZenonT(30) DEF GoodFor, SagaStatus
  <2>4. Done(r, s)
    BY <1>5, Zenon
  <2> HIDE DEF s
  <2>5. GoodCopy(o, s, reservations', payments'[o], orders'[o].items)
    BY <1>1, <2>1, <2>3, GoodKept, Zenon
  <2>6. Moved(r) /\ RunOK(r)'
    BY <1>1, <1>2, <2>1, <2>3, <2>4, <2>5, DoneRun, ZenonT(30)
  <2> QED
    BY <1>1, <1>5, <2>1, <2>6, FaultsCounted, StepInv, Zenon
<1>6. CASE ~AllRecorded(r)
  <2> DEFINE line == job[r].items[Len(mem[r].items) + 1]
             s    == Recorded(r, line)
  <2>1. line \in Line /\ Len(mem[r].items) < Len(job[r].items)
    BY <1>3, <1>6 DEF AllRecorded
  <2>2. /\ \/ Reserve(o, line) /\ (Done(r, s) \/ StepFails(r))
           \/ UNCHANGED bookVars /\ StepFails(r)
        /\ NoFault \/ Fault(o)
    BY <1>6, Zenon DEF ReserveInventoryStep, Call
  <2>0. line = job[r].items[Len(mem[r].items) + 1]
    OBVIOUS
  <2> HIDE DEF line
  <2>3. TablesOK' /\ Grow /\ Counted
    <3>1. CASE Reserve(o, line)
      BY <1>1, <1>4, <2>1, <2>2, <3>1, ReserveTables, FaultsCounted, ZenonT(30)
    <3>2. CASE UNCHANGED bookVars
      BY <1>1, <1>4, <2>2, <3>2, TablesSame, FaultsCounted, ZenonT(30) DEF services, bookVars
    <3> QED
      BY <2>2, <3>1, <3>2, Zenon
  <2>4. CASE StepFails(r)
    BY <1>1, <2>3, <2>4, StepFailsRun, StepInv, ZenonT(30)
  <2>5. CASE Reserve(o, line) /\ Done(r, s)
    <3>1. /\ reservations'[<<o, line.product>>].status # "none"
          /\ reservations'[<<o, line.product>>].quantity = line.quantity
      BY <1>1, <1>4, <2>1, <2>5, ReserveTables, ZenonT(30)
    <3>2. GoodCopy(o, mem[r], reservations', payments'[o], orders'[o].items)
      BY <1>1, <2>3, GoodKept, ZenonT(30)
    <3>3. SameLines(o, job[r].items, orders'[o].items)
      BY <1>2, <1>4, Zenon
    <3>4. GoodCopy(o, s, reservations', payments'[o], orders'[o].items) /\ s.status = "reserving"
      <4>1. GoodCopy(o, [mem[r] EXCEPT !.items = Append(@, line)], reservations',
                     payments'[o], orders'[o].items)
        BY <1>1, <1>2, <2>0, <2>1, <3>1, <3>2, <3>3, CopyWithLine, ZenonT(30)
      <4>2. [mem[r] EXCEPT !.items = Append(@, line)].status = "reserving"
        BY <1>1, <1>2, Zenon DEF SagaRow
      <4> QED
        BY <4>1, <4>2, Zenon DEF Recorded
    <3> HIDE DEF s
    <3>5. Moved(r) /\ RunOK(r)'
      BY <1>1, <1>2, <2>3, <2>5, <3>4, DoneRun, ZenonT(30)
    <3> QED
      BY <2>3, <3>5, StepInv, Zenon
  <2> QED
    BY <2>2, <2>4, <2>5, Zenon
<1> QED
  BY <1>5, <1>6, Zenon DEF ReserveInventoryStep

\* The payment is asked for once every line is on record.
LEMMA ProcessPaymentStepInv ==
    ASSUME IndInv, NEW r \in Runs, ProcessPaymentStep(r) PROVE IndInv'
<1> DEFINE o == job[r].order
           s == [mem[r] EXCEPT !.status = "paid", !.paymentID = TRUE]
<1>1. /\ pc[r] = "pay" /\ Working(r) /\ o \in Followed /\ o \in Orders
      /\ orders[o] # NoOrder /\ TablesOK /\ mem[r] \in SagaRow /\ GoodFor(o, mem[r])
  BY AtWork, Zenon DEF ProcessPaymentStep, IndInv
<1>2. ~Cancelling(r) /\ job[r].kind # "update" /\ mem[r].status = "paying"
  BY <1>1, Zenon DEF Working, TaskFits, StatusFits, Cancelling, UndoLabels
<1>3. Len(mem[r].items) = Len(Items[o])
  BY <1>1, <1>2, Zenon DEF GoodFor, GoodCopy
<1>4. orders[o].items = Items[o] => EveryLineWasReserved(o)
  <2>1. DOMAIN mem[r].items = DOMAIN Items[o]
    BY <1>1, <1>3, SagaFields, LinesKnown, Zenon
  <2> QED
    BY <1>1, <2>1 DEF GoodFor, GoodCopy, EveryLineWasReserved
<1>5. /\ \/ ServiceSubject \in Users /\ ProcessPayment(o) /\ (Done(r, s) \/ StepFails(r))
         \/ UNCHANGED <<payments, refunds>> /\ StepFails(r)
      /\ NoFault \/ Fault(o)
      /\ UNCHANGED <<orders, sagas, bookVars>>
  BY Zenon DEF ProcessPaymentStep, Call
<1>6. CASE ServiceSubject \in Users /\ ProcessPayment(o)
  <2>1. TablesOK' /\ Grow /\ payments'[o] # Pay!Unpaid
    BY <1>1, <1>4, <1>5, <1>6, ChargeTables, Zenon
  <2>2. CASE StepFails(r)
    BY <1>1, <1>5, <2>1, <2>2, FaultsCounted, StepFailsRun, StepInv, ZenonT(30)
  <2>3. CASE Done(r, s)
    <3>1. GoodCopy(o, mem[r], reservations', payments'[o], orders'[o].items)
      BY <1>1, <2>1, GoodKept, Zenon
    <3>2. GoodCopy(o, s, reservations', payments'[o], orders'[o].items) /\ s.status = "paid"
      BY <1>1, <1>3, <2>1, <3>1, CopyWithPayment, Zenon
    <3> HIDE DEF s
    <3>3. Moved(r) /\ RunOK(r)'
      BY <1>1, <1>2, <2>1, <2>3, <3>2, DoneRun, ZenonT(30)
    <3> QED
      BY <1>1, <1>5, <2>1, <3>3, FaultsCounted, StepInv, ZenonT(30)
  <2> QED
    BY <1>5, <2>2, <2>3, Zenon
<1>7. CASE UNCHANGED <<payments, refunds>> /\ StepFails(r)
  <2>1. TablesOK' /\ Grow
    BY <1>1, <1>5, <1>7, TablesSame, Zenon DEF services, bookVars
  <2> QED
    BY <1>1, <1>5, <1>7, <2>1, FaultsCounted, StepFailsRun, StepInv, ZenonT(30)
<1> QED
  BY <1>5, <1>6, <1>7, Zenon

=============================================================================
