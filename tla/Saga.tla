-------------------------------- MODULE Saga --------------------------------
(***************************************************************************)
(* order-service: the saga of an order and everything that runs beside it. *)
(*                                                                         *)
(* A run is one goroutine at work on one order: CreateOrder, the recovery  *)
(* worker, CancelOrder or UpdateOrderStatus.  Every database statement and *)
(* every call of another service is a step of its own, so runs interleave  *)
(* between them.  Inventory and payment are the abstract services that     *)
(* Inventory.tla and Payment.tla are shown to implement.                   *)
(*                                                                         *)
(* A call can fail unsent, or succeed and lose its reply; the context of a *)
(* run can expire, after which none of its calls gets through; a run can   *)
(* die between any two steps.  MaxFaults bounds how often.                 *)
(*                                                                         *)
(* order-service calls with a token whose subject is the service's name,   *)
(* and payment-service takes only a UUID for a payer: with the subject the *)
(* code issues (ServiceSubject \notin Users) ProcessPayment is refused, and *)
(* every saga that gets there is compensated.  The other case shows what   *)
(* the rest of the code does if the token is one that is accepted.         *)
(***************************************************************************)
EXTENDS StockBook, OrderStatus, Sequences, Functions

CONSTANTS Runs,            \* goroutines
          OtherDemand,     \* reservations that orders beside the followed ones make
          Items,           \* order -> its lines, as the customer gave them
          Users,           \* subjects the payment service accepts as a payer
          ServiceSubject,  \* the subject of order-service's own token
          Total,           \* the amount of an order
          Targets,         \* statuses UpdateOrderStatus is asked for
          MaxRetries,      \* retryCfg.maxRetries
          MaxFaults,
          NoKey            \* the empty idempotency key

Line == [product : Products, quantity : Quantities]

\* The orders whose sagas are followed step by step.
Followed == {o \in Orders : \A p \in Products : <<o, p>> \notin OtherDemand}

ASSUME SagaAssumption ==
    /\ OtherDemand \subseteq Keys
    /\ Items \in [Orders -> Seq(Line)]
    /\ Targets \subseteq OrderStatuses
    /\ Total \in Nat \ {0} /\ MaxRetries \in Nat \ {0} /\ MaxFaults \in Nat

VARIABLES orders, sagas,       \* tables of order-service
          payments, refunds,   \* tables of payment-service
          pc, job, mem, tries, \* per run: where it is, its task, its copy of the
                               \* saga, and how its current step is going
          faults,              \* failures so far
          disturbed            \* history: orders that met a failure, or that two
                               \* runs worked on at once

services == <<stock, reservations, payments, refunds>>
vars     == <<orders, sagas, services, pc, job, mem, tries, faults, disturbed>>

RefundKeys == ({"create", "recover", "cancel"} \X Orders) \cup {NoKey}

Pay == INSTANCE PaymentBook WITH Amounts <- {Total}

\* The order row: its status, and its lines as GetByID returns them.
NoOrder == [status |-> "none", items |-> <<>>]

SagaStatus == {"pending", "reserving", "reserved", "paying", "paid", "confirming",
               "confirmed", "compensating", "cancelled", "failed"}
NoSaga  == [status |-> "none", items |-> <<>>, paymentID |-> FALSE]
NewSaga == [status |-> "pending", items |-> <<>>, paymentID |-> FALSE]

isTerminal(s) == s.status \in {"confirmed", "cancelled", "failed"}

\* Mutant: a saga that was about to pay is not continued.
nextStepForgetsPaying ==
    [ pending   |-> "start",   reserving    |-> "reserve", reserved  |-> "prepare",
      paying    |-> "idle",    paid         |-> "prepare", confirming |-> "confirm",
      confirmed |-> "idle",    compensating |-> "idle",    cancelled |-> "idle",
      failed    |-> "idle" ]

\* The step a saga continues with; Prepare goes first where the step has one.
nextStep ==
    [ pending   |-> "start",   reserving    |-> "reserve", reserved  |-> "prepare",
      paying    |-> "pay",     paid         |-> "prepare", confirming |-> "confirm",
      confirmed |-> "idle",    compensating |-> "idle",    cancelled |-> "idle",
      failed    |-> "idle" ]

prepared == [reserved |-> "paying", paid |-> "confirming"]

\* Mutant: the step that failed half-way is left out of the plan.
planWithoutFailedStep ==
    [reserving |-> "cancelOrder", paying |-> "release", confirming |-> "refund"]

\* Mutant: a refused payment releases nothing.
planWithoutRelease ==
    [reserving |-> "release", paying |-> "cancelOrder", confirming |-> "refund"]

\* The plan for a failed step: a refund first if it was the confirmation.
compensationPlan == [reserving |-> "release", paying |-> "release", confirming |-> "refund"]

NoJob == [kind |-> "none"]
Fresh == [attempt |-> 1, pos |-> 1, bad |-> FALSE, expired |-> FALSE]

Init ==
    /\ BookInit /\ Pay!PayInit
    /\ orders = [o \in Orders |-> NoOrder]
    /\ sagas = [o \in Orders |-> NoSaga]
    /\ pc = [r \in Runs |-> "idle"]
    /\ job = [r \in Runs |-> NoJob]
    /\ mem = [r \in Runs |-> NoSaga]
    /\ tries = [r \in Runs |-> Fresh]
    /\ faults = 0
    /\ disturbed = {}

-----------------------------------------------------------------------------
(* How a run moves. *)

\* The next step of the run starts with its first attempt.
Goto(r, label) ==
    /\ pc' = [pc EXCEPT ![r] = label]
    /\ tries' = [tries EXCEPT ![r] = [Fresh EXCEPT !.expired = tries[r].expired]]
    /\ UNCHANGED job

Return(r) ==
    /\ pc' = [pc EXCEPT ![r] = "idle"]
    /\ job' = [job EXCEPT ![r] = NoJob]
    /\ mem' = [mem EXCEPT ![r] = NoSaga]
    /\ tries' = [tries EXCEPT ![r] = Fresh]

\* The run's copy becomes s, and it goes on to label.
Remember(r, s, label) ==
    /\ mem' = [mem EXCEPT ![r] = s]
    /\ Goto(r, label)

Skip(r, label) == Goto(r, label) /\ UNCHANGED mem

\* The loop of ProcessOrder: the step for the copy's status, or the end.
Continue(r, s) ==
    IF nextStep[s.status] = "idle" THEN Return(r) ELSE Remember(r, s, nextStep[s.status])

\* retry: another attempt unless they are used up or the context has expired.
MayRetry(r) == tries[r].attempt < MaxRetries /\ ~tries[r].expired

Retry(r) ==
    /\ tries' = [tries EXCEPT ![r] = [Fresh EXCEPT !.attempt = tries[r].attempt + 1]]
    /\ UNCHANGED <<pc, job, mem>>

RetryOr(r, GiveUp) ==
    \/ MayRetry(r) /\ Retry(r)
    \/ ~MayRetry(r) /\ GiveUp

NoFault == UNCHANGED <<faults, disturbed>>

Fault(o) ==
    /\ faults < MaxFaults
    /\ faults' = faults + 1
    /\ disturbed' = disturbed \cup {o}

\* A statement or a remote call on behalf of order o.  Accepted: the other side
\* would carry it out; Effect: what it then does; Nothing: that it does not.
Call(r, o, Accepted, Effect, Nothing, Ok, Error) ==
    \/ ~tries[r].expired /\ Accepted /\ Effect /\ Ok /\ NoFault
    \/ ~tries[r].expired /\ Accepted /\ Effect /\ Error /\ Fault(o)
    \/ ~tries[r].expired /\ ~Accepted /\ Nothing /\ Error /\ NoFault
    \/ ~tries[r].expired /\ Nothing /\ Error /\ Fault(o)
    \/ tries[r].expired /\ Nothing /\ Error /\ NoFault

\* UPDATE orders SET status, whatever the status was.
UpdateStatus(r, o, status, Ok, Error) ==
    /\ Call(r, o, TRUE, orders' = [orders EXCEPT ![o].status = status], UNCHANGED orders,
            Ok, Error)
    /\ UNCHANGED <<sagas, services>>

\* Save overwrites the whole row, whatever it was.
Save(r, o, s, Ok, Error) ==
    /\ Call(r, o, TRUE, sagas' = [sagas EXCEPT ![o] = s], UNCHANGED sagas, Ok, Error)
    /\ UNCHANGED <<orders, services>>

\* A run begins on o; another one may be at work on it already.
Begin(r, o, task, label) ==
    /\ pc[r] = "idle"
    /\ pc' = [pc EXCEPT ![r] = label]
    /\ job' = [job EXCEPT ![r] = task]
    /\ disturbed' = IF \E other \in Runs \ {r} : pc[other] # "idle" /\ job[other].order = o
                      THEN disturbed \cup {o}
                      ELSE disturbed
    /\ UNCHANGED <<mem, tries, faults>>

Task(kind, o, items) == [kind |-> kind, order |-> o, items |-> items]

-----------------------------------------------------------------------------
(* CreateOrder, Recover and ProcessOrder *)

\* The lines of an order in the order of their random identifiers.
Shuffled(s) == {[i \in 1 .. Len(s) |-> s[f[i]]] : f \in Bijection(1 .. Len(s), 1 .. Len(s))}

\* One transaction stores the order; its commit may succeed unacknowledged, and
\* then no saga is started.
CreateOrder(r, o) ==
    /\ orders[o] = NoOrder
    /\ \E items \in Shuffled(Items[o]) :
          orders' = [orders EXCEPT ![o] = [status |-> "pending", items |-> items]]
    /\ \/ Begin(r, o, Task("create", o, Items[o]), "load")
       \/ pc[r] = "idle" /\ Fault(o) /\ UNCHANGED <<pc, job, mem, tries>>
    /\ UNCHANGED <<sagas, services>>

\* The recovery worker takes up an incomplete saga, with the lines as they are
\* stored.
Recover(r, o) ==
    /\ sagas[o] # NoSaga /\ ~isTerminal(sagas[o])
    /\ Begin(r, o, Task("recover", o, orders[o].items), "load")
    /\ UNCHANGED <<orders, sagas, services>>

\* GetByOrderID
LoadSaga(r) ==
    LET o == job[r].order IN
    /\ pc[r] = "load"
    /\ Call(r, o, TRUE, TRUE, TRUE,
            IF sagas[o] = NoSaga THEN Skip(r, "insert") ELSE Continue(r, sagas[o]),
            Return(r))
    /\ UNCHANGED <<orders, sagas, services>>

\* INSERT INTO sagas: order_id is unique.
InsertSaga(r) ==
    LET o == job[r].order IN
    /\ pc[r] = "insert"
    /\ Call(r, o, sagas[o] = NoSaga, sagas' = [sagas EXCEPT ![o] = NewSaga], UNCHANGED sagas,
            Continue(r, NewSaga), Return(r))
    /\ UNCHANGED <<orders, services>>

\* The step succeeded: its result is persisted next.
Done(r, s) == Remember(r, s, "persist")

\* The step failed for good.
handleStepFailure(r) ==
    Skip(r, IF mem[r].status = "pending" THEN "markFailed" ELSE "markCompensating")

StepFails(r) == RetryOr(r, handleStepFailure(r))

StartStep(r) ==
    /\ pc[r] = "start"
    /\ UpdateStatus(r, job[r].order, "awaiting_payment",
                    Done(r, [mem[r] EXCEPT !.status = "reserving"]), StepFails(r))

\* inventory-service, Reserve: a repetition of a live reservation succeeds.
ReserveIsRetry(o, line) ==
    reservations[<<o, line.product>>] = [quantity |-> line.quantity, status |-> "reserved"]

Reserve(o, line) ==
    \/ ReserveIsRetry(o, line) /\ UNCHANGED bookVars
    \/ BookReserve(o, line.product, line.quantity)

ReserveAccepted(o, line) ==
    \/ ReserveIsRetry(o, line)
    \/ /\ reservations[<<o, line.product>>].status = "none"
       /\ stock[line.product].available >= line.quantity

\* Mutant: the whole order is recorded with its first line.
RecordAll(r, line) == [mem[r] EXCEPT !.items = job[r].items]

Recorded(r, line) == [mem[r] EXCEPT !.items = Append(@, line)]

\* Mutant: off by one, the last line is forgotten.
AllButOneRecorded(r) == Len(mem[r].items) + 1 >= Len(job[r].items)

AllRecorded(r) == Len(mem[r].items) >= Len(job[r].items)

\* One line per execution: the one after those recorded, by position.
ReserveInventoryStep(r) ==
    LET o == job[r].order
    IN  /\ pc[r] = "reserve"
        /\ \/ /\ AllRecorded(r)
              /\ Done(r, [mem[r] EXCEPT !.status = "reserved"])
              /\ NoFault /\ UNCHANGED bookVars
           \/ /\ ~AllRecorded(r)
              /\ LET line == job[r].items[Len(mem[r].items) + 1] IN
                 Call(r, o, ReserveAccepted(o, line), Reserve(o, line), UNCHANGED bookVars,
                      Done(r, Recorded(r, line)), StepFails(r))
        /\ UNCHANGED <<orders, sagas, payments, refunds>>

\* Prepare, and the save that follows it.
PrepareStep(r) ==
    LET s == [mem[r] EXCEPT !.status = prepared[mem[r].status]] IN
    /\ pc[r] = "prepare"
    /\ Save(r, job[r].order, s, Continue(r, s), Return(r))

\* payment-service, ProcessPayment: an order that has a payment keeps it.
ProcessPayment(o) ==
    \/ Pay!PayCharge(o, ServiceSubject, Total)
    \/ payments[o] # Pay!Unpaid /\ UNCHANGED <<payments, refunds>>

\* Mutant: payment-service does not look at the subject.
ProcessPaymentForAnyone(r) ==
    /\ pc[r] = "pay"
    /\ Call(r, job[r].order, TRUE, ProcessPayment(job[r].order),
            UNCHANGED <<payments, refunds>>,
            Done(r, [mem[r] EXCEPT !.status = "paid", !.paymentID = TRUE]), StepFails(r))
    /\ UNCHANGED <<orders, sagas, bookVars>>

\* The payer is the caller's subject, which must parse as a UUID.  The reply's
\* status, success or failed, is not looked at.
ProcessPaymentStep(r) ==
    /\ pc[r] = "pay"
    /\ Call(r, job[r].order, ServiceSubject \in Users, ProcessPayment(job[r].order),
            UNCHANGED <<payments, refunds>>,
            Done(r, [mem[r] EXCEPT !.status = "paid", !.paymentID = TRUE]), StepFails(r))
    /\ UNCHANGED <<orders, sagas, bookVars>>

ConfirmOrderStep(r) ==
    /\ pc[r] = "confirm"
    /\ UpdateStatus(r, job[r].order, "paid",
                    Done(r, [mem[r] EXCEPT !.status = "confirmed"]), StepFails(r))

\* persistSaga after a step
PersistSaga(r) ==
    /\ pc[r] = "persist"
    /\ Save(r, job[r].order, mem[r], Continue(r, mem[r]), Return(r))

-----------------------------------------------------------------------------
(* handleStepFailure *)

MarkFailed(r) ==
    /\ pc[r] = "markFailed"
    /\ Save(r, job[r].order, [mem[r] EXCEPT !.status = "failed"], Return(r), Return(r))

\* A failed save is only logged.
MarkCompensating(r) ==
    LET s    == [mem[r] EXCEPT !.status = "compensating"]
        GoOn == Remember(r, s, compensationPlan[mem[r].status])
    IN  /\ pc[r] = "markCompensating"
        /\ Save(r, job[r].order, s, GoOn, GoOn)

Cancelling(r) == job[r].kind = "cancel"

\* Mutant: CancelOrder goes on after a failed compensation, too.
NeverGiveUp(r, label) == Skip(r, label)

\* A compensation that failed ends CancelOrder; a failed saga goes on without it.
GiveUp(r, label) == IF Cancelling(r) THEN Return(r) ELSE Skip(r, label)

RefundKey(r) == <<job[r].kind, job[r].order>>

\* payment-service, Refund of the whole payment: the caller must own it, a key
\* that was used gets its earlier answer.
RefundAccepted(o, key) ==
    /\ payments[o] # Pay!Unpaid /\ payments[o].user = ServiceSubject
    /\ Pay!KeyUsed(key) \/ payments[o].status = "success"

Refund(o, key) ==
    IF Pay!KeyUsed(key)
      THEN UNCHANGED <<payments, refunds>>
      ELSE Pay!PayRefund(o, Total, key)

RefundPayment(r) ==
    LET o == job[r].order IN
    /\ pc[r] = "refund"
    /\ \/ /\ ~mem[r].paymentID
          /\ Skip(r, "release")
          /\ NoFault /\ UNCHANGED <<payments, refunds>>
       \/ /\ mem[r].paymentID
          /\ Call(r, o, RefundAccepted(o, RefundKey(r)), Refund(o, RefundKey(r)),
                  UNCHANGED <<payments, refunds>>,
                  Skip(r, "release"), RetryOr(r, GiveUp(r, "release")))
    /\ UNCHANGED <<orders, sagas, bookVars>>

\* inventory-service, Release
ReleaseIsRetry(o, line) ==
    reservations[<<o, line.product>>] = [quantity |-> line.quantity, status |-> "released"]

Release(o, line) ==
    \/ ReleaseIsRetry(o, line) /\ UNCHANGED bookVars
    \/ BookRelease(o, line.product)

ReleaseAccepted(o, line) == ReleaseIsRetry(o, line) \/ ReserveIsRetry(o, line)

\* Compensate tries every recorded line and remembers whether one failed.
NextLine(r, failed) ==
    /\ tries' = [tries EXCEPT ![r].pos = @ + 1, ![r].bad = @ \/ failed]
    /\ UNCHANGED <<pc, job, mem>>

ReleaseItem(r) ==
    LET o == job[r].order IN
    /\ pc[r] = "release" /\ tries[r].pos <= Len(mem[r].items)
    /\ LET line == mem[r].items[tries[r].pos] IN
       Call(r, o, ReleaseAccepted(o, line), Release(o, line), UNCHANGED bookVars,
            NextLine(r, FALSE), NextLine(r, TRUE))
    /\ UNCHANGED <<orders, sagas, payments, refunds>>

ReleaseDone(r) ==
    /\ pc[r] = "release" /\ tries[r].pos > Len(mem[r].items)
    /\ \/ ~tries[r].bad /\ Skip(r, "cancelOrder")
       \/ tries[r].bad /\ RetryOr(r, GiveUp(r, "cancelOrder"))
    /\ NoFault /\ UNCHANGED <<orders, sagas, services>>

CancelOrderRow(r) ==
    /\ pc[r] = "cancelOrder"
    /\ UpdateStatus(r, job[r].order, "cancelled", Skip(r, "cancelSaga"),
                    GiveUp(r, "cancelSaga"))

CancelSagaRow(r) ==
    /\ pc[r] = "cancelSaga"
    /\ Save(r, job[r].order, [mem[r] EXCEPT !.status = "cancelled"], Return(r), Return(r))

-----------------------------------------------------------------------------
(* CancelOrder and UpdateOrderStatus *)

\* What to do is decided by the status that is read here.
CancelOrder(r, o) ==
    /\ orders[o] # NoOrder
    /\ \/ /\ CancellableDirectly(orders[o].status)
          /\ Begin(r, o, Task("cancel", o, orders[o].items), "cancelDirectly")
       \/ /\ CancellableWithRefund(orders[o].status)
          /\ Begin(r, o, Task("cancel", o, orders[o].items), "loadForCancel")
    /\ UNCHANGED <<orders, sagas, services>>

CancelDirectly(r) ==
    /\ pc[r] = "cancelDirectly"
    /\ UpdateStatus(r, job[r].order, "cancelled", Return(r), Return(r))

LoadForCancel(r) ==
    LET s == sagas[job[r].order] IN
    /\ pc[r] = "loadForCancel"
    /\ Call(r, job[r].order, s # NoSaga, TRUE, TRUE, Remember(r, s, "refund"), Return(r))
    /\ UNCHANGED <<orders, sagas, services>>

\* The transition is validated against the status that is read here.
UpdateOrderStatus(r, o, target) ==
    /\ orders[o] # NoOrder
    /\ CanTransition(orders[o].status, target)
    /\ Begin(r, o, [kind |-> "update", order |-> o, target |-> target], "setStatus")
    /\ UNCHANGED <<orders, sagas, services>>

SetStatus(r) ==
    /\ pc[r] = "setStatus"
    /\ UpdateStatus(r, job[r].order, job[r].target, Return(r), Return(r))

-----------------------------------------------------------------------------
\* The deadline of the run's context passes.
Expire(r) ==
    /\ pc[r] # "idle" /\ ~tries[r].expired
    /\ Fault(job[r].order)
    /\ tries' = [tries EXCEPT ![r].expired = TRUE]
    /\ UNCHANGED <<orders, sagas, services, pc, job, mem>>

\* The process dies.
Crash(r) ==
    /\ pc[r] # "idle"
    /\ Fault(job[r].order)
    /\ Return(r)
    /\ UNCHANGED <<orders, sagas, services>>

\* Another order takes stock, or gives it back.
OtherOrder(o, p) ==
    /\ BookRelease(o, p) \/ \E q \in Quantities : BookReserve(o, p, q)
    /\ UNCHANGED <<orders, sagas, payments, refunds, pc, job, mem, tries, faults, disturbed>>

Proceed(r) ==
    \/ LoadSaga(r) \/ InsertSaga(r) \/ StartStep(r) \/ ReserveInventoryStep(r)
    \/ PrepareStep(r) \/ ProcessPaymentStep(r) \/ ConfirmOrderStep(r) \/ PersistSaga(r)
    \/ MarkFailed(r) \/ MarkCompensating(r) \/ RefundPayment(r)
    \/ ReleaseItem(r) \/ ReleaseDone(r) \/ CancelOrderRow(r) \/ CancelSagaRow(r)
    \/ CancelDirectly(r) \/ LoadForCancel(r) \/ SetStatus(r)

Next ==
    \/ \E r \in Runs, o \in Followed :
          \/ CreateOrder(r, o) \/ Recover(r, o) \/ CancelOrder(r, o)
          \/ \E target \in Targets : UpdateOrderStatus(r, o, target)
    \/ \E r \in Runs : Proceed(r) \/ Expire(r) \/ Crash(r)
    \/ \E key \in OtherDemand : OtherOrder(key[1], key[2])

Spec == Init /\ [][Next]_vars

\* A run keeps going.  Nothing makes the recovery worker come back.
Fairness == \A r \in Runs : WF_vars(Proceed(r))
FairSpec == Spec /\ Fairness

-----------------------------------------------------------------------------
(* Invariants *)

OrderRow == [status : OrderStatuses, items : Seq(Line)] \cup {NoOrder}
SagaRow  == [status : SagaStatus \cup {"none"}, items : Seq(Line), paymentID : BOOLEAN]
Job == [kind : {"create", "recover", "cancel"}, order : Followed, items : Seq(Line)]
         \cup [kind : {"update"}, order : Followed, target : Targets]
         \cup {NoJob}
Label == {"idle", "load", "insert", "start", "reserve", "prepare", "pay", "confirm",
          "persist", "markFailed", "markCompensating", "refund", "release", "cancelOrder",
          "cancelSaga", "cancelDirectly", "loadForCancel", "setStatus"}

\* Every variable keeps its type; the two status columns never mix.
TypeOK ==
    /\ BookTypeOK
    /\ payments \in [Orders -> {Pay!Unpaid} \cup
                               [status : {"success", "failed", "refunded"},
                                user : Users, amount : {Total}]]
    /\ refunds \in [Orders -> Seq([amount : {Total}, key : RefundKeys])]
    /\ orders \in [Orders -> OrderRow]
    /\ sagas \in [Orders -> SagaRow]
    /\ pc \in [Runs -> Label]
    /\ job \in [Runs -> Job]
    /\ mem \in [Runs -> SagaRow]
    /\ tries \in [Runs -> [attempt : 1 .. MaxRetries, pos : Nat \ {0}, bad : BOOLEAN,
                           expired : BOOLEAN]]
    /\ faults \in 0 .. MaxFaults
    /\ disturbed \subseteq Followed

WorksOn(r, o) == pc[r] # "idle" /\ job[r].order = o

\* Every copy of the saga of o: the row, and what the runs at work on it hold.
AllCopies(o, P(_)) ==
    P(sagas[o]) /\ \A r \in Runs : WorksOn(r, o) => P(mem[r])

\* Each line a saga has recorded was reserved by inventory-service, in the same
\* quantity: Release can be told from the record alone, after any crash, lost reply
\* or concurrent run, and is never refused for a missing or a different reservation.
RecordedItemsWereReserved ==
    \A o \in Orders :
        AllCopies(o, LAMBDA s : \A i \in DOMAIN s.items :
            LET row == reservations[<<o, s.items[i].product>>]
            IN  row.status # "none" /\ row.quantity = s.items[i].quantity)

\* The status of a saga tells what has been done: from reserved on there is a record
\* per line, from paid on the payment is known, and a known payment exists.  A
\* recovery that starts from any stored row relies on it.
StatusTellsProgress ==
    \A o \in Orders :
        AllCopies(o, LAMBDA s :
            /\ s.status \in {"reserved", "paying", "paid", "confirming", "confirmed"}
                  => Len(s.items) = Len(Items[o])
            /\ s.status \in {"paid", "confirming", "confirmed"} => s.paymentID
            /\ s.paymentID => payments[o] # Pay!Unpaid)

\* When CancelOrder writes the cancellation, the payment it knew of is refunded and
\* every line it knew of is released, whatever failed or ran beside it before.
CancelCompensates ==
    \A r \in Runs :
        pc[r] \in {"cancelOrder", "cancelSaga"} /\ Cancelling(r) =>
            LET o == job[r].order IN
            /\ mem[r].paymentID => payments[o].status = "refunded"
            /\ \A i \in DOMAIN mem[r].items :
                  reservations[<<o, mem[r].items[i].product>>].status = "released"

EveryLineWasReserved(o) ==
    \A i \in DOMAIN Items[o] : reservations[<<o, Items[o][i].product>>].status # "none"

\* An order is charged only if payment-service takes order-service's subject for a
\* payer, so never with the subject the code issues; and only after each of its lines
\* was reserved, provided that GetByID returns the lines in the order CreateOrder had
\* them in.
ChargedAfterReserving ==
    \A o \in Followed :
        payments[o] # Pay!Unpaid =>
            /\ ServiceSubject \in Users
            /\ orders[o].items = Items[o] => EveryLineWasReserved(o)

Quiet(o) == \A r \in Runs : ~WorksOn(r, o)

Compensated(o) ==
    /\ payments[o].status # "success"
    /\ \A p \in Products : reservations[<<o, p>>].status # "reserved"

\* An order that met no failure and never had two runs at once, and whose payment
\* did not fail, is between runs either confirmed with all its lines reserved and a
\* payment that succeeded and was not given back, or cancelled with nothing held and
\* nothing charged.  With the subject the code issues it is cancelled.
SettledWhenAlone ==
    \A o \in Followed \ disturbed :
        orders[o] # NoOrder /\ Quiet(o) /\ payments[o].status # "failed" =>
            \/ /\ sagas[o].status = "confirmed"
               /\ \A i \in DOMAIN Items[o] : ReserveIsRetry(o, Items[o][i])
               /\ payments[o].status = "success" /\ ServiceSubject \in Users
               /\ orders[o].status \notin {"pending", "awaiting_payment"}
            \/ /\ sagas[o].status = "cancelled"
               /\ Compensated(o)
               /\ orders[o].status = "cancelled"

(* Temporal properties *)

\* The recovery worker comes back to o again and again.  The code does not promise
\* it: its loop ends with the context of OnStart, and the advisory lock may stay with
\* a session of another replica.
RecoveryReturns(o) == []<><<\E r \in Runs : Recover(r, o)>>_vars

\* Whatever fails, a saga that recovery comes back to does not stay under way: it
\* reaches a final status or compensating, no other is taken up again and again in vain.
SagaSettles ==
    \A o \in Followed :
        RecoveryReturns(o) => []<>(\/ sagas[o] = NoSaga \/ isTerminal(sagas[o])
                                  \/ sagas[o].status = "compensating")

-----------------------------------------------------------------------------
(* What the documentation says, and the code does not do. *)

\* The recovery worker finishes or compensates every incomplete saga it comes back to.
SagaFinishes ==
    \A o \in Followed : RecoveryReturns(o) => (sagas[o] # NoSaga ~> isTerminal(sagas[o]))

\* Recovery goes on with the line after the last reserved one, so a saga that calls
\* itself reserved, and goes on to pay, has reserved every line.
ReservedMeansEveryLine ==
    \A o \in Followed :
        sagas[o].status \in {"reserved", "paying", "paid", "confirming", "confirmed"} =>
            EveryLineWasReserved(o)

\* A payment that failed is compensated: the order is cancelled, its lines released.
FailedPaymentIsCompensated ==
    \A o \in Followed \ disturbed :
        payments[o].status = "failed" /\ Quiet(o) =>
            Compensated(o) /\ orders[o].status = "cancelled"

\* An order's status moves along allowedTransitions only.
OnlyAllowedTransitions ==
    [][\A o \in Followed :
          orders[o] # NoOrder => CanTransition(orders[o].status, orders'[o].status)]_vars

\* A saga that failed has given back what its completed steps took.
PreviousStepsAreUndone ==
    \A o \in Followed :
        sagas[o].status = "cancelled" /\ Quiet(o) =>
            /\ sagas[o].paymentID => payments[o].status # "success"
            /\ \A i \in DOMAIN sagas[o].items :
                  reservations[<<o, sagas[o].items[i].product>>].status = "released"
=============================================================================
