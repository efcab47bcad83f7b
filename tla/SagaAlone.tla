------------------------------ MODULE SagaAlone ------------------------------
(***************************************************************************)
(* Where an order stands that met no failure and never had two runs at     *)
(* once: the invariant behind SettledWhenAlone of Saga.tla, for any        *)
(* orders, products, runs, order lines and limits, and that the start of a *)
(* run and the steps of its checkout keep it.                              *)
(***************************************************************************)
EXTENDS SagaProofs

-----------------------------------------------------------------------------
(* The inductive invariant. *)

\* No reservation of o is live but those that s records.
Known(o, s, rows) ==
    \A p \in Products : rows[<<o, p>>].status = "reserved" =>
        \E i \in DOMAIN s.items : s.items[i].product = p

\* s records the first lines of the order as the customer gave them, all of them live.
Held(o, s, rows) ==
    \A i \in DOMAIN s.items :
        s.items[i] = Items[o][i] /\ rows[<<o, s.items[i].product>>].status = "reserved"

Untouched(o) ==
    /\ sagas[o] = NoSaga /\ payments[o] = Pay!Unpaid
    /\ \A p \in Products : reservations[<<o, p>>].status = "none"

\* The two ways to be settled.
Bought(o) ==
    /\ sagas[o].status = "confirmed"
    /\ Held(o, sagas[o], reservations) /\ Known(o, sagas[o], reservations)
    /\ payments[o].status \in {"success", "failed"}
    /\ orders[o].status \notin {"pending", "awaiting_payment"}

GivenBack(o) ==
    /\ sagas[o].status = "cancelled"
    /\ Compensated(o)
    /\ orders[o].status = "cancelled"

\* A checkout between its first and its last step: the copy knows all there is.
InCheckout(o, label, s, rows, payment, status) ==
    /\ label \in {"start", "reserve", "prepare", "pay", "confirm", "persist",
                  "markCompensating"}
    /\ Held(o, s, rows) /\ Known(o, s, rows)
    /\ s.paymentID => payment.status \in {"success", "failed"}
    /\ ~s.paymentID => payment = Pay!Unpaid
    /\ s.status \in {"pending", "reserving", "reserved", "paying"} => ~s.paymentID
    /\ s.status = "confirmed" => status = "paid"
    /\ label = "persist" => s.status \in {"reserving", "reserved", "paid", "confirmed"}
    /\ label = "markCompensating" => s.status \in {"reserving", "paying"}

\* A compensation whose refund is done or was not needed, and in which nothing failed.
InUndo(r, o) ==
    /\ pc[r] \in {"release", "cancelOrder", "cancelSaga"} /\ ~tries[r].bad
    /\ Known(o, mem[r], reservations) /\ UndoneSoFar(r)
    /\ payments[o].status # "success"
    /\ pc[r] = "cancelSaga" => orders[o].status = "cancelled"

\* Where the only run on o can be.
Phase(r, o) ==
    /\ ~tries[r].expired
    /\ \/ job[r].kind = "create" /\ job[r].items = Items[o] /\
             \/ pc[r] \in {"load", "insert"} /\ Untouched(o)
             \/ InCheckout(o, pc[r], mem[r], reservations, payments[o], orders[o].status)
       \/ job[r].kind = "cancel" /\ Bought(o) /\
             \/ pc[r] = "loadForCancel"
             \/ pc[r] = "refund" /\ mem[r] = sagas[o]
       \/ job[r].kind \in {"create", "cancel"} /\ InUndo(r, o)
       \/ job[r].kind = "update" /\ pc[r] = "setStatus" /\
             \/ Bought(o) /\ CanTransition(orders[o].status, job[r].target)
             \/ GivenBack(o) /\ job[r].target = "cancelled"

Solo(r, o) == WorksOn(r, o) /\ \A q \in Runs \ {r} : ~WorksOn(q, o)

AloneOK(o) ==
    /\ orders[o] = NoOrder => Untouched(o)
    /\ o \notin disturbed /\ orders[o] # NoOrder =>
          \/ Quiet(o) /\ (Bought(o) \/ GivenBack(o))
          \/ \E r \in Runs : Solo(r, o) /\ Phase(r, o)

AloneInv == \A o \in Followed : AloneOK(o)

-----------------------------------------------------------------------------
(* Orders that a step leaves alone. *)

SameOrder(o) ==
    /\ orders'[o] = orders[o] /\ sagas'[o] = sagas[o] /\ payments'[o] = payments[o]
    /\ \A p \in Products : reservations'[<<o, p>>] = reservations[<<o, p>>]

SameRun(q) ==
    pc'[q] = pc[q] /\ job'[q] = job[q] /\ mem'[q] = mem[q] /\ tries'[q] = tries[q]

\* What a copy says of the reservations stays true while they are the same.
LEMMA SameRows ==
    ASSUME NEW o, NEW s \in SagaRow, NEW rows, NEW later,
           \A p \in Products : later[<<o, p>>] = rows[<<o, p>>]
    PROVE  /\ Known(o, s, rows) => Known(o, s, later)
           /\ Held(o, s, rows) => Held(o, s, later)
<1>1. \A i \in DOMAIN s.items : s.items[i].product \in Products
  BY SagaFields, Zenon
<1> QED
  BY <1>1, Zenon DEF Known, Held

\* So does what is said of the other tables.
LEMMA SameTables ==
    ASSUME NEW o \in Orders, SameOrder(o), sagas[o] \in SagaRow
    PROVE  /\ Untouched(o) => Untouched(o)'
           /\ GivenBack(o) => GivenBack(o)'
           /\ Bought(o) => Bought(o)'
<1>1. Untouched(o) => Untouched(o)'
  BY Zenon DEF SameOrder, Untouched
<1>2. GivenBack(o) => GivenBack(o)'
  BY Zenon DEF SameOrder, GivenBack, Compensated
<1>3. /\ Known(o, sagas[o], reservations) => Known(o, sagas[o], reservations')
      /\ Held(o, sagas[o], reservations) => Held(o, sagas[o], reservations')
  BY SameRows, Zenon DEF SameOrder
<1>4. Bought(o) => Bought(o)'
  BY <1>3, Zenon DEF SameOrder, Bought
<1> QED
  BY <1>1, <1>2, <1>4, Zenon

\* A run at work on an order that nobody touches is where it was.
LEMMA SamePhase ==
    ASSUME IndInv, NEW o \in Followed, SameOrder(o), NEW r \in Runs, WorksOn(r, o),
           SameRun(r), Phase(r, o)
    PROVE  Phase(r, o)'
<1>1. o \in Orders /\ mem[r] \in SagaRow /\ sagas[o] \in SagaRow
  BY Zenon DEF IndInv, TypeOK, Followed
<1>2. /\ Untouched(o) => Untouched(o)'
      /\ Bought(o) => Bought(o)'
      /\ GivenBack(o) => GivenBack(o)'
  BY <1>1, SameTables, Zenon
<1>3. /\ Known(o, mem[r], reservations) => Known(o, mem[r], reservations')
      /\ Held(o, mem[r], reservations) => Held(o, mem[r], reservations')
  BY <1>1, SameRows, Zenon DEF SameOrder
<1>4. pc'[r] = pc[r] /\ job'[r] = job[r] /\ mem'[r] = mem[r] /\ tries'[r] = tries[r]
  BY Zenon DEF SameRun
<1>5. payments'[o] = payments[o] /\ orders'[o] = orders[o] /\ sagas'[o] = sagas[o]
  BY Zenon DEF SameOrder
<1>6. InCheckout(o, pc[r], mem[r], reservations, payments[o], orders[o].status) =>
      InCheckout(o, pc[r], mem[r], reservations', payments[o], orders[o].status)
  BY <1>3, Zenon DEF InCheckout
<1>7. UndoneSoFar(r) => UndoneSoFar(r)'
  <2>1. job[r].order = o
    BY Zenon DEF WorksOn
  <2>2. \A i \in DOMAIN mem[r].items :
           reservations[<<job[r].order, mem[r].items[i].product>>].status = "released" =>
              reservations'[<<job[r].order, mem[r].items[i].product>>].status = "released"
    BY <1>1, <2>1, SagaFields, Zenon DEF SameOrder
  <2>3. payments'[job[r].order] = payments[job[r].order]
    BY <1>5, <2>1, Zenon
  <2> QED
    BY <1>4, <2>2, <2>3, ZenonT(30) DEF UndoneSoFar
<1>8. InUndo(r, o) => InUndo(r, o)'
  BY <1>3, <1>4, <1>5, <1>7, Zenon DEF InUndo
<1> QED
  BY <1>2, <1>4, <1>5, <1>6, <1>8, ZenonT(30) DEF Phase

\* An order is left alone by a step that writes none of its rows, and by runs that
\* stay as they are or have nothing to do with it before and after.
LEMMA AloneElsewhere ==
    ASSUME IndInv, NEW o \in Followed, AloneOK(o), SameOrder(o),
           o \notin disturbed' => o \notin disturbed,
           \A q \in Runs : SameRun(q) \/ (~WorksOn(q, o) /\ ~WorksOn(q, o)')
    PROVE  AloneOK(o)'
<1>1. o \in Orders /\ sagas[o] \in SagaRow
  BY Zenon DEF IndInv, TypeOK, Followed
<1>2. \A q \in Runs : WorksOn(q, o)' <=> WorksOn(q, o)
  BY Zenon DEF SameRun, WorksOn
<1>3. /\ Untouched(o) => Untouched(o)'
      /\ Bought(o) => Bought(o)'
      /\ GivenBack(o) => GivenBack(o)'
  BY <1>1, SameTables, Zenon
<1>4. Quiet(o) => Quiet(o)'
  BY <1>2, Zenon DEF Quiet
<1>5. \A r \in Runs : Solo(r, o) /\ Phase(r, o) => Solo(r, o)' /\ Phase(r, o)'
  BY <1>2, SamePhase, ZenonT(30) DEF Solo
<1> QED
  BY <1>3, <1>4, <1>5, ZenonT(30) DEF AloneOK, SameOrder

-----------------------------------------------------------------------------
(* What a run does to itself. *)

\* A step of r is no step of any other run, and r stays with its task or returns.
Steps(r) ==
    /\ \A q \in Runs \ {r} : SameRun(q)
    /\ pc'[r] = "idle" \/ job'[r] = job[r]

Types ==
    /\ pc \in [Runs -> Label] /\ job \in [Runs -> Job]
    /\ mem \in [Runs -> SagaRow] /\ tries \in [Runs -> Tries]

\* The runs and their counters have their types.
LEMMA RunTypes == ASSUME IndInv PROVE Types
  BY Zenon DEF IndInv, TypeOK, Types, Tries

\* A run returns.
LEMMA ReturnStep ==
    ASSUME Types, NEW r \in Runs, Return(r) PROVE Steps(r) /\ pc'[r] = "idle"
  BY Zenon DEF Types, Return, Steps, SameRun

\* Run r is at label with copy s now; the deadline it has met stays with it.
Went(r, s, label) ==
    /\ pc'[r] = label /\ job'[r] = job[r] /\ mem'[r] = s
    /\ tries'[r].expired = tries[r].expired /\ tries'[r].pos = 1 /\ ~tries'[r].bad

\* A run goes on.
LEMMA GotoStep ==
    ASSUME Types, NEW r \in Runs, NEW label, NEW s, Remember(r, s, label)
    PROVE  Steps(r) /\ Went(r, s, label)
<1> DEFINE t == [Fresh EXCEPT !.expired = tries[r].expired]
<1>1. t.expired = tries[r].expired /\ t.pos = 1 /\ ~t.bad
  BY Zenon DEF Fresh
<1>2. /\ pc' = [pc EXCEPT ![r] = label] /\ job' = job /\ tries' = [tries EXCEPT ![r] = t]
      /\ mem' = [mem EXCEPT ![r] = s]
  BY Zenon DEF Remember, Goto
<1> HIDE DEF t
<1> QED
  BY <1>1, <1>2, Zenon DEF Types, Steps, SameRun, Went

\* A run that goes on as it is remembers the copy it has.
LEMMA SkipRemembers ==
    ASSUME Types, NEW r \in Runs, NEW label, Skip(r, label)
    PROVE  Remember(r, mem[r], label)
<1>1. mem' = [mem EXCEPT ![r] = mem[r]]
  BY Zenon DEF Skip, Types
<1> QED
  BY <1>1, Zenon DEF Skip, Remember

\* Another attempt is made only before the deadline.
LEMMA RetryStep ==
    ASSUME Types, NEW r \in Runs, Retry(r)
    PROVE  /\ Steps(r) /\ pc'[r] = pc[r] /\ job'[r] = job[r] /\ mem'[r] = mem[r]
           /\ ~tries'[r].expired
<1> DEFINE t == [Fresh EXCEPT !.attempt = tries[r].attempt + 1]
<1>1. ~t.expired
  BY Zenon DEF Fresh
<1>2. pc' = pc /\ job' = job /\ mem' = mem /\ tries' = [tries EXCEPT ![r] = t]
  BY Zenon DEF Retry
<1> HIDE DEF t
<1> QED
  BY <1>1, <1>2, Zenon DEF Types, Steps, SameRun

\* Compensate counts a line.
LEMMA LineStep ==
    ASSUME Types, NEW r \in Runs, NEW failed \in BOOLEAN, NextLine(r, failed)
    PROVE  /\ Steps(r) /\ pc'[r] = pc[r] /\ job'[r] = job[r] /\ mem'[r] = mem[r]
           /\ tries'[r].expired = tries[r].expired /\ tries'[r].pos = tries[r].pos + 1
           /\ ~tries[r].bad /\ ~failed => ~tries'[r].bad
<1> DEFINE bad == tries[r].bad \/ failed
           t   == [tries[r] EXCEPT !.pos = tries[r].pos + 1, !.bad = bad]
<1>1. pc' = pc /\ job' = job /\ mem' = mem
  BY Zenon DEF NextLine
<1>2. tries'[r] = t /\ \A q \in Runs \ {r} : tries'[q] = tries[q]
  BY Zenon DEF NextLine, Types
<1>3. ~tries[r].bad /\ ~failed => ~bad
  OBVIOUS
<1> HIDE DEF bad
<1>4. tries[r] \in Tries
  BY Zenon DEF Types
<1>5. t.expired = tries[r].expired /\ t.pos = tries[r].pos + 1 /\ t.bad = bad
  BY <1>4, Zenon DEF Tries
<1> HIDE DEF t
<1> QED
  BY <1>1, <1>2, <1>3, <1>5, Zenon DEF Steps, SameRun

\* The loop of ProcessOrder, a step that failed and a compensation that failed are
\* steps of their run only.
LEMMA OtherSteps ==
    ASSUME Types, NEW r \in Runs
    PROVE  /\ \A s : Continue(r, s) => Steps(r)
           /\ StepFails(r) => Steps(r)
           /\ \A label : Skip(r, label) => Steps(r)
           /\ \A label : GiveUp(r, label) \/ RetryOr(r, GiveUp(r, label)) => Steps(r)
<1>1. \A s, label : Remember(r, s, label) => Steps(r)
  BY GotoStep, Zenon
<1>2. \A label : Skip(r, label) => Steps(r)
  BY <1>1, SkipRemembers, Zenon
<1>3. Return(r) \/ Retry(r) => Steps(r)
  BY ReturnStep, RetryStep, Zenon
<1> QED
  BY <1>1, <1>2, <1>3, Zenon DEF Continue, StepFails, RetryOr, handleStepFailure, GiveUp

-----------------------------------------------------------------------------
(* From one order to all of them. *)

\* The other orders that are followed are none of the step's business.
Elsewhere(o) ==
    \A x \in Followed \ {o} : SameOrder(x) /\ (x \notin disturbed' => x \notin disturbed)

\* What the only run on an order must do: stay in a phase, or leave the order settled.
Carries(r, o) ==
    \/ pc'[r] = "idle" /\ (Bought(o)' \/ GivenBack(o)')
    \/ pc'[r] # "idle" /\ job'[r] = job[r] /\ Phase(r, o)'

\* The rows of the order that a step of one of its runs may write.
Writes(o) ==
    /\ \/ orders' = orders
       \/ \E status \in OrderStatuses : orders' = [orders EXCEPT ![o].status = status]
    /\ sagas' = sagas \/ \E row : sagas' = [sagas EXCEPT ![o] = row]
    /\ payments' = payments \/ \E row : payments' = [payments EXCEPT ![o] = row]
    /\ \/ reservations' = reservations
       \/ \E p \in Products : \E row : reservations' = [reservations EXCEPT ![<<o, p>>] = row]

\* Such a step concerns no other order, and the order stays in its table.
LEMMA WritesElsewhere ==
    ASSUME IndInv, NEW o \in Followed, orders[o] # NoOrder, Writes(o), NoFault \/ Fault(o)
    PROVE  Elsewhere(o) /\ orders'[o] # NoOrder
<1>1. /\ o \in Orders /\ orders \in [Orders -> OrderRow] /\ sagas \in [Orders -> SagaRow]
      /\ payments \in [Orders -> Payment] /\ reservations \in [Keys -> Reservation]
  BY Zenon DEF IndInv, TablesOK, BookTypeOK, Followed
<1>2. /\ orders'[o] # NoOrder
      /\ \A x \in Orders \ {o} : orders'[x] = orders[x]
  <2>1. CASE orders' = orders
    BY <2>1, Zenon
  <2>2. ASSUME NEW status \in OrderStatuses, orders' = [orders EXCEPT ![o].status = status]
        PROVE  /\ orders'[o].status = status
               /\ \A x \in Orders \ {o} : orders'[x] = orders[x]
    BY <1>1, <2>2, Zenon DEF OrderRow
  <2>3. \A status \in OrderStatuses : NoOrder.status # status
    BY Zenon DEF NoOrder, OrderStatuses
  <2> QED
    BY <2>1, <2>2, <2>3, Zenon DEF Writes
<1>3. \A x \in Orders \ {o} : sagas'[x] = sagas[x] /\ payments'[x] = payments[x]
  BY <1>1, Zenon DEF Writes
<1>4. \A x \in Orders \ {o}, p \in Products : reservations'[<<x, p>>] = reservations[<<x, p>>]
  BY <1>1, Zenon DEF Writes, Keys
<1>5. \A x \in Followed : x \notin disturbed' => x \notin disturbed
  BY Zenon DEF NoFault, Fault
<1> QED
  BY <1>2, <1>3, <1>4, <1>5, Zenon DEF Elsewhere, SameOrder, Followed

\* It is enough that a run does so while its order is undisturbed.
LEMMA StepAlone ==
    ASSUME IndInv, AloneInv, NEW r \in Runs, NEW o \in Followed, WorksOn(r, o), Steps(r),
           Writes(o), NoFault \/ Fault(o),
           Phase(r, o) /\ o \notin disturbed' => Carries(r, o)
    PROVE  AloneInv'
<1>0. orders[o] # NoOrder /\ orders'[o] # NoOrder /\ Elsewhere(o)
  BY AtWork, WritesElsewhere, Zenon DEF WorksOn
<1>1. ASSUME NEW x \in Followed \ {o} PROVE AloneOK(x)'
  <2>1. \A q \in Runs : SameRun(q) \/ (~WorksOn(q, x) /\ ~WorksOn(q, x)')
    BY Zenon DEF Steps, WorksOn
  <2> QED
    BY <1>0, <2>1, AloneElsewhere, Zenon DEF AloneInv, Elsewhere
<1>2. ASSUME o \in disturbed' PROVE AloneOK(o)'
  BY <1>0, <1>2, Zenon DEF AloneOK
<1>3. ASSUME o \notin disturbed' PROVE AloneOK(o)'
  <2>1. o \notin disturbed
    BY <1>3, Zenon DEF Fault, NoFault
  <2>2. PICK s \in Runs : Solo(s, o) /\ Phase(s, o)
    BY <1>0, <2>1, Zenon DEF AloneInv, AloneOK, Quiet
  <2>3. s = r
    BY <2>2, Zenon DEF Solo
  <2>4. Carries(r, o)
    BY <1>3, <2>2, <2>3, Zenon
  <2>5. \A q \in Runs \ {r} : ~WorksOn(q, o)'
    BY <2>2, <2>3, Zenon DEF Solo, Steps, SameRun, WorksOn
  <2>6. CASE pc'[r] = "idle"
    <3>1. Quiet(o)'
      BY <2>5, <2>6, Zenon DEF Quiet, WorksOn
    <3> QED
      BY <1>0, <2>4, <2>6, <3>1, Zenon DEF Carries, AloneOK
  <2>7. CASE pc'[r] # "idle"
    <3>1. Phase(r, o)' /\ Solo(r, o)'
      BY <2>4, <2>5, <2>7, Zenon DEF Carries, Solo, WorksOn
    <3> QED
      BY <1>0, <3>1, Zenon DEF AloneOK
  <2> QED
    BY <2>6, <2>7, Zenon
<1>4. AloneOK(o)'
  BY <1>2, <1>3, Zenon
<1> QED
  BY <1>1, <1>4, Zenon DEF AloneInv

\* A run begins on an order that is settled, or new, and finds it in one of its phases.
LEMMA BeginAlone ==
    ASSUME IndInv, AloneInv, NEW r \in Runs, NEW o \in Followed, NEW task, NEW label,
           label # "idle", task.order = o, Begin(r, o, task, label), Elsewhere(o),
           orders'[o] # NoOrder, orders[o] = NoOrder \/ orders'[o] = orders[o],
           /\ pc'[r] = label /\ job'[r] = task /\ ~tries'[r].expired
           /\ \/ orders[o] = NoOrder /\ Untouched(o)
              \/ orders[o] # NoOrder /\ (Bought(o) \/ GivenBack(o))
           => Phase(r, o)'
    PROVE  AloneInv'
<1>1. /\ pc[r] = "idle" /\ pc'[r] = label /\ job'[r] = task /\ ~tries'[r].expired
      /\ \A q \in Runs \ {r} : SameRun(q)
  <2>1. /\ pc[r] = "idle" /\ pc' = [pc EXCEPT ![r] = label]
        /\ job' = [job EXCEPT ![r] = task] /\ mem' = mem /\ tries' = tries
    BY Zenon DEF Begin
  <2>2. tries[r] = Fresh /\ ~Fresh.expired
    BY <2>1, Zenon DEF IndInv, RunOK, Fresh
  <2> QED
    BY <2>1, <2>2, RunTypes, Zenon DEF Types, SameRun
<1>2. ASSUME NEW x \in Followed \ {o} PROVE AloneOK(x)'
  <2>1. \A q \in Runs : SameRun(q) \/ (~WorksOn(q, x) /\ ~WorksOn(q, x)')
    BY <1>1, Zenon DEF WorksOn
  <2> QED
    BY <2>1, AloneElsewhere, Zenon DEF AloneInv, Elsewhere
<1>3. ASSUME o \notin disturbed' PROVE Solo(r, o)' /\ Phase(r, o)'
  <2>1. o \notin disturbed /\ \A q \in Runs \ {r} : ~WorksOn(q, o)
    BY <1>3, Zenon DEF Begin, WorksOn
  <2>2. Quiet(o)
    BY <1>1, <2>1, Zenon DEF Quiet, WorksOn
  <2>3. \/ orders[o] = NoOrder /\ Untouched(o)
        \/ orders[o] # NoOrder /\ (Bought(o) \/ GivenBack(o))
    BY <2>1, <2>2, Zenon DEF AloneInv, AloneOK, Quiet, Solo
  <2>4. Solo(r, o)'
    BY <1>1, <2>1, Zenon DEF Solo, WorksOn, SameRun
  <2> QED
    BY <1>1, <2>3, <2>4, Zenon
<1>4. AloneOK(o)'
  BY <1>3, Zenon DEF AloneOK
<1> QED
  BY <1>2, <1>4, Zenon DEF AloneInv

-----------------------------------------------------------------------------
(* The start of a run. *)

\* A step that writes no table leaves every order's rows alone.
LEMMA NoTables ==
    ASSUME UNCHANGED <<orders, sagas, services>>
    PROVE  /\ orders' = orders /\ sagas' = sagas /\ payments' = payments
           /\ reservations' = reservations
           /\ \A o : SameOrder(o)
<1>1. /\ orders' = orders /\ sagas' = sagas /\ payments' = payments
      /\ reservations' = reservations
  BY Zenon DEF services
<1> QED
  BY <1>1, Zenon DEF SameOrder

\* A new order has no saga, no payment and no reservation.
LEMMA CreateOrderAlone ==
    ASSUME IndInv, AloneInv, NEW r \in Runs, NEW o \in Followed, CreateOrder(r, o)
    PROVE  AloneInv'
<1>1. PICK items \in Shuffled(Items[o]) :
         orders' = [orders EXCEPT ![o] = [status |-> "pending", items |-> items]]
  BY Zenon DEF CreateOrder
<1>2. /\ o \in Orders /\ TablesOK /\ orders[o] = NoOrder /\ UNCHANGED <<sagas, services>>
      /\ sagas' = sagas /\ payments' = payments /\ reservations' = reservations
  BY Zenon DEF CreateOrder, Followed, IndInv, services
<1>3. orders'[o] # NoOrder
  BY <1>1, <1>2, CreateTables, Zenon
<1>4. \A x \in Followed \ {o} : SameOrder(x)
  BY <1>1, <1>2, Zenon DEF SameOrder, Followed, TablesOK
<1>5. CASE Begin(r, o, Task("create", o, Items[o]), "load")
  <2> DEFINE task == Task("create", o, Items[o])
  <2>1. task.order = o /\ task.kind = "create" /\ task.items = Items[o]
    BY Zenon DEF Task
  <2>2. Begin(r, o, task, "load")
    BY <1>5, Zenon
  <2> HIDE DEF task
  <2>3. Elsewhere(o)
    BY <1>4, <2>2, Zenon DEF Elsewhere, Begin
  <2>4. Untouched(o) => Untouched(o)'
    BY <1>2, Zenon DEF Untouched
  <2>5. /\ pc'[r] = "load" /\ job'[r] = task /\ ~tries'[r].expired
        /\ \/ orders[o] = NoOrder /\ Untouched(o)
           \/ orders[o] # NoOrder /\ (Bought(o) \/ GivenBack(o))
        => Phase(r, o)'
    BY <1>2, <2>1, <2>4, Zenon DEF Phase
  <2> QED
    BY <1>2, <1>3, <2>1, <2>2, <2>3, <2>5, BeginAlone, Zenon
<1>6. CASE Fault(o) /\ UNCHANGED <<pc, job, mem, tries>>
  <2>1. \A q \in Runs : SameRun(q)
    BY <1>6, Zenon DEF SameRun
  <2>2. AloneOK(o)'
    BY <1>3, <1>6, Zenon DEF AloneOK, Fault
  <2>3. \A x \in Followed \ {o} : AloneOK(x)'
    BY <1>4, <1>6, <2>1, AloneElsewhere, Zenon DEF AloneInv, Fault
  <2> QED
    BY <2>2, <2>3, Zenon DEF AloneInv
<1> QED
  BY <1>5, <1>6, Zenon DEF CreateOrder

\* A settled order has nothing to recover; it is cancelled with its refund or not at
\* all; and no allowed transition makes it new again.
LEMMA TakeUpAlone ==
    ASSUME IndInv, AloneInv, NEW r \in Runs, NEW o \in Followed,
           \/ Recover(r, o) \/ CancelOrder(r, o)
           \/ \E target \in Targets : UpdateOrderStatus(r, o, target)
    PROVE  AloneInv'
<1>1. o \in Orders /\ TablesOK /\ sagas[o] \in SagaRow
  BY Zenon DEF Followed, IndInv, TablesOK
<1>2. UNCHANGED <<orders, sagas, services>> /\ orders[o] # NoOrder
  BY <1>1, Zenon DEF Recover, CancelOrder, UpdateOrderStatus, TablesOK, OrderOK
<1>3. orders' = orders /\ \A x : SameOrder(x)
  BY <1>2, NoTables, Zenon
<1>4. (Bought(o) => Bought(o)') /\ (GivenBack(o) => GivenBack(o)')
  BY <1>1, <1>3, SameTables, Zenon
<1>5. ASSUME NEW task, NEW label, label # "idle", task.order = o, Begin(r, o, task, label),
             pc'[r] = label /\ job'[r] = task /\ ~tries'[r].expired
             /\ (Bought(o) \/ GivenBack(o)) => Phase(r, o)'
      PROVE  AloneInv'
  <2>1. Elsewhere(o)
    BY <1>3, <1>5, Zenon DEF Elsewhere, Begin
  <2> QED
    BY <1>2, <1>3, <1>5, <2>1, BeginAlone, Zenon
<1>6. CASE Recover(r, o)
  <2> DEFINE task == Task("recover", o, orders[o].items)
  <2>1. task.order = o /\ Begin(r, o, task, "load")
    BY <1>6, Zenon DEF Task, Recover
  <2> HIDE DEF task
  <2>2. ~(Bought(o) \/ GivenBack(o))
    BY <1>6, Zenon DEF Recover, isTerminal, Bought, GivenBack
  <2> QED
    BY <1>5, <2>1, <2>2, Zenon
<1>7. CASE CancelOrder(r, o)
  <2> DEFINE task == Task("cancel", o, orders[o].items)
  <2>1. task.order = o /\ task.kind = "cancel"
    BY Zenon DEF Task
  <2>2. \/ CancellableDirectly(orders[o].status) /\ Begin(r, o, task, "cancelDirectly")
        \/ CancellableWithRefund(orders[o].status) /\ Begin(r, o, task, "loadForCancel")
    BY <1>7, Zenon DEF CancelOrder
  <2> HIDE DEF task
  <2>3. CASE CancellableDirectly(orders[o].status) /\ Begin(r, o, task, "cancelDirectly")
    <3>1. ~(Bought(o) \/ GivenBack(o))
      BY <2>3, Zenon DEF CancellableDirectly, Bought, GivenBack
    <3> QED
      BY <1>5, <2>1, <2>3, <3>1, Zenon
  <2>4. CASE CancellableWithRefund(orders[o].status) /\ Begin(r, o, task, "loadForCancel")
    <3>1. ~GivenBack(o)
      BY <2>4, Zenon DEF CancellableWithRefund, GivenBack
    <3>2. pc'[r] = "loadForCancel" /\ job'[r] = task /\ ~tries'[r].expired
          /\ (Bought(o) \/ GivenBack(o)) => Phase(r, o)'
      BY <1>4, <2>1, <3>1, Zenon DEF Phase
    <3> QED
      BY <1>5, <2>1, <2>4, <3>2, Zenon
  <2> QED
    BY <2>2, <2>3, <2>4, Zenon
<1>8. ASSUME NEW target \in Targets, UpdateOrderStatus(r, o, target) PROVE AloneInv'
  <2> DEFINE task == [kind |-> "update", order |-> o, target |-> target]
  <2>1. task.order = o /\ task.kind = "update" /\ task.target = target
    BY Zenon
  <2>2. Begin(r, o, task, "setStatus") /\ CanTransition(orders[o].status, target)
    BY <1>8, Zenon DEF UpdateOrderStatus
  <2> HIDE DEF task
  <2>3. GivenBack(o) => target = "cancelled"
    <3>1. allowedTransitions["cancelled"] = {}
      BY Zenon DEF allowedTransitions
    <3> QED
      BY <2>2, <3>1, Zenon DEF GivenBack, CanTransition
  <2>4. pc'[r] = "setStatus" /\ job'[r] = task /\ ~tries'[r].expired
        /\ (Bought(o) \/ GivenBack(o)) => Phase(r, o)'
    BY <1>3, <1>4, <2>1, <2>2, <2>3, Zenon DEF Phase
  <2> QED
    BY <1>5, <2>1, <2>2, <2>4, Zenon
<1> QED
  BY <1>6, <1>7, <1>8, Zenon

-----------------------------------------------------------------------------
(* The checkout. *)

CheckoutLabels ==
    {"start", "reserve", "prepare", "pay", "confirm", "persist", "markCompensating"}

\* The only run on an order that is at a step of the checkout belongs to CreateOrder,
\* and has the lines as the customer gave them.
LEMMA AtCheckout ==
    ASSUME NEW r, NEW o, Phase(r, o), pc[r] \in CheckoutLabels
    PROVE  /\ ~tries[r].expired /\ job[r].kind = "create" /\ job[r].items = Items[o]
           /\ InCheckout(o, pc[r], mem[r], reservations, payments[o], orders[o].status)
  BY ZenonT(30) DEF Phase, InUndo, CheckoutLabels

\* It goes on to a step of the checkout with a copy that knows all there is.
LEMMA GoCheckout ==
    ASSUME Types, NEW r \in Runs, NEW o, job[r].kind = "create", job[r].items = Items[o],
           ~tries[r].expired, NEW s, NEW label, Remember(r, s, label),
           InCheckout(o, label, s, reservations', payments'[o], orders'[o].status)
    PROVE  Carries(r, o)
<1>1. Went(r, s, label)
  BY GotoStep, Zenon
<1>2. label # "idle"
  BY Zenon DEF InCheckout
<1> QED
  BY <1>1, <1>2, Zenon DEF Carries, Phase, Went

\* The loop of ProcessOrder goes on to such a step.
LEMMA ContinueCheckout ==
    ASSUME Types, NEW r \in Runs, NEW o, job[r].kind = "create", job[r].items = Items[o],
           ~tries[r].expired, NEW s, Continue(r, s), nextStep[s.status] # "idle",
           InCheckout(o, nextStep[s.status], s, reservations', payments'[o],
                      orders'[o].status)
    PROVE  Carries(r, o)
<1>1. Remember(r, s, nextStep[s.status])
  BY Zenon DEF Continue
<1> QED
  BY <1>1, GoCheckout, Zenon

\* A refused reservation or payment is asked for again, or the compensation begins.
LEMMA RefusedCheckout ==
    ASSUME IndInv, NEW r \in Runs, NEW o, Phase(r, o), pc[r] \in {"reserve", "pay"},
           StepFails(r), UNCHANGED <<orders, sagas, services>>
    PROVE  Carries(r, o)
<1>1. Types /\ pc[r] \in CheckoutLabels /\ pc[r] # "idle"
  BY RunTypes, Zenon DEF CheckoutLabels
<1>2. /\ ~tries[r].expired /\ job[r].kind = "create" /\ job[r].items = Items[o]
      /\ InCheckout(o, pc[r], mem[r], reservations, payments[o], orders[o].status)
  BY <1>1, AtCheckout, Zenon
<1>3. orders' = orders /\ payments' = payments /\ reservations' = reservations
  BY NoTables, Zenon
<1>4. mem[r].status \in {"reserving", "paying"}
  BY <1>1, AtWork, Zenon DEF Working, StatusFits
<1>5. CASE Retry(r)
  <2>1. /\ pc'[r] = pc[r] /\ job'[r] = job[r] /\ mem'[r] = mem[r] /\ ~tries'[r].expired
    BY <1>1, <1>5, RetryStep, Zenon
  <2> QED
    BY <1>1, <1>2, <1>3, <2>1, Zenon DEF Carries, Phase
<1>6. CASE handleStepFailure(r)
  <2>1. Remember(r, mem[r], "markCompensating")
    BY <1>1, <1>4, <1>6, SkipRemembers, Zenon DEF handleStepFailure
  <2>2. InCheckout(o, "markCompensating", mem[r], reservations', payments'[o],
                   orders'[o].status)
    BY <1>2, <1>3, <1>4, Zenon DEF InCheckout
  <2> QED
    BY <1>1, <1>2, <2>1, <2>2, GoCheckout, Zenon
<1> QED
  BY <1>5, <1>6, Zenon DEF StepFails, RetryOr

\* Only the status of the copy changes, or that of the order.
LEMMA CheckoutStatus ==
    ASSUME NEW o, NEW label, NEW s \in SagaRow, NEW rows, NEW payment, NEW old,
           InCheckout(o, label, s, rows, payment, old),
           NEW later \in CheckoutLabels, NEW status \in SagaStatus, NEW new,
           status \in {"pending", "reserving", "reserved", "paying"} => ~s.paymentID,
           status = "confirmed" => new = "paid",
           later = "persist" => status \in {"reserving", "reserved", "paid", "confirmed"},
           later # "markCompensating"
    PROVE  InCheckout(o, later, [s EXCEPT !.status = status], rows, payment, new)
<1> DEFINE t == [s EXCEPT !.status = status]
<1>1. t.status = status /\ t.items = s.items /\ t.paymentID = s.paymentID
  BY StatusWritten, Zenon
<1> HIDE DEF t
<1>2. Held(o, t, rows) /\ Known(o, t, rows)
  BY <1>1 DEF InCheckout, Held, Known
<1>3. InCheckout(o, later, t, rows, payment, new)
  BY <1>1, <1>2, ZenonT(30) DEF InCheckout, CheckoutLabels
<1> QED
  BY <1>3, Zenon DEF t

\* The order of a run at work, and what the run can count on.
LEMMA OnOrder ==
    ASSUME IndInv, NEW r \in Runs, pc[r] # "idle"
    PROVE  \E o \in Followed :
              /\ job[r].order = o /\ WorksOn(r, o) /\ o \in Orders /\ orders[o] # NoOrder
              /\ Working(r) /\ GoodFor(o, mem[r]) /\ mem[r] \in SagaRow
              /\ TablesOK /\ Types
<1>1. Types /\ TablesOK
  BY RunTypes, Zenon DEF IndInv
<1> QED
  BY <1>1, AtWork, Zenon DEF WorksOn

\* GetByOrderID finds no saga for a new order.
LEMMA LoadSagaAlone ==
    ASSUME IndInv, AloneInv, NEW r \in Runs, LoadSaga(r) PROVE AloneInv'
<1>1. pc[r] = "load" /\ pc[r] # "idle"
  BY Zenon DEF LoadSaga
<1>2. PICK o \in Followed : job[r].order = o /\ WorksOn(r, o) /\ Types
  BY <1>1, OnOrder, Zenon
<1>3. UNCHANGED <<orders, sagas, services>> /\ (NoFault \/ Fault(o))
  BY <1>2, Zenon DEF LoadSaga, Call
<1>4. Writes(o) /\ SameOrder(o)
  BY <1>3, NoTables, Zenon DEF Writes
<1>5. Steps(r)
  <2>1. Skip(r, "insert") \/ Continue(r, sagas[o]) \/ Return(r)
    BY <1>2, Zenon DEF LoadSaga, Call
  <2> QED
    BY <1>2, <2>1, ReturnStep, OtherSteps, Zenon
<1>6. ASSUME Phase(r, o), o \notin disturbed' PROVE Carries(r, o)
  <2>1. /\ ~tries[r].expired /\ job[r].kind = "create" /\ job[r].items = Items[o]
        /\ Untouched(o)
    BY <1>1, <1>6, Zenon DEF Phase, InCheckout, InUndo
  <2>2. Skip(r, "insert")
    BY <1>2, <1>6, <2>1, Zenon DEF LoadSaga, Call, Untouched, Fault
  <2>3. Went(r, mem[r], "insert")
    BY <1>2, <2>2, SkipRemembers, GotoStep, Zenon
  <2>4. Untouched(o)'
    BY <1>4, <2>1, Zenon DEF SameOrder, Untouched
  <2> QED
    BY <2>1, <2>3, <2>4, Zenon DEF Carries, Phase, Went
<1> QED
  BY <1>2, <1>3, <1>4, <1>5, <1>6, StepAlone, Zenon

\* The new saga has nothing to know yet.
LEMMA InsertSagaAlone ==
    ASSUME IndInv, AloneInv, NEW r \in Runs, InsertSaga(r) PROVE AloneInv'
<1>1. pc[r] = "insert" /\ pc[r] # "idle"
  BY Zenon DEF InsertSaga
<1>2. PICK o \in Followed : job[r].order = o /\ WorksOn(r, o) /\ Types
  BY <1>1, OnOrder, Zenon
<1>3. /\ sagas' = sagas \/ sagas' = [sagas EXCEPT ![o] = NewSaga]
      /\ UNCHANGED <<orders, services>> /\ (NoFault \/ Fault(o))
      /\ Continue(r, NewSaga) \/ Return(r)
  BY <1>2, Zenon DEF InsertSaga, Call
<1>4. orders' = orders /\ payments' = payments /\ reservations' = reservations
  BY <1>3, Zenon DEF services
<1>5. Writes(o)
  BY <1>3, <1>4, Zenon DEF Writes
<1>6. Steps(r)
  BY <1>2, <1>3, ReturnStep, OtherSteps, Zenon
<1>7. ASSUME Phase(r, o), o \notin disturbed' PROVE Carries(r, o)
  <2>1. /\ ~tries[r].expired /\ job[r].kind = "create" /\ job[r].items = Items[o]
        /\ Untouched(o)
    BY <1>1, <1>7, Zenon DEF Phase, InCheckout, InUndo
  <2>2. Continue(r, NewSaga)
    BY <1>2, <1>7, <2>1, Zenon DEF InsertSaga, Call, Untouched, Fault
  <2>3. /\ NewSaga.status = "pending" /\ NewSaga.paymentID = FALSE
        /\ DOMAIN NewSaga.items = {}
    BY DEF NewSaga
  <2>4. nextStep[NewSaga.status] = "start"
    BY <2>3, NextSteps, Zenon
  <2>5. InCheckout(o, "start", NewSaga, reservations', payments'[o], orders'[o].status)
    BY <1>4, <2>1, <2>3, Zenon DEF InCheckout, Untouched, Held, Known
  <2> QED
    BY <1>2, <2>1, <2>2, <2>4, <2>5, ContinueCheckout, Zenon
<1> QED
  BY <1>2, <1>3, <1>5, <1>6, <1>7, StepAlone, Zenon

\* StartStep and ConfirmOrderStep cannot fail unless something does.
LEMMA OrderStepAlone ==
    ASSUME IndInv, AloneInv, NEW r \in Runs, StartStep(r) \/ ConfirmOrderStep(r)
    PROVE  AloneInv'
<1>1. PICK written \in OrderStatuses, status \in SagaStatus :
         /\ UpdateStatus(r, job[r].order, written, Done(r, [mem[r] EXCEPT !.status = status]),
                         StepFails(r))
         /\ \/ pc[r] = "start" /\ status = "reserving"
            \/ pc[r] = "confirm" /\ status = "confirmed" /\ written = "paid"
  BY ZenonT(30) DEF StartStep, ConfirmOrderStep, OrderStatuses, SagaStatus
<1> DEFINE s == [mem[r] EXCEPT !.status = status]
<1>2. PICK o \in Followed : /\ job[r].order = o /\ WorksOn(r, o) /\ Types /\ Working(r)
                            /\ o \in Orders /\ orders[o] # NoOrder /\ mem[r] \in SagaRow
  BY <1>1, OnOrder, Zenon
<1>3. /\ \/ orders' = [orders EXCEPT ![o].status = written]
         \/ orders' = orders
      /\ UNCHANGED <<sagas, services>> /\ (NoFault \/ Fault(o))
      /\ Done(r, s) \/ StepFails(r)
  BY <1>1, <1>2, Zenon DEF UpdateStatus, Call
<1>4. sagas' = sagas /\ payments' = payments /\ reservations' = reservations
  BY <1>3, Zenon DEF services
<1>5. Writes(o)
  BY <1>3, <1>4, Zenon DEF Writes
<1>6. Steps(r)
  BY <1>2, <1>3, GotoStep, OtherSteps, Zenon DEF Done
<1>7. ASSUME Phase(r, o), o \notin disturbed' PROVE Carries(r, o)
  <2>1. pc[r] \in CheckoutLabels
    BY <1>1, Zenon DEF CheckoutLabels
  <2>2. /\ ~tries[r].expired /\ job[r].kind = "create" /\ job[r].items = Items[o]
        /\ InCheckout(o, pc[r], mem[r], reservations, payments[o], orders[o].status)
    BY <1>7, <2>1, AtCheckout, Zenon
  <2>3. Done(r, s) /\ orders' = [orders EXCEPT ![o].status = written]
    BY <1>1, <1>2, <1>7, <2>2, Zenon DEF UpdateStatus, Call, Fault
  <2>4. orders'[o].status = written
    <3>1. orders \in [Orders -> OrderRow]
      BY Zenon DEF IndInv, TypeOK
    <3> QED
      BY <1>2, <2>3, <3>1, Zenon DEF OrderRow
  <2>5. pc[r] = "start" => ~mem[r].paymentID
    BY <1>2, <2>2, Zenon DEF Working, StatusFits, InCheckout
  <2>6. InCheckout(o, "persist", s, reservations', payments'[o], orders'[o].status)
    BY <1>1, <1>2, <1>4, <2>2, <2>4, <2>5, CheckoutStatus, ZenonT(30) DEF CheckoutLabels
  <2> HIDE DEF s
  <2> QED
    BY <1>2, <2>2, <2>3, <2>6, GoCheckout, Zenon DEF Done
<1> QED
  BY <1>2, <1>3, <1>5, <1>6, <1>7, StepAlone, Zenon

\* The reservation of p is live afterwards, and no other row of the order is touched.
NowLive(o, p, rows, later) ==
    /\ later[<<o, p>>].status = "reserved"
    /\ \A other \in Products \ {p} : later[<<o, other>>] = rows[<<o, other>>]

\* Copy t has one more line than s.
OneMore(t, s, line) ==
    t.items = Append(s.items, line) /\ t.status = s.status /\ t.paymentID = s.paymentID

\* One more line on record, and nothing else is live.
LEMMA CheckoutLine ==
    ASSUME NEW o, NEW s \in SagaRow, NEW rows, NEW later, NEW payment, NEW status, NEW line,
           NEW t, OneMore(t, s, line),
           InCheckout(o, "reserve", s, rows, payment, status), s.status = "reserving",
           Items[o] \in Seq(Line), Len(s.items) < Len(Items[o]),
           line = Items[o][Len(s.items) + 1],
           NowLive(o, line.product, rows, later)
    PROVE  InCheckout(o, "persist", t, later, payment, status)
<1>1. /\ s.items \in Seq(Line) /\ Len(s.items) \in Nat
      /\ DOMAIN s.items = 1 .. Len(s.items)
      /\ \A i \in DOMAIN s.items : s.items[i].product \in Products
  BY SagaFields, Zenon
<1>2. line \in Line
  BY <1>1
<1>4. /\ DOMAIN t.items = 1 .. Len(s.items) + 1
      /\ \A i \in DOMAIN s.items : t.items[i] = s.items[i]
      /\ t.items[Len(s.items) + 1] = line
  BY <1>1, <1>2 DEF OneMore
<1>5. /\ Len(s.items) + 1 \in DOMAIN t.items
      /\ \A i \in DOMAIN s.items : i \in DOMAIN t.items
      /\ \A i \in DOMAIN t.items : i \in DOMAIN s.items \/ i = Len(s.items) + 1
  BY <1>1, <1>4
<1>6. Held(o, s, rows) /\ Known(o, s, rows)
  BY Zenon DEF InCheckout
<1>7. Held(o, t, later)
  <2>1. ASSUME NEW i \in DOMAIN s.items
        PROVE  /\ s.items[i] = Items[o][i]
               /\ later[<<o, s.items[i].product>>].status = "reserved"
    BY <1>1, <1>6, Zenon DEF Held, NowLive
  <2> QED
    BY <1>4, <1>5, <2>1, Zenon DEF Held, NowLive
<1>8. Known(o, t, later)
  <2>1. ASSUME NEW p \in Products, later[<<o, p>>].status = "reserved"
        PROVE  \E i \in DOMAIN t.items : t.items[i].product = p
    <3>1. CASE p = line.product
      BY <1>4, <1>5, <3>1, Zenon
    <3>2. CASE p # line.product
      <4>1. PICK i \in DOMAIN s.items : s.items[i].product = p
        BY <1>6, <2>1, <3>2, Zenon DEF Known, NowLive
      <4> QED
        BY <1>4, <1>5, <4>1, Zenon
    <3> QED
      BY <3>1, <3>2, Zenon
  <2> QED
    BY <2>1, Zenon DEF Known
<1> QED
  BY <1>7, <1>8, Zenon DEF InCheckout, OneMore

\* What Reserve leaves in the rows of the order.
LEMMA ReserveRows ==
    ASSUME TablesOK, NEW o \in Orders, NEW line \in Line, Reserve(o, line)
    PROVE  /\ NowLive(o, line.product, reservations, reservations')
           /\ \/ reservations' = reservations
              \/ \E p \in Products : \E row :
                    reservations' = [reservations EXCEPT ![<<o, p>>] = row]
<1>1. line.product \in Products /\ reservations \in [Keys -> Reservation]
  BY Zenon DEF Line, TablesOK, BookTypeOK
<1>2. CASE ReserveIsRetry(o, line) /\ UNCHANGED bookVars
  <2>1. reservations' = reservations
    BY <1>2, Zenon DEF bookVars
  <2>2. reservations[<<o, line.product>>].status = "reserved"
    BY <1>2 DEF ReserveIsRetry
  <2> QED
    BY <2>1, <2>2, Zenon DEF NowLive
<1>3. CASE BookReserve(o, line.product, line.quantity)
  <2>1. reservations' = [reservations EXCEPT ![<<o, line.product>>] =
                           [quantity |-> line.quantity, status |-> "reserved"]]
    BY <1>3, Zenon DEF BookReserve
  <2> QED
    BY <1>1, <2>1, Zenon DEF Keys, NowLive
<1> QED
  BY <1>2, <1>3, Zenon DEF Reserve

\* The next line is reserved and recorded, in one phase; a refusal begins the
\* compensation with what is on record.
LEMMA ReserveInventoryStepAlone ==
    ASSUME IndInv, AloneInv, NEW r \in Runs, ReserveInventoryStep(r) PROVE AloneInv'
<1>1. pc[r] = "reserve" /\ pc[r] # "idle" /\ pc[r] \in CheckoutLabels
  BY Zenon DEF ReserveInventoryStep, CheckoutLabels
<1>2. PICK o \in Followed : /\ job[r].order = o /\ WorksOn(r, o) /\ Types /\ Working(r)
                            /\ o \in Orders /\ GoodFor(o, mem[r]) /\ mem[r] \in SagaRow
                            /\ TablesOK
  BY <1>1, OnOrder, Zenon
<1>3. /\ mem[r].status = "reserving" /\ Len(mem[r].items) \in Nat
      /\ job[r].items \in Seq(Line)
  <2>1. mem[r].status = "reserving" /\ job[r].kind # "update"
    BY <1>1, <1>2, Zenon DEF Working, TaskFits, StatusFits
  <2> QED
    BY <1>2, <2>1, SagaFields, Zenon DEF Working, SameLines
<1>4. orders' = orders /\ sagas' = sagas /\ payments' = payments /\ refunds' = refunds
  BY Zenon DEF ReserveInventoryStep
<1>5. CASE /\ AllRecorded(r) /\ Done(r, [mem[r] EXCEPT !.status = "reserved"])
           /\ NoFault /\ UNCHANGED bookVars
  <2> DEFINE s == [mem[r] EXCEPT !.status = "reserved"]
  <2>1. reservations' = reservations /\ Remember(r, s, "persist")
    BY <1>5, Zenon DEF bookVars, Done
  <2>2. Writes(o)
    BY <1>4, <2>1, Zenon DEF Writes
  <2>3. ASSUME Phase(r, o) PROVE Carries(r, o)
    <3>1. /\ ~tries[r].expired /\ job[r].kind = "create" /\ job[r].items = Items[o]
          /\ InCheckout(o, pc[r], mem[r], reservations, payments[o], orders[o].status)
      BY <1>1, <2>3, AtCheckout, Zenon
    <3>2. ~mem[r].paymentID /\ "persist" \in CheckoutLabels /\ "reserved" \in SagaStatus
      BY <1>3, <3>1, Zenon DEF InCheckout, CheckoutLabels, SagaStatus
    <3>3. InCheckout(o, "persist", s, reservations, payments[o], orders'[o].status)
      BY <1>2, <3>1, <3>2, CheckoutStatus, ZenonT(30)
    <3> HIDE DEF s
    <3> QED
      BY <1>2, <1>4, <2>1, <3>1, <3>3, GoCheckout, Zenon
  <2> HIDE DEF s
  <2>4. Steps(r)
    BY <1>2, <2>1, GotoStep, Zenon
  <2> QED
    BY <1>2, <1>5, <2>2, <2>3, <2>4, StepAlone, Zenon
<1>6. CASE ~AllRecorded(r)
  <2> DEFINE line == job[r].items[Len(mem[r].items) + 1]
             s    == Recorded(r, line)
  <2>1. line \in Line /\ Len(mem[r].items) < Len(job[r].items)
    BY <1>3, <1>6 DEF AllRecorded
  <2>2. Call(r, job[r].order, ReserveAccepted(job[r].order, line),
             Reserve(job[r].order, line), UNCHANGED bookVars, Done(r, s), StepFails(r))
    BY <1>6, Zenon DEF ReserveInventoryStep
  <2>0. line = job[r].items[Len(mem[r].items) + 1]
    OBVIOUS
  <2> HIDE DEF line, s
  <2>3. /\ Reserve(o, line) \/ UNCHANGED bookVars
        /\ NoFault \/ Fault(o)
        /\ Done(r, s) \/ StepFails(r)
    BY <1>2, <2>2, Zenon DEF Call
  <2>4. Writes(o)
    <3>1. CASE Reserve(o, line)
      BY <1>2, <1>4, <2>1, <3>1, ReserveRows, Zenon DEF Writes
    <3>2. CASE UNCHANGED bookVars
      BY <1>4, <3>2, Zenon DEF Writes, bookVars
    <3> QED
      BY <2>3, <3>1, <3>2, Zenon
  <2>5. Steps(r)
    BY <1>2, <2>3, GotoStep, OtherSteps, Zenon DEF Done
  <2>6. ASSUME Phase(r, o), o \notin disturbed' PROVE Carries(r, o)
    <3>1. /\ ~tries[r].expired /\ job[r].kind = "create" /\ job[r].items = Items[o]
          /\ InCheckout(o, pc[r], mem[r], reservations, payments[o], orders[o].status)
      BY <1>1, <2>6, AtCheckout, Zenon
    <3>2. \/ Reserve(o, line) /\ Done(r, s)
          \/ UNCHANGED bookVars /\ StepFails(r)
      BY <1>2, <2>2, <2>6, <3>1, Zenon DEF Call, Fault
    <3>3. CASE Reserve(o, line) /\ Done(r, s)
      <4>1. NowLive(o, line.product, reservations, reservations')
        BY <1>2, <2>1, <3>3, ReserveRows, Zenon
      <4>2. line = Items[o][Len(mem[r].items) + 1] /\ Len(mem[r].items) < Len(Items[o])
            /\ Items[o] \in Seq(Line)
        BY <1>3, <2>0, <2>1, <3>1, Zenon
      <4>3. InCheckout(o, "reserve", mem[r], reservations, payments[o], orders[o].status)
        BY <1>1, <3>1, Zenon
      <4>4. OneMore(s, mem[r], line)
        BY <1>2, Zenon DEF s, Recorded, SagaRow, OneMore
      <4>5. InCheckout(o, "persist", s, reservations', payments[o], orders[o].status)
        BY <1>2, <1>3, <4>1, <4>2, <4>3, <4>4, CheckoutLine, ZenonT(30)
      <4> QED
        BY <1>2, <1>4, <3>1, <3>3, <4>5, GoCheckout, Zenon DEF Done
    <3>4. CASE UNCHANGED bookVars /\ StepFails(r)
      <4>1. UNCHANGED <<orders, sagas, services>>
        BY <1>4, <3>4, Zenon DEF services, bookVars
      <4> QED
        BY <1>1, <2>6, <3>4, <4>1, RefusedCheckout, Zenon
    <3> QED
      BY <3>2, <3>3, <3>4, Zenon
  <2> QED
    BY <1>2, <2>3, <2>4, <2>5, <2>6, StepAlone, Zenon
<1> QED
  BY <1>5, <1>6, Zenon DEF ReserveInventoryStep

\* A save on behalf of o writes its row, or fails.
LEMMA SaveWrites ==
    ASSUME NEW r, NEW o, NEW s, sagas' = sagas \/ sagas' = [sagas EXCEPT ![o] = s],
           UNCHANGED <<orders, services>>
    PROVE  /\ Writes(o) /\ orders' = orders /\ payments' = payments
           /\ reservations' = reservations
<1>1. orders' = orders /\ payments' = payments /\ reservations' = reservations
  BY Zenon DEF services
<1> QED
  BY <1>1, Zenon DEF Writes

\* Prepare changes the status only.
LEMMA PrepareStepAlone ==
    ASSUME IndInv, AloneInv, NEW r \in Runs, PrepareStep(r) PROVE AloneInv'
<1> DEFINE status == prepared[mem[r].status]
           s      == [mem[r] EXCEPT !.status = status]
<1>1. pc[r] = "prepare" /\ pc[r] # "idle" /\ pc[r] \in CheckoutLabels
  BY Zenon DEF PrepareStep, CheckoutLabels
<1>2. PICK o \in Followed : /\ job[r].order = o /\ WorksOn(r, o) /\ Types /\ Working(r)
                            /\ o \in Orders /\ mem[r] \in SagaRow
  BY <1>1, OnOrder, Zenon
<1>3. \/ mem[r].status = "reserved" /\ status = "paying"
      \/ mem[r].status = "paid" /\ status = "confirming"
  <2>1. mem[r].status \in {"reserved", "paid"}
    BY <1>1, <1>2, Zenon DEF Working, StatusFits
  <2> QED
    BY <2>1, NextSteps, Zenon
<1>4. Save(r, job[r].order, s, Continue(r, s), Return(r))
  BY Zenon DEF PrepareStep
<1> HIDE DEF status
<1>5. /\ s.status = status /\ status \in SagaStatus
      /\ \/ status = "paying" /\ nextStep[s.status] = "pay"
         \/ status = "confirming" /\ nextStep[s.status] = "confirm"
  <2>1. status \in SagaStatus
    BY <1>3, Zenon DEF SagaStatus
  <2>2. s.status = status
    BY <1>2, <2>1, StatusWritten, Zenon
  <2> QED
    BY <1>3, <2>1, <2>2, NextSteps, Zenon
<1>6. ASSUME Phase(r, o) PROVE InCheckout(o, nextStep[s.status], s, reservations,
                                          payments[o], orders[o].status)
  <2>1. InCheckout(o, pc[r], mem[r], reservations, payments[o], orders[o].status)
    BY <1>1, <1>6, AtCheckout, Zenon
  <2>2. status = "paying" => ~mem[r].paymentID
    BY <1>3, <2>1, Zenon DEF InCheckout
  <2>3. /\ nextStep[s.status] \in CheckoutLabels
        /\ nextStep[s.status] \notin {"persist", "markCompensating"}
    BY <1>5, Zenon DEF CheckoutLabels
  <2> QED
    BY <1>2, <1>5, <2>1, <2>2, <2>3, CheckoutStatus, ZenonT(30)
<1> HIDE DEF s
<1>7. /\ sagas' = sagas \/ sagas' = [sagas EXCEPT ![o] = s]
      /\ UNCHANGED <<orders, services>> /\ (NoFault \/ Fault(o))
      /\ Continue(r, s) \/ Return(r)
  BY <1>2, <1>4, Zenon DEF Save, Call
<1>8. /\ Writes(o) /\ orders' = orders /\ payments' = payments
      /\ reservations' = reservations
  BY <1>7, SaveWrites, Zenon
<1>9. Steps(r)
  BY <1>2, <1>7, ReturnStep, OtherSteps, Zenon
<1>10. ASSUME Phase(r, o), o \notin disturbed' PROVE Carries(r, o)
  <2>1. ~tries[r].expired /\ job[r].kind = "create" /\ job[r].items = Items[o]
    BY <1>1, <1>10, AtCheckout, Zenon
  <2>2. Continue(r, s)
    BY <1>2, <1>4, <1>10, <2>1, Zenon DEF Save, Call, Fault
  <2>3. nextStep[s.status] # "idle"
    BY <1>5, Zenon
  <2> QED
    BY <1>2, <1>6, <1>8, <1>10, <2>1, <2>2, <2>3, ContinueCheckout, Zenon
<1> QED
  BY <1>2, <1>7, <1>8, <1>9, <1>10, StepAlone, Zenon

\* persistSaga: the checkout goes on, or the order is bought.
LEMMA PersistSagaAlone ==
    ASSUME IndInv, AloneInv, NEW r \in Runs, PersistSaga(r) PROVE AloneInv'
<1>1. pc[r] = "persist" /\ pc[r] # "idle" /\ pc[r] \in CheckoutLabels
  BY Zenon DEF PersistSaga, CheckoutLabels
<1>2. PICK o \in Followed : /\ job[r].order = o /\ WorksOn(r, o) /\ Types /\ o \in Orders
                            /\ GoodFor(o, mem[r]) /\ TablesOK
  BY <1>1, OnOrder, Zenon
<1>3. Save(r, job[r].order, mem[r], Continue(r, mem[r]), Return(r))
  BY Zenon DEF PersistSaga
<1>4. /\ sagas' = sagas \/ sagas' = [sagas EXCEPT ![o] = mem[r]]
      /\ UNCHANGED <<orders, services>> /\ (NoFault \/ Fault(o))
      /\ Continue(r, mem[r]) \/ Return(r)
  BY <1>2, <1>3, Zenon DEF Save, Call
<1>5. /\ Writes(o) /\ orders' = orders /\ payments' = payments
      /\ reservations' = reservations
  BY <1>4, SaveWrites, Zenon
<1>6. Steps(r)
  BY <1>2, <1>4, ReturnStep, OtherSteps, Zenon
<1>7. ASSUME Phase(r, o), o \notin disturbed' PROVE Carries(r, o)
  <2>1. /\ ~tries[r].expired /\ job[r].kind = "create" /\ job[r].items = Items[o]
        /\ InCheckout(o, pc[r], mem[r], reservations, payments[o], orders[o].status)
    BY <1>1, <1>7, AtCheckout, Zenon
  <2>2. Continue(r, mem[r]) /\ sagas' = [sagas EXCEPT ![o] = mem[r]]
    BY <1>2, <1>3, <1>7, <2>1, Zenon DEF Save, Call, Fault
  <2>3. mem[r].status \in {"reserving", "reserved", "paid", "confirmed"}
    BY <1>1, <2>1, Zenon DEF InCheckout
  <2>4. CASE mem[r].status \in {"reserving", "reserved", "paid"}
    <3>1. nextStep[mem[r].status] \in {"reserve", "prepare"}
      BY <2>4, NextSteps, Zenon
    <3>2. InCheckout(o, nextStep[mem[r].status], mem[r], reservations, payments[o],
                     orders[o].status)
      BY <2>1, <3>1, Zenon DEF InCheckout
    <3>3. nextStep[mem[r].status] # "idle"
      BY <3>1, Zenon
    <3> QED
      BY <1>2, <1>5, <2>1, <2>2, <3>2, <3>3, ContinueCheckout, Zenon
  <2>5. CASE mem[r].status = "confirmed"
    <3>1. Return(r)
      BY <2>2, <2>5, NextSteps, Zenon DEF Continue
    <3>2. pc'[r] = "idle"
      BY <1>2, <3>1, ReturnStep, Zenon
    <3>3. sagas'[o] = mem[r]
      BY <1>2, <2>2, Zenon DEF TablesOK
    <3>4. /\ Held(o, mem[r], reservations) /\ Known(o, mem[r], reservations)
          /\ payments[o].status \in {"success", "failed"} /\ orders[o].status = "paid"
      BY <1>2, <2>1, <2>5, Zenon DEF InCheckout, GoodFor, GoodCopy
    <3>5. Bought(o)'
      BY <1>5, <2>5, <3>3, <3>4, Zenon DEF Bought
    <3> QED
      BY <3>2, <3>5, Zenon DEF Carries
  <2> QED
    BY <2>3, <2>4, <2>5, Zenon
<1> QED
  BY <1>2, <1>4, <1>5, <1>6, <1>7, StepAlone, Zenon

\* payment-service decides on the charge of an order it has not seen.
LEMMA ChargeRow ==
    ASSUME TablesOK, NEW o \in Orders, ProcessPayment(o)
    PROVE  /\ payments' = payments \/ \E row : payments' = [payments EXCEPT ![o] = row]
           /\ payments[o] = Pay!Unpaid => payments'[o].status \in {"success", "failed"}
<1>1. CASE payments[o] # Pay!Unpaid /\ UNCHANGED <<payments, refunds>>
  BY <1>1, Zenon
<1>2. CASE Pay!PayCharge(o, ServiceSubject, Total)
  <2>1. PICK status \in {"success", "failed"} :
           payments' = [payments EXCEPT ![o] = [status |-> status, user |-> ServiceSubject,
                                                amount |-> Total]]
    BY <1>2, Zenon DEF Pay!PayCharge, Pay!Settled
  <2>2. payments'[o].status = status
    BY <2>1, Zenon DEF TablesOK
  <2> QED
    BY <2>1, <2>2, Zenon
<1> QED
  BY <1>1, <1>2, Zenon DEF ProcessPayment

\* Copy t knows of a payment that s did not know of.
NowPaid(t, s) == t.status = "paid" /\ t.items = s.items /\ t.paymentID = TRUE

\* The copy learns of the payment.
LEMMA CheckoutPaid ==
    ASSUME NEW o, NEW label, NEW s, NEW rows, NEW payment, NEW later, NEW status, NEW t,
           NowPaid(t, s), InCheckout(o, label, s, rows, payment, status),
           later.status \in {"success", "failed"}
    PROVE  InCheckout(o, "persist", t, rows, later, status)
<1>1. Held(o, t, rows) /\ Known(o, t, rows)
  BY DEF NowPaid, InCheckout, Held, Known
<1> QED
  BY <1>1, Zenon DEF NowPaid, InCheckout

\* The payment of an undisturbed order is asked for once, or refused.
LEMMA ProcessPaymentStepAlone ==
    ASSUME IndInv, AloneInv, NEW r \in Runs, ProcessPaymentStep(r) PROVE AloneInv'
<1> DEFINE s == [mem[r] EXCEPT !.status = "paid", !.paymentID = TRUE]
<1>1. pc[r] = "pay" /\ pc[r] # "idle" /\ pc[r] \in CheckoutLabels
  BY Zenon DEF ProcessPaymentStep, CheckoutLabels
<1>2. PICK o \in Followed : /\ job[r].order = o /\ WorksOn(r, o) /\ Types /\ o \in Orders
                            /\ mem[r] \in SagaRow /\ TablesOK /\ Working(r)
  BY <1>1, OnOrder, Zenon
<1>3. Call(r, o, ServiceSubject \in Users, ProcessPayment(o), UNCHANGED <<payments, refunds>>,
           Done(r, s), StepFails(r))
  BY <1>2, Zenon DEF ProcessPaymentStep
<1>4. NowPaid(s, mem[r])
  BY <1>2, Zenon DEF NowPaid, SagaRow
<1> HIDE DEF s
<1>5. orders' = orders /\ sagas' = sagas /\ stock' = stock /\ reservations' = reservations
  BY Zenon DEF ProcessPaymentStep, bookVars
<1>6. /\ ProcessPayment(o) \/ UNCHANGED <<payments, refunds>>
      /\ NoFault \/ Fault(o)
      /\ Done(r, s) \/ StepFails(r)
  BY <1>3, Zenon DEF Call
<1>7. Writes(o)
  <2>1. payments' = payments \/ \E row : payments' = [payments EXCEPT ![o] = row]
    BY <1>2, <1>6, ChargeRow, Zenon
  <2> QED
    BY <1>5, <2>1, Zenon DEF Writes
<1>8. Steps(r)
  BY <1>2, <1>6, GotoStep, OtherSteps, Zenon DEF Done
<1>9. ASSUME Phase(r, o), o \notin disturbed' PROVE Carries(r, o)
  <2>1. /\ ~tries[r].expired /\ job[r].kind = "create" /\ job[r].items = Items[o]
        /\ InCheckout(o, pc[r], mem[r], reservations, payments[o], orders[o].status)
    BY <1>1, <1>9, AtCheckout, Zenon
  <2>2. \/ ProcessPayment(o) /\ Done(r, s)
        \/ UNCHANGED <<payments, refunds>> /\ StepFails(r)
    BY <1>3, <1>9, <2>1, Zenon DEF Call, Fault
  <2>3. CASE ProcessPayment(o) /\ Done(r, s)
    <3>1. mem[r].status = "paying"
      BY <1>1, <1>2, Zenon DEF Working, StatusFits
    <3>2. payments[o] = Pay!Unpaid
      BY <2>1, <3>1, Zenon DEF InCheckout
    <3>3. payments'[o].status \in {"success", "failed"}
      BY <1>2, <2>3, <3>2, ChargeRow, Zenon
    <3>4. InCheckout(o, "persist", s, reservations, payments'[o], orders[o].status)
      BY <1>4, <2>1, <3>3, CheckoutPaid, ZenonT(30)
    <3> QED
      BY <1>2, <1>5, <2>1, <2>3, <3>4, GoCheckout, Zenon DEF Done
  <2>4. CASE UNCHANGED <<payments, refunds>> /\ StepFails(r)
    <3>1. UNCHANGED <<orders, sagas, services>>
      BY <1>5, <2>4, Zenon DEF services
    <3> QED
      BY <1>1, <1>9, <2>4, <3>1, RefusedCheckout, Zenon
  <2> QED
    BY <2>2, <2>3, <2>4, Zenon
<1> QED
  BY <1>2, <1>6, <1>7, <1>8, <1>9, StepAlone, Zenon

=============================================================================
