----------------------------- MODULE SagaSteps -------------------------------
(***************************************************************************)
(* The inductive invariant behind the safety properties of Saga.tla, for   *)
(* any orders, products, runs, order lines and limits, and what the tables *)
(* and a run go through in a step.                                         *)
(***************************************************************************)
EXTENDS Saga, TLAPS

-----------------------------------------------------------------------------
(* The inductive invariant. *)

\* A copy s of the saga of o, against the reservations, the payment and the lines of
\* the order as they are stored.
GoodCopy(o, s, rows, payment, lines) ==
    /\ s \in SagaRow
    /\ \A i \in DOMAIN s.items :
          /\ rows[<<o, s.items[i].product>>].status # "none"
          /\ rows[<<o, s.items[i].product>>].quantity = s.items[i].quantity
    /\ s.status \in {"reserved", "paying", "paid", "confirming", "confirmed"}
          => Len(s.items) = Len(Items[o])
    /\ s.status \in {"paid", "confirming", "confirmed"} => s.paymentID
    /\ s.paymentID => payment # Pay!Unpaid
    /\ Len(s.items) <= Len(Items[o])
    /\ lines = Items[o] => \A i \in DOMAIN s.items : s.items[i] = Items[o][i]

GoodFor(o, s) == GoodCopy(o, s, reservations, payments[o], orders[o].items)

UndoLabels == {"refund", "release", "cancelOrder", "cancelSaga"}

\* Which task gets to a label, and with which status in its copy.
TaskFits(label, kind) ==
    /\ label \in Label \ {"idle"}
    /\ label = "setStatus" <=> kind = "update"
    /\ label \in {"cancelDirectly", "loadForCancel"} => kind = "cancel"
    /\ kind = "cancel" => label \in {"cancelDirectly", "loadForCancel"} \cup UndoLabels

StatusFits(label, status) ==
    /\ label \in {"load", "insert", "cancelDirectly", "loadForCancel", "setStatus"}
          <=> status = "none"
    /\ label \in {"start", "markFailed"} => status = "pending"
    /\ label = "reserve" => status = "reserving"
    /\ label = "prepare" => status \in {"reserved", "paid"}
    /\ label = "pay" => status = "paying"
    /\ label = "confirm" => status = "confirming"
    /\ label = "markCompensating" => status \in {"reserving", "paying", "confirming"}

\* The lines a run works with: as many as the order has, in the same order if the
\* table gives them so.
SameLines(o, items, lines) ==
    /\ items \in Seq(Line) /\ Len(items) = Len(Items[o])
    /\ lines = Items[o] => items = Items[o]

\* How far the compensation of CancelOrder has come.
UndoneSoFar(r) ==
    LET o == job[r].order
        Released(i) == reservations[<<o, mem[r].items[i].product>>].status = "released"
    IN  /\ pc[r] \in UndoLabels \ {"refund"} /\ mem[r].paymentID =>
              payments[o].status = "refunded"
        /\ pc[r] = "release" /\ ~tries[r].bad =>
              \A i \in DOMAIN mem[r].items : i < tries[r].pos => Released(i)
        /\ pc[r] \in {"cancelOrder", "cancelSaga"} =>
              \A i \in DOMAIN mem[r].items : Released(i)

Working(r) ==
    LET o == job[r].order IN
    /\ job[r].kind \in {"create", "recover", "cancel", "update"}
    /\ o \in Followed /\ orders[o] # NoOrder
    /\ GoodFor(o, mem[r])
    /\ TaskFits(pc[r], job[r].kind)
    /\ StatusFits(pc[r], mem[r].status)
    /\ job[r].kind # "update" => SameLines(o, job[r].items, orders[o].items)
    /\ Cancelling(r) => UndoneSoFar(r)

RunOK(r) ==
    /\ pc[r] = "idle" => mem[r] = NoSaga /\ tries[r] = Fresh
    /\ pc[r] # "idle" => Working(r)

OrderOK(o) ==
    /\ orders[o] # NoOrder => Len(orders[o].items) = Len(Items[o])
    /\ GoodFor(o, sagas[o])
    /\ sagas[o] # NoSaga => sagas[o].status # "none" /\ orders[o] # NoOrder
    /\ payments[o] # Pay!Unpaid =>
          /\ orders[o] # NoOrder
          /\ orders[o].items = Items[o] => EveryLineWasReserved(o)
    /\ \A i \in DOMAIN refunds[o] :
          /\ \E kind \in {"create", "recover", "cancel"} : refunds[o][i].key = <<kind, o>>
          /\ payments[o].status = "refunded"

Payment == {Pay!Unpaid} \cup [status : {"success", "failed", "refunded"}, user : Users,
                             amount : {Total}]

TablesOK ==
    /\ BookTypeOK
    /\ payments \in [Orders -> Payment]
    /\ refunds \in [Orders -> Seq([amount : {Total}, key : RefundKeys])]
    /\ orders \in [Orders -> OrderRow]
    /\ sagas \in [Orders -> SagaRow]
    /\ \A o \in Orders : OrderOK(o)

IndInv ==
    /\ TypeOK
    /\ TablesOK
    /\ \A r \in Runs : RunOK(r)

-----------------------------------------------------------------------------
(* Copies of a saga. *)

\* The fields of a row, and what an update of one leaves alone.
LEMMA SagaFields ==
    ASSUME NEW s \in SagaRow
    PROVE  /\ s.status \in SagaStatus \cup {"none"}
           /\ s.items \in Seq(Line) /\ Len(s.items) \in Nat
           /\ DOMAIN s.items = 1 .. Len(s.items)
           /\ \A i \in DOMAIN s.items :
                 s.items[i].product \in Products /\ s.items[i].quantity \in Quantities
           /\ s.paymentID \in BOOLEAN
<1>1. s.items \in Seq(Line)
  BY Zenon DEF SagaRow
<1>2. DOMAIN s.items = 1 .. Len(s.items) /\ Len(s.items) \in Nat
  BY <1>1
<1>3. \A i \in DOMAIN s.items : s.items[i] \in Line
  BY <1>1, <1>2
<1> QED
  BY <1>1, <1>2, <1>3, Zenon DEF SagaRow, Line

\* A step writes one status into the copy and leaves the rest of it alone.
LEMMA StatusWritten ==
    ASSUME NEW s \in SagaRow, NEW status \in SagaStatus
    PROVE  LET t == [s EXCEPT !.status = status] IN
           /\ t \in SagaRow
           /\ t.status = status /\ t.items = s.items /\ t.paymentID = s.paymentID
  BY Zenon DEF SagaRow

\* A saga that has just been created records nothing.
LEMMA EmptyCopy ==
    ASSUME NEW o \in Orders, NEW rows, NEW payment, NEW lines
    PROVE  /\ GoodCopy(o, NoSaga, rows, payment, lines)
           /\ GoodCopy(o, NewSaga, rows, payment, lines)
           /\ NoSaga.status = "none" /\ NewSaga.status = "pending"
<1>1. Len(Items[o]) \in Nat /\ <<>> \in Seq(Line)
  BY SagaAssumption
<1>2. NoSaga \in SagaRow /\ NewSaga \in SagaRow
  BY <1>1, Zenon DEF NoSaga, NewSaga, SagaRow, SagaStatus
<1> QED
  BY <1>1, <1>2 DEF GoodCopy, NoSaga, NewSaga

\* A good copy stays good when the services only add to what they have done.
LEMMA CopyKept ==
    ASSUME NEW o \in Orders, NEW s, NEW rows, NEW payment, NEW lines,
           GoodCopy(o, s, rows, payment, lines), NEW laterRows, NEW laterPayment,
           \A p \in Products : rows[<<o, p>>].status # "none" =>
              /\ laterRows[<<o, p>>].status # "none"
              /\ laterRows[<<o, p>>].quantity = rows[<<o, p>>].quantity,
           payment # Pay!Unpaid => laterPayment # Pay!Unpaid
    PROVE  GoodCopy(o, s, laterRows, laterPayment, lines)
<1>1. \A i \in DOMAIN s.items : s.items[i].product \in Products
  BY SagaFields, Zenon DEF GoodCopy
<1> QED
  BY <1>1, Zenon DEF GoodCopy

\* A status that promises no more than the copy holds.
LEMMA CopyWithStatus ==
    ASSUME NEW o \in Orders, NEW s, NEW rows, NEW payment, NEW lines,
           GoodCopy(o, s, rows, payment, lines), NEW status \in SagaStatus,
           status \in {"reserved", "paying", "paid", "confirming", "confirmed"} =>
              Len(s.items) = Len(Items[o]),
           status \in {"paid", "confirming", "confirmed"} => s.paymentID
    PROVE  GoodCopy(o, [s EXCEPT !.status = status], rows, payment, lines)
  BY StatusWritten DEF GoodCopy

\* The step of a payment writes the status and the payment.
LEMMA CopyWithPayment ==
    ASSUME NEW o \in Orders, NEW s, NEW rows, NEW payment, NEW lines,
           GoodCopy(o, s, rows, payment, lines), Len(s.items) = Len(Items[o]),
           payment # Pay!Unpaid
    PROVE  LET t == [s EXCEPT !.status = "paid", !.paymentID = TRUE] IN
           GoodCopy(o, t, rows, payment, lines) /\ t.status = "paid"
<1> DEFINE t == [s EXCEPT !.status = "paid", !.paymentID = TRUE]
<1>1. s \in SagaRow
  BY Zenon DEF GoodCopy
<1>2. t \in SagaRow /\ t.status = "paid" /\ t.items = s.items /\ t.paymentID = TRUE
  BY <1>1, Zenon DEF SagaRow, SagaStatus
<1> HIDE DEF t
<1>3. GoodCopy(o, t, rows, payment, lines)
  BY <1>2, ZenonT(30) DEF GoodCopy
<1> QED
  BY <1>2, <1>3, Zenon DEF t

\* The step of a reservation records the next line.
LEMMA CopyWithLine ==
    ASSUME NEW o \in Orders, NEW s, NEW rows, NEW payment, NEW lines,
           GoodCopy(o, s, rows, payment, lines), s.status = "reserving",
           NEW items, SameLines(o, items, lines), Len(s.items) < Len(items),
           NEW line, line = items[Len(s.items) + 1],
           rows[<<o, line.product>>].status # "none",
           rows[<<o, line.product>>].quantity = line.quantity
    PROVE  LET t == [s EXCEPT !.items = Append(@, line)] IN
           GoodCopy(o, t, rows, payment, lines) /\ t.status = "reserving"
<1> DEFINE t == [s EXCEPT !.items = Append(@, line)]
<1>1. s \in SagaRow /\ items \in Seq(Line) /\ s.items \in Seq(Line) /\ Len(s.items) \in Nat
  BY SagaFields, Zenon DEF GoodCopy, SameLines
<1>2. line \in Line
  BY <1>1
<1>3. Append(s.items, line) \in Seq(Line)
  BY <1>1, <1>2
<1>4. /\ t \in SagaRow /\ t.status = "reserving" /\ t.items = Append(s.items, line)
      /\ t.paymentID = s.paymentID
  BY <1>1, <1>3, Zenon DEF SagaRow
<1>5. /\ Len(t.items) = Len(s.items) + 1
      /\ DOMAIN t.items = 1 .. Len(s.items) + 1
      /\ DOMAIN s.items = 1 .. Len(s.items)
      /\ \A i \in 1 .. Len(s.items) : t.items[i] = s.items[i]
      /\ t.items[Len(s.items) + 1] = line
  BY <1>1, <1>2, <1>4
<1> HIDE DEF t
<1>6. \A i \in DOMAIN t.items : i \in DOMAIN s.items \/ i = Len(s.items) + 1
  BY <1>1, <1>5
<1>7. GoodCopy(o, t, rows, payment, lines)
  <2>1. \A i \in DOMAIN t.items : /\ rows[<<o, t.items[i].product>>].status # "none"
                                  /\ rows[<<o, t.items[i].product>>].quantity
                                       = t.items[i].quantity
    BY <1>5, <1>6, ZenonT(30) DEF GoodCopy
  <2>2. lines = Items[o] => \A i \in DOMAIN t.items : t.items[i] = Items[o][i]
    BY <1>5, <1>6, Zenon DEF GoodCopy, SameLines
  <2>3. Len(t.items) <= Len(Items[o])
    BY <1>1, <1>5 DEF SameLines
  <2> QED
    BY <1>4, <2>1, <2>2, <2>3, Zenon DEF GoodCopy
<1> QED
  BY <1>4, <1>7, Zenon DEF t

-----------------------------------------------------------------------------
(* What the tables go through. *)

\* What no step takes back: a reservation was made, for so much, or was released; an
\* order was charged or got its money back; an order exists and has its lines.
Grow ==
    /\ \A o \in Orders, p \in Products :
          /\ reservations[<<o, p>>].status # "none" =>
                /\ reservations'[<<o, p>>].status # "none"
                /\ reservations'[<<o, p>>].quantity = reservations[<<o, p>>].quantity
          /\ reservations[<<o, p>>].status = "released" =>
                reservations'[<<o, p>>].status = "released"
    /\ \A o \in Orders :
          /\ payments[o] # Pay!Unpaid => payments'[o] # Pay!Unpaid
          /\ payments[o].status = "refunded" => payments'[o].status = "refunded"
          /\ orders[o] # NoOrder => orders'[o] # NoOrder /\ orders'[o].items = orders[o].items

\* A copy that stands for an existing order stays good.
LEMMA GoodKept ==
    ASSUME Grow, NEW o \in Orders, NEW s, orders[o] # NoOrder \/ orders'[o] = orders[o],
           GoodFor(o, s)
    PROVE  GoodCopy(o, s, reservations', payments'[o], orders'[o].items)
<1>1. orders'[o].items = orders[o].items
  BY Zenon DEF Grow
<1>2. GoodCopy(o, s, reservations, payments[o], orders'[o].items)
  BY <1>1, Zenon DEF GoodFor
<1> QED
  BY <1>2, CopyKept DEF Grow

\* The product of every line exists.
LEMMA LinesKnown ==
    ASSUME NEW o \in Orders
    PROVE  /\ Items[o] \in Seq(Line) /\ Len(Items[o]) \in Nat
           /\ DOMAIN Items[o] = 1 .. Len(Items[o])
           /\ \A i \in DOMAIN Items[o] : Items[o][i].product \in Products
<1>1. Items[o] \in Seq(Line)
  BY SagaAssumption, Zenon
<1>2. DOMAIN Items[o] = 1 .. Len(Items[o]) /\ Len(Items[o]) \in Nat
  BY <1>1
<1>3. \A i \in DOMAIN Items[o] : Items[o][i] \in Line
  BY <1>1, <1>2
<1> QED
  BY <1>1, <1>2, <1>3, Zenon DEF Line

\* Lines that were reserved stay reserved or released.
LEMMA LinesKept ==
    ASSUME Grow, NEW o \in Orders, EveryLineWasReserved(o) PROVE EveryLineWasReserved(o)'
  BY LinesKnown, Zenon DEF Grow, EveryLineWasReserved

\* An order whose own rows are left alone.
LEMMA OrderKept ==
    ASSUME TablesOK, Grow, NEW o \in Orders, sagas'[o] = sagas[o], refunds'[o] = refunds[o],
           payments'[o] = payments[o],
           \/ orders'[o] = orders[o]
           \/ orders[o] # NoOrder /\ orders'[o].items = orders[o].items
    PROVE  OrderOK(o)'
<1>1. OrderOK(o)
  BY Zenon DEF TablesOK
<1>2. GoodFor(o, sagas[o])'
  BY <1>1, GoodKept, Zenon DEF OrderOK, GoodFor
<1>3. orders[o] # NoOrder => orders'[o] # NoOrder /\ orders'[o].items = orders[o].items
  BY Zenon DEF Grow
<1>4. payments'[o] # Pay!Unpaid =>
          /\ orders'[o] # NoOrder
          /\ orders'[o].items = Items[o] => EveryLineWasReserved(o)'
  BY <1>1, <1>3, LinesKept, Zenon DEF OrderOK
<1> QED
  BY <1>1, <1>2, <1>3, <1>4, Zenon DEF OrderOK

\* A step that writes no table.
LEMMA TablesSame ==
    ASSUME TablesOK, UNCHANGED <<orders, sagas, services>>
    PROVE  TablesOK' /\ Grow
<1>1. /\ orders' = orders /\ sagas' = sagas /\ stock' = stock /\ reservations' = reservations
      /\ payments' = payments /\ refunds' = refunds
  BY Zenon DEF services
<1>2. Grow
  BY <1>1, Zenon DEF Grow
<1> QED
  BY <1>1, <1>2, OrderKept, Zenon DEF TablesOK, BookTypeOK

\* UPDATE orders SET status
LEMMA UpdateTables ==
    ASSUME TablesOK, NEW o \in Orders, orders[o] # NoOrder, NEW status \in OrderStatuses,
           orders' = [orders EXCEPT ![o].status = status], UNCHANGED <<sagas, services>>
    PROVE  TablesOK' /\ Grow
<1>1. /\ sagas' = sagas /\ stock' = stock /\ reservations' = reservations
      /\ payments' = payments /\ refunds' = refunds
  BY Zenon DEF services
<1>2. /\ orders'[o] \in [status : OrderStatuses, items : Seq(Line)]
      /\ orders'[o].items = orders[o].items
      /\ \A other \in Orders \ {o} : orders'[other] = orders[other]
      /\ orders' \in [Orders -> OrderRow]
  BY Zenon DEF TablesOK, OrderRow
<1>3. orders'[o] # NoOrder
  BY <1>2, ZenonT(30) DEF OrderStatuses, NoOrder
<1>4. Grow
  BY <1>1, <1>2, <1>3, Zenon DEF Grow
<1> QED
  BY <1>1, <1>2, <1>4, OrderKept, Zenon DEF TablesOK, BookTypeOK

\* UPDATE or INSERT of the saga row
LEMMA SaveTables ==
    ASSUME TablesOK, NEW o \in Orders, orders[o] # NoOrder, NEW s, GoodFor(o, s),
           s.status # "none", sagas' = [sagas EXCEPT ![o] = s], UNCHANGED <<orders, services>>
    PROVE  TablesOK' /\ Grow
<1>1. /\ orders' = orders /\ stock' = stock /\ reservations' = reservations
      /\ payments' = payments /\ refunds' = refunds
  BY Zenon DEF services
<1>2. s \in SagaRow
  BY Zenon DEF GoodFor, GoodCopy
<1>3. /\ sagas'[o] = s /\ \A other \in Orders \ {o} : sagas'[other] = sagas[other]
      /\ sagas' \in [Orders -> SagaRow]
  BY <1>2, Zenon DEF TablesOK
<1>4. Grow
  BY <1>1, Zenon DEF Grow
<1>5. OrderOK(o)'
  <2>1. OrderOK(o)
    BY Zenon DEF TablesOK
  <2>2. GoodFor(o, sagas[o])'
    BY <1>1, <1>3, Zenon DEF GoodFor
  <2>3. EveryLineWasReserved(o) => EveryLineWasReserved(o)'
    BY <1>4, LinesKept, Zenon
  <2> QED
    BY <1>1, <1>3, <2>1, <2>2, <2>3, ZenonT(30) DEF OrderOK
<1>6. \A other \in Orders \ {o} : OrderOK(other)'
  BY <1>1, <1>3, <1>4, OrderKept, Zenon
<1> QED
  BY <1>1, <1>3, <1>4, <1>5, <1>6, Zenon DEF TablesOK, BookTypeOK

\* inventory-service reserves or releases a line, of whichever order.
LEMMA BookTables ==
    ASSUME TablesOK, NEW o \in Orders, NEW p \in Products,
           BookRelease(o, p) \/ \E q \in Quantities : BookReserve(o, p, q),
           UNCHANGED <<orders, sagas, payments, refunds>>
    PROVE  /\ TablesOK' /\ Grow
           /\ BookRelease(o, p) => reservations'[<<o, p>>].status = "released"
           /\ \A q : BookReserve(o, p, q) =>
                 /\ reservations'[<<o, p>>].status # "none"
                 /\ reservations'[<<o, p>>].quantity = q
<1>1. PICK q \in Nat, status \in {"reserved", "released"} :
         /\ reservations' = [reservations EXCEPT ![<<o, p>>] = [quantity |-> q,
                                                               status |-> status]]
         /\ reservations[<<o, p>>].status # "none" =>
               q = reservations[<<o, p>>].quantity /\ status = "released"
         /\ \/ BookRelease(o, p) /\ status = "released"
            \/ BookReserve(o, p, q) /\ status = "reserved"
  <2>1. reservations[<<o, p>>].quantity \in Nat
    BY Zenon DEF TablesOK, BookTypeOK, Keys, Reservation
  <2>2. CASE BookRelease(o, p)
    BY <2>1, <2>2, Zenon DEF BookRelease
  <2>3. ASSUME NEW q \in Quantities, BookReserve(o, p, q)
        PROVE  /\ q \in Nat
               /\ reservations' = [reservations EXCEPT ![<<o, p>>] = [quantity |-> q,
                                                                     status |-> "reserved"]]
               /\ reservations[<<o, p>>].status = "none"
    BY <2>3, StockAssumption, Zenon DEF BookReserve
  <2> QED
    BY <2>2, <2>3, Zenon
<1>2. <<o, p>> \in Keys /\ reservations \in [Keys -> Reservation]
  BY Zenon DEF TablesOK, BookTypeOK, Keys
<1>3. /\ reservations' \in [Keys -> Reservation]
      /\ reservations'[<<o, p>>].quantity = q /\ reservations'[<<o, p>>].status = status
      /\ \A k \in Keys \ {<<o, p>>} : reservations'[k] = reservations[k]
  BY <1>1, <1>2, Zenon DEF Reservation, ReservationStatus
<1>4. stock' \in [Products -> Stock]
  <2>1. stock \in [Products -> Stock] /\ reservations[<<o, p>>].quantity \in Nat
    BY <1>2, Zenon DEF TablesOK, BookTypeOK, Reservation
  <2>2. stock[p].available \in Nat /\ stock[p].reserved \in Nat
    BY <2>1, Zenon DEF Stock
  <2>3. PICK a \in Nat, b \in Nat :
           stock' = [stock EXCEPT ![p] = [available |-> a, reserved |-> b]]
    BY <1>1, <2>1, <2>2 DEF BookReserve, BookRelease
  <2> QED
    BY <2>1, <2>3, Zenon DEF Stock
<1>5. Grow
  <2>1. ASSUME NEW u \in Orders, NEW v \in Products
        PROVE  /\ reservations[<<u, v>>].status # "none" =>
                     /\ reservations'[<<u, v>>].status # "none"
                     /\ reservations'[<<u, v>>].quantity = reservations[<<u, v>>].quantity
               /\ reservations[<<u, v>>].status = "released" =>
                     reservations'[<<u, v>>].status = "released"
    <3>1. <<u, v>> \in Keys
      BY Zenon DEF Keys
    <3>2. CASE <<u, v>> = <<o, p>>
      BY <1>1, <1>3, <3>2, Zenon
    <3>3. CASE <<u, v>> # <<o, p>>
      BY <1>3, <3>1, <3>3, Zenon
    <3> QED
      BY <3>2, <3>3, Zenon
  <2> QED
    BY <2>1, Zenon DEF Grow
<1>6. TablesOK'
  BY <1>3, <1>4, <1>5, OrderKept, Zenon DEF TablesOK, BookTypeOK
<1>7. BookRelease(o, p) => status = "released"
  BY <1>1, Zenon DEF BookRelease, BookReserve
<1>8. \A n : BookReserve(o, p, n) => n = q
  BY <1>2, <1>3 DEF BookReserve
<1> QED
  BY <1>3, <1>5, <1>6, <1>7, <1>8, <1>1, Zenon

\* payment-service decides on the charge of an order all of whose lines it was told
\* of, or has decided before.
LEMMA ChargeTables ==
    ASSUME TablesOK, NEW o \in Orders, orders[o] # NoOrder, ServiceSubject \in Users,
           orders[o].items = Items[o] => EveryLineWasReserved(o),
           ProcessPayment(o), UNCHANGED <<orders, sagas, bookVars>>
    PROVE  TablesOK' /\ Grow /\ payments'[o] # Pay!Unpaid
<1>1. orders' = orders /\ sagas' = sagas /\ stock' = stock /\ reservations' = reservations
  BY Zenon DEF bookVars
<1>2. CASE payments[o] # Pay!Unpaid /\ UNCHANGED <<payments, refunds>>
  BY <1>1, <1>2, TablesSame, Zenon DEF services
<1>3. CASE Pay!PayCharge(o, ServiceSubject, Total)
  <2>1. PICK status \in {"success", "failed"} :
           payments' = [payments EXCEPT ![o] = [status |-> status, user |-> ServiceSubject,
                                                amount |-> Total]]
    BY <1>3, Zenon DEF Pay!PayCharge, Pay!Settled
  <2>2. payments[o] = Pay!Unpaid /\ refunds' = refunds
    BY <1>3, Zenon DEF Pay!PayCharge
  <2>3. payments \in [Orders -> Payment]
    BY Zenon DEF TablesOK
  <2>4. /\ payments'[o].status = status
        /\ \A other \in Orders \ {o} : payments'[other] = payments[other]
        /\ payments' \in [Orders -> Payment]
    BY <2>1, <2>3, Zenon DEF Payment
  <2>5. payments'[o] # Pay!Unpaid /\ payments[o].status = "none"
    BY <2>2, <2>4 DEF Pay!Unpaid
  <2>6. Grow
    BY <1>1, <2>4, <2>5, Zenon DEF Grow
  <2>7. OrderOK(o)'
    <3>1. OrderOK(o)
      BY Zenon DEF TablesOK
    <3>2. GoodFor(o, sagas[o])'
      BY <1>1, <2>6, <3>1, GoodKept, Zenon DEF OrderOK, GoodFor
    <3>3. EveryLineWasReserved(o) => EveryLineWasReserved(o)'
      BY <2>6, LinesKept, Zenon
    <3>4. DOMAIN refunds[o] = {}
      BY <2>5, <3>1, Zenon DEF OrderOK
    <3> QED
      BY <1>1, <2>2, <3>1, <3>2, <3>3, <3>4, Zenon DEF OrderOK
  <2>8. \A other \in Orders \ {o} : OrderOK(other)'
    BY <1>1, <2>2, <2>4, <2>6, OrderKept, Zenon
  <2> QED
    BY <1>1, <2>2, <2>4, <2>5, <2>6, <2>7, <2>8, Zenon DEF TablesOK, BookTypeOK
<1> QED
  BY <1>2, <1>3, Zenon DEF ProcessPayment

\* A table takes one more row.
LEMMA RowAppended ==
    ASSUME NEW S, NEW rows \in Seq(S), NEW row \in S PROVE Append(rows, row) \in Seq(S)
  OBVIOUS

\* payment-service refunds the payment under the key of the order, or has done so.
LEMMA RefundTables ==
    ASSUME TablesOK, NEW o \in Orders, NEW kind \in {"create", "recover", "cancel"},
           RefundAccepted(o, <<kind, o>>), Refund(o, <<kind, o>>),
           UNCHANGED <<orders, sagas, bookVars>>
    PROVE  TablesOK' /\ Grow /\ payments'[o].status = "refunded"
<1>1. orders' = orders /\ sagas' = sagas /\ stock' = stock /\ reservations' = reservations
  BY Zenon DEF bookVars
<1>2. CASE Pay!KeyUsed(<<kind, o>>)
  <2>1. payments' = payments /\ refunds' = refunds
    BY <1>2, Zenon DEF Refund
  <2>2. PICK other \in Orders : \E i \in DOMAIN refunds[other] :
           refunds[other][i].key = <<kind, o>>
    BY <1>2, Zenon DEF Pay!KeyUsed
  <2>3. payments[other].status = "refunded" /\ \E k : <<kind, o>> = <<k, other>>
    BY <2>2, Zenon DEF TablesOK, OrderOK
  <2>4. other = o
    BY <2>3, Zenon
  <2> QED
    BY <1>1, <2>1, <2>3, <2>4, TablesSame, Zenon DEF services
<1>3. CASE ~Pay!KeyUsed(<<kind, o>>)
  <2> DEFINE row == [amount |-> Total, key |-> <<kind, o>>]
  <2>1. /\ payments' = [payments EXCEPT ![o].status = "refunded"]
        /\ refunds' = [refunds EXCEPT ![o] = Append(@, row)]
    BY <1>3, Zenon DEF Refund, Pay!PayRefund
  <2>2. /\ payments \in [Orders -> Payment] /\ payments[o] # Pay!Unpaid
        /\ refunds \in [Orders -> Seq([amount : {Total}, key : RefundKeys])]
    BY Zenon DEF TablesOK, RefundAccepted
  <2>3. /\ payments'[o] \in Payment /\ payments'[o].status = "refunded"
        /\ payments' \in [Orders -> Payment]
        /\ \A other \in Orders \ {o} : payments'[other] = payments[other]
    BY <2>1, <2>2, ZenonT(30) DEF Payment
  <2>4. payments'[o] # Pay!Unpaid
    BY <2>3 DEF Pay!Unpaid
  <2>5. row \in [amount : {Total}, key : RefundKeys]
    BY Zenon DEF RefundKeys
  <2> HIDE DEF row
  <2>6. /\ refunds'[o] = Append(refunds[o], row)
        /\ refunds' \in [Orders -> Seq([amount : {Total}, key : RefundKeys])]
        /\ \A other \in Orders \ {o} : refunds'[other] = refunds[other]
    <3>1. Append(refunds[o], row) \in Seq([amount : {Total}, key : RefundKeys])
      BY <2>2, <2>5, RowAppended, Zenon
    <3> QED
      BY <2>1, <2>2, <3>1, Zenon
  <2>7. Grow
    BY <1>1, <2>3, <2>4, Zenon DEF Grow
  <2>8. OrderOK(o)'
    <3>1. OrderOK(o)
      BY Zenon DEF TablesOK
    <3>2. GoodFor(o, sagas[o])'
      BY <1>1, <2>7, <3>1, GoodKept, Zenon DEF OrderOK, GoodFor
    <3>3. EveryLineWasReserved(o) => EveryLineWasReserved(o)'
      BY <2>7, LinesKept, Zenon
    <3>4. \A i \in DOMAIN refunds'[o] :
             \/ i \in DOMAIN refunds[o] /\ refunds'[o][i] = refunds[o][i]
             \/ refunds'[o][i] = row
      BY <2>2, <2>5, <2>6
    <3>5. \A i \in DOMAIN refunds'[o] :
             \E k \in {"create", "recover", "cancel"} : refunds'[o][i].key = <<k, o>>
      BY <3>1, <3>4 DEF OrderOK, row
    <3> QED
      BY <1>1, <2>2, <2>3, <3>1, <3>2, <3>3, <3>5, Zenon DEF OrderOK
  <2>9. \A other \in Orders \ {o} : OrderOK(other)'
    BY <1>1, <2>3, <2>6, <2>7, OrderKept, Zenon
  <2> QED
    BY <1>1, <2>3, <2>6, <2>7, <2>8, <2>9, Zenon DEF TablesOK, BookTypeOK
<1> QED
  BY <1>2, <1>3, Zenon

-----------------------------------------------------------------------------
(* What a run goes through. *)

Tries == [attempt : 1 .. MaxRetries, pos : Nat \ {0}, bad : BOOLEAN, expired : BOOLEAN]

\* A step of r leaves every other run where it was.
Moved(r) ==
    /\ pc' \in [Runs -> Label] /\ job' \in [Runs -> Job]
    /\ mem' \in [Runs -> SagaRow] /\ tries' \in [Runs -> Tries]
    /\ \A q \in Runs \ {r} : /\ pc'[q] = pc[q] /\ job'[q] = job[q]
                             /\ mem'[q] = mem[q] /\ tries'[q] = tries[q]

Counted == faults' \in 0 .. MaxFaults /\ disturbed' \subseteq Followed

\* A run that another step does not touch stays as it should be.
LEMMA RunKept ==
    ASSUME Grow, NEW q \in Runs, RunOK(q), pc'[q] = pc[q], job'[q] = job[q],
           mem'[q] = mem[q], tries'[q] = tries[q]
    PROVE  RunOK(q)'
<1>1. CASE pc[q] = "idle"
  BY <1>1, Zenon DEF RunOK
<1>2. CASE pc[q] # "idle"
  <2> DEFINE o == job[q].order
  <2>1. Working(q) /\ o \in Orders /\ orders[o] # NoOrder
    BY <1>2, Zenon DEF RunOK, Working, Followed
  <2>2. orders'[o] # NoOrder /\ orders'[o].items = orders[o].items
    BY <2>1, Zenon DEF Grow
  <2>3. GoodFor(job[q].order, mem[q])'
    BY <2>1, GoodKept, Zenon DEF Working, GoodFor
  <2>4. Cancelling(q) => UndoneSoFar(q)'
    <3>1. \A i \in DOMAIN mem[q].items : mem[q].items[i].product \in Products
      BY <2>1, SagaFields, Zenon DEF Working, GoodFor, GoodCopy
    <3>2. \A i \in DOMAIN mem[q].items :
             reservations[<<o, mem[q].items[i].product>>].status = "released" =>
                reservations'[<<o, mem[q].items[i].product>>].status = "released"
      BY <2>1, <3>1, Zenon DEF Grow
    <3>3. payments[o].status = "refunded" => payments'[o].status = "refunded"
      BY <2>1, Zenon DEF Grow
    <3> QED
      BY <2>1, <3>2, <3>3, ZenonT(30) DEF Working, UndoneSoFar
  <2>5. Working(q)'
    BY <2>1, <2>2, <2>3, <2>4, ZenonT(30) DEF Working, Cancelling
  <2> QED
    BY <1>2, <2>5, Zenon DEF RunOK
<1> QED
  BY <1>1, <1>2, Zenon

\* One run moves, the tables grow, and nothing else happens.
LEMMA StepInv ==
    ASSUME IndInv, NEW r \in Runs, TablesOK', Grow, Moved(r), RunOK(r)', Counted
    PROVE  IndInv'
<1>1. \A q \in Runs \ {r} : RunOK(q)'
  BY RunKept, Zenon DEF IndInv, Moved
<1>2. TypeOK'
  BY Zenon DEF TypeOK, TablesOK, Payment, Moved, Tries, Counted
<1> QED
  BY <1>1, <1>2, Zenon DEF IndInv

\* What a run that is at work can count on.
LEMMA AtWork ==
    ASSUME IndInv, NEW r \in Runs, pc[r] # "idle"
    PROVE  LET o == job[r].order IN
           /\ Working(r) /\ o \in Followed /\ o \in Orders /\ orders[o] # NoOrder
           /\ mem[r] \in SagaRow /\ GoodFor(o, mem[r])
           /\ pc[r] \in Label /\ job[r] \in Job /\ tries[r] \in Tries
<1>1. Working(r)
  BY Zenon DEF IndInv, RunOK
<1> QED
  BY <1>1, Zenon DEF Working, IndInv, TypeOK, Followed, Tries

\* A failure is counted, and no failure changes nothing.
LEMMA FaultsCounted ==
    ASSUME IndInv, NEW o \in Followed, NoFault \/ Fault(o) PROVE Counted
  BY SagaAssumption DEF IndInv, TypeOK, NoFault, Fault, Counted

\* A run returns.
LEMMA ReturnRun ==
    ASSUME IndInv, NEW r \in Runs, Return(r) PROVE Moved(r) /\ RunOK(r)'
<1>1. NoJob \in Job /\ "idle" \in Label
  BY Zenon DEF Job, Label
<1>2. NoSaga \in SagaRow
  BY DEF NoSaga, SagaRow
<1>3. Fresh \in Tries
  BY SagaAssumption DEF Fresh, Tries
<1>4. /\ pc' = [pc EXCEPT ![r] = "idle"] /\ job' = [job EXCEPT ![r] = NoJob]
      /\ mem' = [mem EXCEPT ![r] = NoSaga] /\ tries' = [tries EXCEPT ![r] = Fresh]
      /\ pc \in [Runs -> Label] /\ job \in [Runs -> Job]
      /\ mem \in [Runs -> SagaRow] /\ tries \in [Runs -> Tries]
  BY Zenon DEF Return, IndInv, TypeOK, Tries
<1> QED
  BY <1>1, <1>2, <1>3, <1>4, Zenon DEF Moved, RunOK

\* The counters of a step at its start, and at a later attempt.
LEMMA TriesWritten ==
    ASSUME NEW expired \in BOOLEAN, NEW n \in 1 .. MaxRetries
    PROVE  /\ [Fresh EXCEPT !.expired = expired] \in Tries
           /\ [Fresh EXCEPT !.expired = expired].pos = 1
           /\ [Fresh EXCEPT !.expired = expired].bad = FALSE
           /\ [Fresh EXCEPT !.attempt = n] \in Tries
           /\ [Fresh EXCEPT !.attempt = n].pos = 1
<1>1. Fresh \in Tries
  BY SagaAssumption DEF Fresh, Tries
<1>2. Fresh.pos = 1 /\ Fresh.bad = FALSE
  BY Zenon DEF Fresh
<1> QED
  BY <1>1, <1>2, Zenon DEF Tries

\* A run goes on with copy s.
LEMMA RememberRun ==
    ASSUME IndInv, NEW r \in Runs, NEW label \in Label, NEW s \in SagaRow,
           Remember(r, s, label)
    PROVE  /\ Moved(r) /\ pc'[r] = label /\ mem'[r] = s /\ job'[r] = job[r]
           /\ tries'[r].pos = 1 /\ tries'[r].bad = FALSE
<1>1. /\ pc' = [pc EXCEPT ![r] = label] /\ job' = job /\ mem' = [mem EXCEPT ![r] = s]
      /\ tries' = [tries EXCEPT ![r] = [Fresh EXCEPT !.expired = tries[r].expired]]
      /\ pc \in [Runs -> Label] /\ job \in [Runs -> Job]
      /\ mem \in [Runs -> SagaRow] /\ tries \in [Runs -> Tries]
  BY Zenon DEF Remember, Goto, IndInv, TypeOK, Tries
<1>2. tries[r].expired \in BOOLEAN
  BY <1>1, Zenon DEF Tries
<1> DEFINE t == [Fresh EXCEPT !.expired = tries[r].expired]
<1>3. 1 \in 1 .. MaxRetries
  BY SagaAssumption
<1>4. t \in Tries /\ t.pos = 1 /\ t.bad = FALSE
  BY <1>2, <1>3, TriesWritten, Zenon
<1>5. tries' = [tries EXCEPT ![r] = t]
  BY <1>1, Zenon
<1> HIDE DEF t
<1> QED
  BY <1>1, <1>4, <1>5, Zenon DEF Moved

\* What CancelOrder has to have done to be at label with copy s.
MayUndo(label, s, o) ==
    /\ label \in UndoLabels \ {"refund"} /\ s.paymentID => payments'[o].status = "refunded"
    /\ label \in {"cancelOrder", "cancelSaga"} =>
          \A i \in DOMAIN s.items : reservations'[<<o, s.items[i].product>>].status = "released"

\* A run goes on with a good copy, to a label that suits its task and its copy.
LEMMA GoOn ==
    ASSUME IndInv, NEW r \in Runs, pc[r] # "idle", Grow, NEW label \in Label \ {"idle"}, NEW s,
           Remember(r, s, label), TaskFits(label, job[r].kind), StatusFits(label, s.status),
           GoodCopy(job[r].order, s, reservations', payments'[job[r].order],
                    orders'[job[r].order].items),
           Cancelling(r) => MayUndo(label, s, job[r].order)
    PROVE  Moved(r) /\ RunOK(r)'
<1> DEFINE o == job[r].order
<1>1. s \in SagaRow
  BY Zenon DEF GoodCopy
<1>2. /\ Moved(r) /\ pc'[r] = label /\ mem'[r] = s /\ job'[r] = job[r]
      /\ tries'[r].pos = 1 /\ tries'[r].bad = FALSE
  BY <1>1, RememberRun, Zenon
<1>3. Working(r) /\ o \in Orders /\ orders[o] # NoOrder
  BY AtWork, Zenon
<1>4. orders'[o] # NoOrder /\ orders'[o].items = orders[o].items
  BY <1>3, Zenon DEF Grow
<1>5. GoodFor(job[r].order, mem[r])'
  BY <1>2, Zenon DEF GoodFor
<1>6. \A i \in DOMAIN s.items : ~(i < 1)
  <2>1. DOMAIN s.items = 1 .. Len(s.items) /\ Len(s.items) \in Nat
    BY <1>1, SagaFields, Zenon
  <2> QED
    BY <2>1
<1>7. Cancelling(r) => UndoneSoFar(r)'
  BY <1>2, <1>6, Zenon DEF MayUndo, UndoneSoFar
<1>8. Working(r)'
  BY <1>2, <1>3, <1>4, <1>5, <1>7, Zenon DEF Working, Cancelling
<1> QED
  BY <1>2, <1>8, Zenon DEF RunOK

\* The same with the copy the run has.
LEMMA GoOnSame ==
    ASSUME IndInv, NEW r \in Runs, pc[r] # "idle", Grow, NEW label \in Label \ {"idle"},
           Skip(r, label), TaskFits(label, job[r].kind), StatusFits(label, mem[r].status),
           Cancelling(r) => MayUndo(label, mem[r], job[r].order)
    PROVE  Moved(r) /\ RunOK(r)'
<1>1. mem' = [mem EXCEPT ![r] = mem[r]]
  BY Zenon DEF Skip, IndInv, TypeOK
<1>2. Remember(r, mem[r], label)
  BY <1>1, Zenon DEF Skip, Remember
<1>3. GoodCopy(job[r].order, mem[r], reservations', payments'[job[r].order],
               orders'[job[r].order].items)
  BY AtWork, GoodKept, Zenon
<1> QED
  BY <1>2, <1>3, GoOn, Zenon

\* Another attempt at the same step.
LEMMA RetryRun ==
    ASSUME IndInv, NEW r \in Runs, pc[r] # "idle", Grow, MayRetry(r), Retry(r)
    PROVE  Moved(r) /\ RunOK(r)'
<1> DEFINE o == job[r].order
<1>1. /\ pc' = pc /\ job' = job /\ mem' = mem
      /\ tries' = [tries EXCEPT ![r] = [Fresh EXCEPT !.attempt = tries[r].attempt + 1]]
      /\ pc \in [Runs -> Label] /\ job \in [Runs -> Job]
      /\ mem \in [Runs -> SagaRow] /\ tries \in [Runs -> Tries]
  BY Zenon DEF Retry, IndInv, TypeOK, Tries
<1>2. tries[r].attempt + 1 \in 1 .. MaxRetries
  BY <1>1, SagaAssumption DEF Tries, MayRetry
<1> DEFINE t == [Fresh EXCEPT !.attempt = tries[r].attempt + 1]
<1>3. t \in Tries /\ t.pos = 1
  BY <1>2, TriesWritten, Zenon
<1>4. tries' = [tries EXCEPT ![r] = t]
  BY <1>1, Zenon
<1> HIDE DEF t
<1>6. Moved(r) /\ tries'[r].pos = 1
  BY <1>1, <1>3, <1>4, Zenon DEF Moved
<1>7. Working(r) /\ o \in Orders /\ orders[o] # NoOrder /\ mem[r] \in SagaRow
  BY AtWork, Zenon
<1>8. orders'[o] # NoOrder /\ orders'[o].items = orders[o].items
  BY <1>7, Zenon DEF Grow
<1>9. GoodFor(job[r].order, mem[r])'
  BY <1>1, <1>7, GoodKept, Zenon DEF Working, GoodFor
<1>10. Cancelling(r) => UndoneSoFar(r)'
  <2>1. \A i \in DOMAIN mem[r].items : mem[r].items[i].product \in Products /\ ~(i < 1)
    <3>1. /\ DOMAIN mem[r].items = 1 .. Len(mem[r].items) /\ Len(mem[r].items) \in Nat
          /\ \A i \in DOMAIN mem[r].items : mem[r].items[i].product \in Products
      BY <1>7, SagaFields, Zenon
    <3> QED
      BY <3>1
  <2>2. \A i \in DOMAIN mem[r].items :
           reservations[<<o, mem[r].items[i].product>>].status = "released" =>
              reservations'[<<o, mem[r].items[i].product>>].status = "released"
    BY <1>7, <2>1, Zenon DEF Grow
  <2>3. payments[o].status = "refunded" => payments'[o].status = "refunded"
    BY <1>7, Zenon DEF Grow
  <2> QED
    BY <1>1, <1>6, <1>7, <2>1, <2>2, <2>3, Zenon DEF Working, UndoneSoFar
<1>11. Working(r)'
  BY <1>1, <1>7, <1>8, <1>9, <1>10, Zenon DEF Working, Cancelling
<1> QED
  BY <1>1, <1>6, <1>11, Zenon DEF RunOK

=============================================================================
