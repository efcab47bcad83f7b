------------------------------- MODULE Handlers -------------------------------
(***************************************************************************)
(* The request handlers of order-, payment- and catalog-service: who is    *)
(* answered, what the answer shows, and the price check of CreateOrder.  A *)
(* handler makes several reads, and the rows change between them: by sagas *)
(* and operators (Saga), refunds (Payment) and price updates (Catalog).    *)
(*                                                                         *)
(* There is one order of "customer" with its payment, in any state, and    *)
(* one call: calls meet only in the rows, whose changes are free here.     *)
(***************************************************************************)
EXTENDS Naturals, Sequences, Access, OrderStatus

LOCAL INSTANCE SequencesExt

CONSTANTS Products, Prices,  \* Prices: natural numbers
          Baskets,           \* what customers order: sequences of lines
          Refunds,           \* identifiers of refunds of the payment
          TripAfter, MaxRequests,  \* of the circuit breaker
          MaxRowChanges      \* bound on what others do during the call

Lines == [product : Products, price : Prices]

ASSUME HandlersAssumption ==
    /\ Baskets \subseteq Seq(Lines)
    /\ Prices \cup {TripAfter, MaxRequests} \subseteq Nat \ {0} /\ MaxRowChanges \in Nat

VARIABLES orderStatus,   \* of the order's row
          refundRows,    \* refunds that are committed
          prices,        \* products table: product -> price, 0 for none
          breaker,       \* the one breaker of order-service's three clients
          rpc,           \* the call in progress
          since,         \* history: what the rows were since the call began
          rowChanges

handlerVars == <<orderStatus, refundRows, prices, breaker, rpc, since, rowChanges>>
rowVars == <<orderStatus, refundRows, prices>>

Owner == "customer"
HandlerTokens ==
    {Token("customer", "user", TRUE), Token("stranger", "user", TRUE), Token("operator", "admin", TRUE),
     ServiceToken("order-service"), NoToken}

\* A subject that uuid.Parse accepts.
IsUUID(sub) == sub \in {"customer", "stranger", "operator"}

-----------------------------------------------------------------------------
(* Conversions between the domain and protobuf.                            *)

domainStatusToProtoMap ==
    [pending |-> "PENDING", awaiting_payment |-> "AWAITING_PAYMENT", paid |-> "PAID",
     processing |-> "PROCESSING", shipped |-> "SHIPPED", delivered |-> "DELIVERED",
     cancelled |-> "CANCELLED", refunded |-> "REFUNDED"]

domainStatusToProto(s) ==
    IF s \in DOMAIN domainStatusToProtoMap THEN domainStatusToProtoMap[s] ELSE "UNSPECIFIED"

protoStatusToDomainMap ==
    [UNSPECIFIED |-> "unspecified", PENDING |-> "pending", AWAITING_PAYMENT |-> "awaiting_payment",
     PAID |-> "paid", PROCESSING |-> "processing", SHIPPED |-> "shipped", DELIVERED |-> "delivered",
     CANCELLED |-> "cancelled", REFUNDED |-> "refunded"]

protoStatusToDomain(s) ==
    IF s \in DOMAIN protoStatusToDomainMap THEN protoStatusToDomainMap[s] ELSE "unspecified"

statusToProto(s) ==
    CASE s = "pending" -> "PENDING" [] s = "success" -> "SUCCESS" [] s = "failed" -> "FAILED"
      [] s = "refunded" -> "REFUNDED" [] OTHER -> "UNSPECIFIED"

\* A refund is stored with status refunded.
refundToProto(r) == [id |-> r, status |-> statusToProto("refunded")]

mapOrderToProto(status) == [user |-> Owner, status |-> domainStatusToProto(status)]

toProtoProduct(p) == [product |-> p, price |-> prices[p]]

-----------------------------------------------------------------------------
InProgress == rpc.pc \in {"begun", "again", "write", "lines", "store"}

\* Rows that the call does not read may as well stay as they are.
RowChange(readers) ==
    /\ InProgress /\ rpc.method \in readers
    /\ rowChanges < MaxRowChanges /\ rowChanges' = rowChanges + 1

(* gobreaker.  Any error of a call is a failure, NotFound too.             *)

Closed == [state |-> "closed", fails |-> 0, passed |-> 0]

Executes == breaker.state # "open"

AfterCall(ok) ==
    CASE ok /\ breaker.state = "half" ->
             IF breaker.passed + 1 >= MaxRequests THEN Closed ELSE [breaker EXCEPT !.passed = @ + 1]
      [] ok /\ breaker.state # "half" -> [breaker EXCEPT !.fails = 0]
      [] ~ok -> IF breaker.state = "half" \/ breaker.fails + 1 >= TripAfter
                THEN [Closed EXCEPT !.state = "open"]
                ELSE [breaker EXCEPT !.fails = @ + 1]

\* A call of a saga to inventory or payment, through the same breaker.
SagaCalls ==
    /\ RowChange({"CreateOrder"}) /\ Executes /\ breaker' \in {AfterCall(TRUE), AfterCall(FALSE)}
    /\ UNCHANGED <<rowVars, rpc, since>>

BreakerTimeout ==
    /\ breaker.state = "open" /\ breaker' = [Closed EXCEPT !.state = "half"]
    /\ UNCHANGED <<rowVars, rpc, since, rowChanges>>

-----------------------------------------------------------------------------
(* Others change the rows while the call is in progress.                   *)

\* Saga steps and CancelOrder write these whatever the status was.
SagaWrites == {"awaiting_payment", "paid", "cancelled"}

OrderMoves ==
    /\ RowChange({"GetOrder", "CancelOrder", "UpdateOrderStatus"})
    /\ orderStatus' \in allowedTransitions[orderStatus] \cup SagaWrites
    /\ since' = [since EXCEPT !.status = @ \cup {orderStatus'}]
    /\ UNCHANGED <<refundRows, prices, breaker, rpc>>

RefundAppears ==
    /\ RowChange({"GetRefund", "ListRefunds"}) /\ \E r \in Refunds \ refundRows : refundRows' = refundRows \cup {r}
    /\ UNCHANGED <<orderStatus, prices, breaker, rpc, since>>

\* UpdateProduct or DeleteProduct.
PriceChanges ==
    /\ RowChange({"CreateOrder", "GetProduct"})
    /\ \E p \in {q \in Products : prices[q] # 0}, price \in Prices \cup {0} :
           /\ prices' = [prices EXCEPT ![p] = price]
           /\ since' = [since EXCEPT !.prices[p] = @ \cup {price}]
    /\ UNCHANGED <<orderStatus, refundRows, breaker, rpc>>

-----------------------------------------------------------------------------
(* The call.                                                               *)

HandlersInit ==
    /\ orderStatus \in OrderStatuses \ {"unspecified"} /\ refundRows \in SUBSET Refunds
    /\ prices = [p \in Products |-> CHOOSE price \in Prices : TRUE]
    /\ breaker = Closed /\ rowChanges = 0
    /\ rpc = [pc |-> "none", method |-> "", who |-> Nobody, arg |-> <<>>, at |-> 1, shown |-> {}]
    /\ since = [status |-> {orderStatus}, refunds |-> refundRows, prices |-> [p \in Products |-> {prices[p]}]]

Goes(fields) == rpc' = [f \in DOMAIN rpc |-> IF f \in DOMAIN fields THEN fields[f] ELSE rpc[f]]
To(pc)    == Goes([pc |-> pc])
Ok(shown) == Goes([pc |-> "ok", shown |-> shown])
OnlyRpc  == UNCHANGED <<rowVars, breaker, since, rowChanges>>

IsAdmin == rpc.who.role = "admin"
Owns    == rpc.who.id = Owner

At(method, pc) == rpc.method = method /\ rpc.pc = pc

\* AuthUnaryInterceptor, after validation.
RpcBegins(method, token, arg) ==
    /\ rpc.pc = "none"
    /\ Goes([method |-> method, who |-> Caller(method, token), arg |-> arg,
             pc |-> IF Admitted(method, token) THEN "begun" ELSE "unauthenticated"])
    /\ OnlyRpc

\* Any statement may fail.
RpcFails == InProgress /\ rpc.pc # "lines" /\ To("error") /\ OnlyRpc

GetOrder ==
    /\ At("GetOrder", "begun")
    /\ IF Owns \/ IsAdmin THEN Ok({mapOrderToProto(orderStatus)}) ELSE To("denied")
    /\ OnlyRpc

\* The handler reads the order to see whose it is; the use case reads it again.
CancelOrder ==
    /\ \/ /\ At("CancelOrder", "begun")
          /\ IF Owns \/ IsAdmin THEN To("again") ELSE To("denied")
       \/ /\ At("CancelOrder", "again")
          /\ CASE CancellableDirectly(orderStatus) \/ CancellableWithRefund(orderStatus) -> To("write")
               [] orderStatus = "cancelled" -> To("invalid")
               [] OTHER -> To("failed precondition")
    /\ OnlyRpc

UpdateOrderStatus ==
    /\ \/ /\ At("UpdateOrderStatus", "begun")
          /\ IF rpc.who.role \in {"admin", "service"} THEN To("again") ELSE To("denied")
       \/ /\ At("UpdateOrderStatus", "again")
          /\ IF CanTransition(orderStatus, protoStatusToDomain(rpc.arg)) THEN To("write") ELSE To("invalid")
    /\ OnlyRpc

\* OrderRepository.UpdateStatus, unconditional.
WriteStatus ==
    /\ rpc.pc = "write"
    /\ orderStatus' = IF rpc.method = "CancelOrder" THEN "cancelled" ELSE protoStatusToDomain(rpc.arg)
    /\ since' = [since EXCEPT !.status = @ \cup {orderStatus'}]
    /\ Ok(IF rpc.method = "CancelOrder" THEN {} ELSE {rpc.arg})
    /\ UNCHANGED <<refundRows, prices, breaker, rowChanges>>

\* The refund first, then its payment, for the owner.
GetRefund ==
    /\ \/ /\ At("GetRefund", "begun")
          /\ IF rpc.arg \in refundRows THEN To("again") ELSE To("not found")
       \/ /\ At("GetRefund", "again")
          /\ IF Owns \/ IsAdmin THEN Ok({refundToProto(rpc.arg)}) ELSE To("denied")
    /\ OnlyRpc

ListRefunds ==
    /\ \/ /\ At("ListRefunds", "begun")
          /\ IF Owns \/ IsAdmin THEN To("again") ELSE To("denied")
       \/ At("ListRefunds", "again") /\ Ok({refundToProto(r) : r \in refundRows})
    /\ OnlyRpc

\* Anybody may ask for a product.
GetProduct ==
    /\ At("GetProduct", "begun")
    /\ IF prices[rpc.arg] = 0 THEN To("not found") ELSE Ok({toProtoProduct(rpc.arg)})
    /\ OnlyRpc

\* The owner of a new order is the subject of the token.
CreateOrder ==
    /\ \/ At("CreateOrder", "begun") /\ (IF IsUUID(rpc.who.id) THEN To("lines") ELSE To("error"))
       \/ At("CreateOrder", "store") /\ Ok({[user |-> rpc.who.id]})
    /\ OnlyRpc

\* Mutant: the first line stands for all.
AfterLineFirst == Goes([pc |-> "store"])

AfterLine ==
    IF rpc.at < Len(rpc.arg) THEN Goes([at |-> rpc.at + 1]) ELSE Goes([pc |-> "store"])

\* catalogClient.GetProduct for the next line.  It fails for a product that is
\* gone, and may fail for any other.
CheckLine ==
    LET line == rpc.arg[rpc.at] IN
    /\ At("CreateOrder", "lines")
    /\ \/ ~Executes /\ To("error") /\ UNCHANGED breaker
       \/ Executes /\ To("error") /\ breaker' = AfterCall(FALSE)
       \/ /\ Executes /\ prices[line.product] # 0 /\ breaker' = AfterCall(TRUE)
          /\ IF prices[line.product] = line.price THEN AfterLine ELSE To("invalid")
    /\ UNCHANGED <<rowVars, since, rowChanges>>

Targets == {"AWAITING_PAYMENT", "CANCELLED", "UNSPECIFIED"}

HandlersNext ==
    \/ \E t \in HandlerTokens :
           \/ \E method \in {"GetOrder", "CancelOrder", "ListRefunds"} : RpcBegins(method, t, <<>>)
           \/ \E s \in Targets : RpcBegins("UpdateOrderStatus", t, s)
           \/ \E p \in Products : RpcBegins("GetProduct", t, p)
           \/ \E r \in Refunds : RpcBegins("GetRefund", t, r)
           \/ \E basket \in Baskets : RpcBegins("CreateOrder", t, basket)
    \/ RpcFails \/ GetOrder \/ CancelOrder \/ UpdateOrderStatus \/ WriteStatus
    \/ GetRefund \/ ListRefunds \/ GetProduct \/ CreateOrder \/ CheckLine
    \/ OrderMoves \/ RefundAppears \/ PriceChanges \/ SagaCalls \/ BreakerTimeout

HandlersSpec == HandlersInit /\ [][HandlersNext]_handlerVars

-----------------------------------------------------------------------------
\* What a call answers is the caller's to know and was true while it ran: orders
\* and refunds are shown to their owner or an admin, in a status that the row had
\* during the call and that reads back as the same status; a list of refunds has
\* every refund that was there at its start; and an order is taken only if every
\* line has a price that the catalogue had during the call, whenever it was asked.
AnswersHold ==
    rpc.pc = "ok" =>
        CASE rpc.method = "CreateOrder" ->
                 \A n \in DOMAIN rpc.arg : rpc.arg[n].price \in since.prices[rpc.arg[n].product]
          [] rpc.method = "GetProduct" ->
                 \A s \in rpc.shown : s.price \in since.prices[s.product] \ {0}
          [] rpc.method = "UpdateOrderStatus" ->
                 ~Owns /\ \A s \in rpc.shown : protoStatusToDomain(s) \in since.status
          [] rpc.method = "GetOrder" ->
                 (Owns \/ IsAdmin) /\ \A o \in rpc.shown : protoStatusToDomain(o.status) \in since.status
          [] rpc.method = "CancelOrder" -> (Owns \/ IsAdmin) /\ "cancelled" \in since.status
          [] OTHER ->
                 /\ Owns \/ IsAdmin
                 /\ {s.id : s \in rpc.shown} \subseteq refundRows
                 /\ rpc.method = "ListRefunds" => since.refunds \subseteq {s.id : s \in rpc.shown}
=============================================================================
