------------------------------ MODULE Inventory ------------------------------
(***************************************************************************)
(* inventory-service: Reserve, Release and GetStock as they run against    *)
(* PostgreSQL (READ COMMITTED) and Redis, with any number of concurrent    *)
(* requests.                                                               *)
(*                                                                         *)
(* A transaction keeps its writes to itself until it commits; the row      *)
(* locks it takes on the way (rowLock, stockLock) keep every other         *)
(* transaction away from the rows it has read or is going to change.       *)
(* stock, reservations and ledger are the committed tables.                *)
(***************************************************************************)
EXTENDS Integers, Sequences, Functions

CONSTANTS Workers,            \* concurrent requests the service can run
          Orders, Products,
          RequestQuantities,  \* quantities clients ask for, valid or not
          InitialStock,       \* units of every product at the start
          Nobody              \* the holder of a free lock

ASSUME InventoryAssumption ==
    /\ RequestQuantities \subseteq Int
    /\ InitialStock \in [Products -> Nat]
    /\ Nobody \notin Workers

VARIABLES stock, reservations, ledger,   \* committed tables
          rowLock, stockLock,            \* row locks: key or product -> holder
          cache,                         \* Redis: inventory:<product>
          pc, req, snap                  \* per request: where, what, stock read

tables == <<stock, reservations, ledger>>
locks  == <<rowLock, stockLock>>
vars   == <<tables, locks, cache, pc, req, snap>>

PositiveQuantities == {q \in RequestQuantities : q > 0}

Book == INSTANCE StockBook WITH Quantities <- PositiveQuantities

Keys == Orders \X Products
Stock == Book!Stock
Reservation == Book!Reservation
NoReservation == Book!NoReservation

\* Redis holds no value for the key.
NoStock == [available |-> -1, reserved |-> -1]

WriteRequest == [op : {"reserve", "release"}, order : Orders,
                 product : Products, quantity : RequestQuantities]
ReadRequest  == [op : {"get"}, product : Products]
NoRequest    == [op |-> "none"]
Request      == WriteRequest \cup ReadRequest \cup {NoRequest}

\* Where a request is between two statements it sends to PostgreSQL or Redis.
InTx       == {"insert", "select", "stock", "commit", "noop"}
Committed  == {"cacheRead", "cacheSet"}
Reading    == {"get", "fill"}
Control    == {"idle"} \cup InTx \cup Committed \cup Reading

Key(w) == <<req[w].order, req[w].product>>

Init ==
    /\ stock = [p \in Products |-> [available |-> InitialStock[p], reserved |-> 0]]
    /\ reservations = [k \in Keys |-> NoReservation]
    /\ ledger = [k \in Keys |-> <<>>]
    /\ rowLock = [k \in Keys |-> Nobody]
    /\ stockLock = [p \in Products |-> Nobody]
    /\ cache = [p \in Products |-> NoStock]
    /\ pc = [w \in Workers |-> "idle"]
    /\ req = [w \in Workers |-> NoRequest]
    /\ snap = [w \in Workers |-> NoStock]

-----------------------------------------------------------------------------
(* The statements of the repository, as functions of the row they touch. *)

InsertReservation(q) == [quantity |-> q, status |-> "reserved"]

\* Mutant: the row is not marked.
UpdateReservationNothing(row, status) == row

UpdateReservationStatus(row, status) == [row EXCEPT !.status = status]

\* Mutants: UPDATE without its WHERE clause, and one that is off by one.
UncheckedAvailable(s, q) == TRUE
OneTooManyAvailable(s, q) == s.available + 1 >= q

\* UPDATE ... WHERE available >= q, and the value it writes.
EnoughAvailable(s, q) == s.available >= q

UpdateStockForReserve(s, q) ==
    [available |-> s.available - q, reserved |-> s.reserved + q]

\* UPDATE ... WHERE reserved >= q, and the value it writes.
EnoughReserved(s, q) == s.reserved >= q

\* Mutant: the units come back to available and stay in reserved.
UpdateOnlyAvailable(s, q) == [s EXCEPT !.available = @ + q]

UpdateStockForRelease(s, q) ==
    [available |-> s.available + q, reserved |-> s.reserved - q]

InsertLedger(entries, quantityChange) == Append(entries, quantityChange)

(* What reserve() and release() make of the reservation row they lock. *)

\* Mutant: any live reservation of the key answers the retry.
ReserveIsRetryOfAny(row, q) == row.status = "reserved"

\* The row exists already: the retry succeeds only if it asks for the same.
ReserveIsRetry(row, q) == row.status = "reserved" /\ row.quantity = q

ReleaseIsRetry(row, q) == row.status = "released" /\ row.quantity = q

\* Mutant: the status is not looked at, so a release can be repeated.
ReleaseAppliesAgain(row, q) == row.quantity = q

ReleaseApplies(row, q) == row.status = "reserved" /\ row.quantity = q

-----------------------------------------------------------------------------
(* txmanager.Run: begin, roll back on an error, commit otherwise. *)

Goto(w, label) == pc' = [pc EXCEPT ![w] = label]

\* The request is answered, with or without an error, or its process dies.
Return(w) ==
    /\ Goto(w, "idle")
    /\ req' = [req EXCEPT ![w] = NoRequest]
    /\ snap' = [snap EXCEPT ![w] = NoStock]

\* Mutant: SELECT without FOR UPDATE.
LockNoRow(w) == UNCHANGED rowLock

LockRow(w)   == rowLock' = [rowLock EXCEPT ![Key(w)] = w]
LockStock(w) == stockLock' = [stockLock EXCEPT ![req[w].product] = w]

\* Mutant: a path out of the transaction leaves the stock row locked.
ReleaseRowLockOnly(w) ==
    /\ rowLock' = [k \in Keys |-> IF rowLock[k] = w THEN Nobody ELSE rowLock[k]]
    /\ UNCHANGED stockLock

\* The end of the transaction of w, either way, frees the locks it holds.
ReleaseLocks(w) ==
    /\ rowLock' = [k \in Keys |-> IF rowLock[k] = w THEN Nobody ELSE rowLock[k]]
    /\ stockLock' = [p \in Products |->
                       IF stockLock[p] = w THEN Nobody ELSE stockLock[p]]

\* The function returned an error: nothing it wrote is kept.
Rollback(w) ==
    /\ ReleaseLocks(w)
    /\ Return(w)
    /\ UNCHANGED <<tables, cache>>

\* A statement fails, the call times out, or the process dies in mid-transaction.
Fail(w) ==
    /\ pc[w] \in InTx
    /\ Rollback(w)

-----------------------------------------------------------------------------
(* Reserve *)

\* A quantity that is not positive is refused before anything is touched.
Reserve(w, o, p, q) ==
    /\ pc[w] = "idle"
    /\ q > 0
    /\ req' = [req EXCEPT ![w] = [op |-> "reserve", order |-> o,
                                  product |-> p, quantity |-> q]]
    /\ Goto(w, "insert")
    /\ UNCHANGED <<tables, locks, cache, snap>>

\* INSERT ... ON CONFLICT DO NOTHING: an uncommitted insert of the same key
\* makes it wait, a committed row makes it do nothing.
TryInsertReservation(w) ==
    /\ pc[w] = "insert"
    /\ \/ /\ reservations[Key(w)].status # "none"
          /\ Goto(w, "select")
          /\ UNCHANGED rowLock
       \/ /\ reservations[Key(w)].status = "none"
          /\ rowLock[Key(w)] = Nobody
          /\ LockRow(w)
          /\ Goto(w, "stock")
    /\ UNCHANGED <<tables, stockLock, cache, req, snap>>

\* SELECT ... FOR UPDATE of the row the insert ran into.
ReserveExisting(w) ==
    /\ pc[w] = "select"
    /\ req[w].op = "reserve"
    /\ rowLock[Key(w)] = Nobody
    /\ \/ /\ ReserveIsRetry(reservations[Key(w)], req[w].quantity)
          /\ LockRow(w)
          /\ Goto(w, "noop")
          /\ UNCHANGED <<tables, stockLock, cache, req, snap>>
       \/ /\ ~ReserveIsRetry(reservations[Key(w)], req[w].quantity)
          /\ Rollback(w)

\* A row that fails the WHERE clause is skipped without waiting for its lock;
\* one that satisfies it is waited for and tested again.
DeductStock(w) ==
    /\ pc[w] = "stock"
    /\ req[w].op = "reserve"
    /\ \/ /\ EnoughAvailable(stock[req[w].product], req[w].quantity)
          /\ stockLock[req[w].product] = Nobody
          /\ LockStock(w)
          /\ Goto(w, "commit")
          /\ UNCHANGED <<tables, rowLock, cache, req, snap>>
       \/ /\ ~EnoughAvailable(stock[req[w].product], req[w].quantity)
          /\ Rollback(w)

\* The ledger row is written and the transaction commits.  When the answer to
\* COMMIT is lost the caller sees an error, although everything is in place.
CommitReserve(w) ==
    LET p == req[w].product
        q == req[w].quantity
    IN  /\ pc[w] = "commit"
        /\ req[w].op = "reserve"
        /\ reservations' = [reservations EXCEPT ![Key(w)] = InsertReservation(q)]
        /\ stock' = [stock EXCEPT ![p] = UpdateStockForReserve(@, q)]
        /\ ledger' = [ledger EXCEPT ![Key(w)] = InsertLedger(@, -q)]
        /\ ReleaseLocks(w)
        /\ \/ Goto(w, "cacheRead") /\ UNCHANGED <<req, snap>>
           \/ Return(w)
        /\ UNCHANGED cache

-----------------------------------------------------------------------------
(* Release *)

Release(w, o, p, q) ==
    /\ pc[w] = "idle"
    /\ q > 0
    /\ req' = [req EXCEPT ![w] = [op |-> "release", order |-> o,
                                  product |-> p, quantity |-> q]]
    /\ Goto(w, "select")
    /\ UNCHANGED <<tables, locks, cache, snap>>

\* SELECT ... FOR UPDATE sees committed rows only, so it does not wait for an
\* insert in progress: with no row the release is refused.
SelectForRelease(w) ==
    LET row == reservations[Key(w)]
        q   == req[w].quantity
    IN  /\ pc[w] = "select"
        /\ req[w].op = "release"
        /\ \/ /\ row.status = "none"
              /\ Rollback(w)
           \/ /\ row.status # "none"
              /\ rowLock[Key(w)] = Nobody
              /\ \/ /\ ReleaseIsRetry(row, q)
                    /\ LockRow(w)
                    /\ Goto(w, "noop")
                    /\ UNCHANGED <<tables, stockLock, cache, req, snap>>
                 \/ /\ ReleaseApplies(row, q)
                    /\ LockRow(w)
                    /\ Goto(w, "stock")
                    /\ UNCHANGED <<tables, stockLock, cache, req, snap>>
                 \/ /\ ~ReleaseIsRetry(row, q)
                    /\ ~ReleaseApplies(row, q)
                    /\ Rollback(w)

RestoreStock(w) ==
    /\ pc[w] = "stock"
    /\ req[w].op = "release"
    /\ \/ /\ EnoughReserved(stock[req[w].product], req[w].quantity)
          /\ stockLock[req[w].product] = Nobody
          /\ LockStock(w)
          /\ Goto(w, "commit")
          /\ UNCHANGED <<tables, rowLock, cache, req, snap>>
       \/ /\ ~EnoughReserved(stock[req[w].product], req[w].quantity)
          /\ Rollback(w)

CommitRelease(w) ==
    LET p == req[w].product
        q == req[w].quantity
    IN  /\ pc[w] = "commit"
        /\ req[w].op = "release"
        /\ reservations' = [reservations EXCEPT
                              ![Key(w)] = UpdateReservationStatus(@, "released")]
        /\ stock' = [stock EXCEPT ![p] = UpdateStockForRelease(@, q)]
        /\ ledger' = [ledger EXCEPT ![Key(w)] = InsertLedger(@, q)]
        /\ ReleaseLocks(w)
        /\ \/ Goto(w, "cacheRead") /\ UNCHANGED <<req, snap>>
           \/ Return(w)
        /\ UNCHANGED cache

\* An idempotent retry commits a transaction that wrote nothing.
CommitNothing(w) ==
    /\ pc[w] = "noop"
    /\ ReleaseLocks(w)
    /\ Goto(w, "cacheRead")
    /\ UNCHANGED <<tables, cache, req, snap>>

-----------------------------------------------------------------------------
(* After the commit: writeStockToCache reads the stock again, outside any    *)
(* transaction, and sets the key in a later step; every error is ignored.    *)
(* publishInventoryEvent reads once more and sends the result to Redis       *)
(* subscribers, which keeps no state of the service.                         *)

WriteStockToCacheRead(w) ==
    /\ pc[w] = "cacheRead"
    /\ \/ /\ snap' = [snap EXCEPT ![w] = stock[req[w].product]]
          /\ Goto(w, "cacheSet")
          /\ UNCHANGED req
       \/ Return(w)                        \* the read failed
    /\ UNCHANGED <<tables, locks, cache>>

WriteStockToCacheSet(w) ==
    /\ pc[w] = "cacheSet"
    /\ \/ cache' = [cache EXCEPT ![req[w].product] = snap[w]]
       \/ UNCHANGED cache                  \* Redis is unavailable
    /\ Return(w)
    /\ UNCHANGED <<tables, locks>>

\* The process dies after the commit and before the rest is done.
Crash(w) ==
    /\ pc[w] \in Committed \cup Reading
    /\ Return(w)
    /\ UNCHANGED <<tables, locks, cache>>

-----------------------------------------------------------------------------
(* GetStock: a cache hit is returned as it is; a miss, or Redis being down,  *)
(* reads the table and fills the cache in a later step.                      *)

GetStock(w, p) ==
    /\ pc[w] = "idle"
    /\ req' = [req EXCEPT ![w] = [op |-> "get", product |-> p]]
    /\ Goto(w, "get")
    /\ UNCHANGED <<tables, locks, cache, snap>>

GetStockFromCache(w) ==
    /\ pc[w] = "get"
    /\ cache[req[w].product] # NoStock
    /\ Return(w)
    /\ UNCHANGED <<tables, locks, cache>>

GetStockFromTable(w) ==
    /\ pc[w] = "get"
    /\ snap' = [snap EXCEPT ![w] = stock[req[w].product]]
    /\ Goto(w, "fill")
    /\ UNCHANGED <<tables, locks, cache, req>>

GetStockFill(w) ==
    /\ pc[w] = "fill"
    /\ \/ cache' = [cache EXCEPT ![req[w].product] = snap[w]]
       \/ UNCHANGED cache
    /\ Return(w)
    /\ UNCHANGED <<tables, locks>>

\* Every cached value is written with a time to live.
Expire(p) ==
    /\ cache[p] # NoStock
    /\ cache' = [cache EXCEPT ![p] = NoStock]
    /\ UNCHANGED <<tables, locks, pc, req, snap>>

-----------------------------------------------------------------------------
Call(w) ==
    \E p \in Products :
        \/ \E o \in Orders, q \in RequestQuantities :
              Reserve(w, o, p, q) \/ Release(w, o, p, q)
        \/ GetStock(w, p)

\* What a request does by itself, once called.
Proceed(w) ==
    \/ TryInsertReservation(w) \/ ReserveExisting(w)
    \/ DeductStock(w) \/ CommitReserve(w)
    \/ SelectForRelease(w) \/ RestoreStock(w) \/ CommitRelease(w)
    \/ CommitNothing(w)
    \/ WriteStockToCacheRead(w) \/ WriteStockToCacheSet(w)
    \/ GetStockFromCache(w) \/ GetStockFromTable(w) \/ GetStockFill(w)

Next ==
    \/ \E w \in Workers : Call(w) \/ Proceed(w) \/ Fail(w) \/ Crash(w)
    \/ \E p \in Products : Expire(p)

Spec == Init /\ [][Next]_vars

\* A request keeps running; PostgreSQL hands a row lock to its waiters in turn,
\* so one that can be granted again and again is granted.
Fairness == \A w \in Workers : SF_vars(Proceed(w))

FairSpec == Spec /\ Fairness

-----------------------------------------------------------------------------
(* Invariants *)

\* Every variable keeps its type: counters are naturals, so no stock column
\* ever goes below zero.
TypeOK ==
    /\ stock \in [Products -> Stock]
    /\ reservations \in [Keys -> Reservation]
    /\ ledger \in [Keys -> Seq(Int)]
    /\ rowLock \in [Keys -> Workers \cup {Nobody}]
    /\ stockLock \in [Products -> Workers \cup {Nobody}]
    /\ cache \in [Products -> Stock \cup {NoStock}]
    /\ pc \in [Workers -> Control]
    /\ req \in [Workers -> Request]
    /\ snap \in [Workers -> Stock \cup {NoStock}]

Conserved(p, s) == s.available + s.reserved = InitialStock[p]

\* No interleaving of reserve and release transactions creates or destroys a
\* unit: the two columns of inventory add up to what was on the shelf, in the
\* table and in every copy of it that Redis or a request holds.
StockConserved ==
    /\ \A p \in Products : Conserved(p, stock[p])
    /\ \A p \in Products : cache[p] # NoStock => Conserved(p, cache[p])
    /\ \A w \in Workers : pc[w] \in {"cacheSet", "fill"} =>
          Conserved(req[w].product, snap[w])

\* The ledger tells the story of every reservation, whatever calls were retried,
\* failed half-way or ran at the same time: no entry without a row, one
\* deduction for a reserved row, and the same quantity back for a released one.
LedgerMatchesReservations ==
    \A k \in Keys :
        LET row == reservations[k] IN
        /\ row.status = "none"     => ledger[k] = <<>>
        /\ row.status = "reserved" => ledger[k] = <<-row.quantity>>
        /\ row.status = "released" => ledger[k] = <<-row.quantity, row.quantity>>

\* A call that returns nil did what it was asked to: a successful Reserve has a
\* row with its quantity (another call may have released it since), a
\* successful Release a released one.
AnsweredMeansApplied ==
    \A w \in Workers : pc[w] \in Committed =>
        LET row == reservations[Key(w)] IN
        /\ row.quantity = req[w].quantity
        /\ row.status \in IF req[w].op = "reserve" THEN {"reserved", "released"}
                                                   ELSE {"released"}

\* The reservations of p that are still live.
Live(p) == {k \in Keys : k[2] = p /\ reservations[k].status = "reserved"}

\* The reserved column is the sum of the quantities of the rows that are still
\* reserved, so a release never finds too little to give back.
ReservedIsSumOfReservations ==
    \A p \in Products :
        stock[p].reserved =
            SumFunctionOnSet([k \in Keys |-> reservations[k].quantity], Live(p))

(* What makes the invariants above inductive. *)

\* A request in a transaction, or past its commit, is a valid write request.
RequestFits(w) ==
    /\ pc[w] \in InTx \cup Committed => req[w] \in WriteRequest /\ req[w].quantity > 0
    /\ pc[w] = "insert" => req[w].op = "reserve"
    /\ pc[w] \in Reading => req[w] \in ReadRequest
    /\ pc[w] \in {"cacheSet", "fill"} => snap[w] \in Stock

\* The locks a transaction holds follow from where it is.
HoldsItsLocks(w) ==
    /\ pc[w] \in {"stock", "commit", "noop"} => rowLock[Key(w)] = w
    /\ pc[w] = "commit" => stockLock[req[w].product] = w

\* What it read from the rows it has locked is still what they hold.
RowsAsRead(w) ==
    LET q   == req[w].quantity
        row == reservations[Key(w)]
    IN  /\ pc[w] \in {"stock", "commit"} =>
              IF req[w].op = "reserve" THEN row.status = "none"
                                       ELSE ReleaseApplies(row, q)
        /\ pc[w] = "commit" =>
              IF req[w].op = "reserve" THEN EnoughAvailable(stock[req[w].product], q)
                                       ELSE EnoughReserved(stock[req[w].product], q)
        /\ pc[w] = "noop" =>
              IF req[w].op = "reserve" THEN ReserveIsRetry(row, q)
                                       ELSE ReleaseIsRetry(row, q)

\* While a transaction holds a row, no other changes what it has read from it:
\* the checks reserve() and release() make are still true when they commit.
LocksProtect ==
    \A w \in Workers : RequestFits(w) /\ HoldsItsLocks(w) /\ RowsAsRead(w)

(* Action and temporal properties *)

\* A reservation row is inserted once, released once and never changes its
\* quantity after that; a released key is never reserved again.
ReservationLifecycle ==
    [][\A k \in Keys :
          LET old == reservations[k]
              new == reservations'[k]
          IN  \/ new = old
              \/ old.status = "none" /\ new.status = "reserved"
              \/ old.status = "reserved" /\ new.status = "released"
                    /\ new.quantity = old.quantity]_vars

\* The service implements the abstract book: each commit is one atomic Reserve
\* or Release and every other step leaves the committed tables alone.
ImplementsStockBook == Book!BookSpec

\* No request waits for a lock for ever: reserve and release take their locks
\* in the same order and give them up on every path out.
EveryRequestReturns == \A w \in Workers : []<>(pc[w] = "idle")
=============================================================================
