--------------------------- MODULE InventoryProofs ---------------------------
(***************************************************************************)
(* The theorems about Inventory.tla, for any numbers of requests, orders   *)
(* and products: the invariants, the life cycle of a reservation, and that *)
(* the service implements StockBook.  First the inductive invariant, what  *)
(* one step leaves to the other requests, and the statements of a          *)
(* transaction; then the two steps that change the tables; last, that the  *)
(* reserved column is the sum over the live reservations.                  *)
(***************************************************************************)
EXTENDS Inventory, SequenceTheorems, FiniteSetTheorems, WellFoundedInduction, TLAPS

IndInv ==
    /\ TypeOK
    /\ LocksProtect
    /\ StockConserved
    /\ LedgerMatchesReservations
    /\ AnsweredMeansApplied

-----------------------------------------------------------------------------
(* What a step of w leaves to the others. *)

OthersUnchanged(w) ==
    \A v \in Workers \ {w} :
        pc'[v] = pc[v] /\ req'[v] = req[v] /\ snap'[v] = snap[v]

OthersKeepTheirLocks(w) ==
    \A v \in Workers \ {w} :
        /\ \A k \in Keys : rowLock[k] = v => rowLock'[k] = v
        /\ \A p \in Products : stockLock[p] = v => stockLock'[p] = v

OthersKeepTheirRows(w) ==
    \A v \in Workers \ {w} :
        /\ \A k \in Keys : rowLock[k] = v => reservations'[k] = reservations[k]
        /\ \A p \in Products : stockLock[p] = v => stock'[p] = stock[p]

\* The life cycle of a reservation row, as one step sees it.
RowAdvances(k) ==
    \/ reservations'[k] = reservations[k]
    \/ reservations[k].status = "none" /\ reservations'[k].status = "reserved"
    \/ /\ reservations[k].status = "reserved"
       /\ reservations'[k].status = "released"
       /\ reservations'[k].quantity = reservations[k].quantity

Answered(w) ==
    pc[w] \in Committed =>
        /\ reservations[Key(w)].quantity = req[w].quantity
        /\ reservations[Key(w)].status \in
              IF req[w].op = "reserve" THEN {"reserved", "released"} ELSE {"released"}

\* A request that writes to the cache carries a conserved snapshot.
SnapConserved(w) ==
    pc[w] \in {"cacheSet", "fill"} => Conserved(req[w].product, snap[w])

\* A second ledger entry after the first.
LEMMA AppendToOne ==
    ASSUME NEW a \in Int, NEW b \in Int PROVE Append(<<a>>, b) = <<a, b>>
<1> DEFINE s == Append(<<a>>, b)
           t == <<a, b>>
<1>1. <<a>> \in Seq(Int) /\ Len(<<a>>) = 1
  OBVIOUS
<1>2. s \in Seq(Int) /\ Len(s) = 2 /\ s[1] = a /\ s[2] = b
  BY <1>1
<1>3. t \in Seq(Int) /\ Len(t) = 2 /\ t[1] = a /\ t[2] = b
  OBVIOUS
<1> HIDE DEF s, t
<1>4. \A i \in 1 .. 2 : i = 1 \/ i = 2
  OBVIOUS
<1>5. \A i \in 1 .. Len(s) : s[i] = t[i]
  BY <1>2, <1>3, <1>4, Zenon
<1>6. s = t
  BY <1>2, <1>3, <1>5, SeqEqual, Zenon
<1> QED
  BY <1>6, Zenon DEF s, t

\* The key of a write request is a key of the tables.
LEMMA KeyFacts ==
    ASSUME NEW w \in Workers, req[w] \in WriteRequest
    PROVE  /\ Key(w) \in Keys
           /\ Key(w) = <<req[w].order, req[w].product>>
           /\ req[w].product \in Products
           /\ req[w].quantity \in RequestQuantities
           /\ req[w].op \in {"reserve", "release"}
  BY Zenon DEF Key, Keys, WriteRequest

\* Freeing the locks of w frees no lock of another request.
LEMMA ReleaseLocksFacts ==
    ASSUME TypeOK, NEW w \in Workers, ReleaseLocks(w)
    PROVE  /\ rowLock' \in [Keys -> Workers \cup {Nobody}]
           /\ stockLock' \in [Products -> Workers \cup {Nobody}]
           /\ OthersKeepTheirLocks(w)
  BY DEF TypeOK, ReleaseLocks, OthersKeepTheirLocks

\* What Goto leaves alone: every other request stays where it was.
LEMMA GotoFacts ==
    ASSUME TypeOK, NEW w \in Workers, NEW label \in Control, Goto(w, label)
    PROVE  /\ pc' \in [Workers -> Control]
           /\ pc'[w] = label
           /\ \A v \in Workers \ {w} : pc'[v] = pc[v]
  BY Zenon DEF TypeOK, Goto

\* A request that returns is idle and holds nothing.
LEMMA ReturnFacts ==
    ASSUME TypeOK, NEW w \in Workers, Return(w)
    PROVE  /\ pc' \in [Workers -> Control]
           /\ req' \in [Workers -> Request]
           /\ snap' \in [Workers -> Stock \cup {NoStock}]
           /\ pc'[w] = "idle"
           /\ OthersUnchanged(w)
<1>1. "idle" \in Control /\ NoRequest \in Request
  BY Zenon DEF Control, Request
<1> QED
  BY <1>1, Zenon DEF TypeOK, Return, Goto, OthersUnchanged

\* LockRow gives the request the row lock of its key and no other.
LEMMA LockRowFacts ==
    ASSUME TypeOK, NEW w \in Workers, req[w] \in WriteRequest,
           rowLock[Key(w)] = Nobody, LockRow(w), UNCHANGED stockLock
    PROVE  /\ rowLock' \in [Keys -> Workers \cup {Nobody}]
           /\ rowLock'[Key(w)] = w
           /\ OthersKeepTheirLocks(w)
<1>1. Key(w) \in Keys
  BY KeyFacts, Zenon
<1> QED
  BY <1>1, InventoryAssumption, Zenon DEF TypeOK, LockRow, OthersKeepTheirLocks

\* LockStock gives the request the stock row of its product and no other.
LEMMA LockStockFacts ==
    ASSUME TypeOK, NEW w \in Workers, req[w] \in WriteRequest,
           stockLock[req[w].product] = Nobody, LockStock(w), UNCHANGED rowLock
    PROVE  /\ stockLock' \in [Products -> Workers \cup {Nobody}]
           /\ stockLock'[req[w].product] = w
           /\ OthersKeepTheirLocks(w)
<1>1. req[w].product \in Products
  BY KeyFacts, Zenon
<1> QED
  BY <1>1, InventoryAssumption, ZenonT(30) DEF TypeOK, LockStock, OthersKeepTheirLocks

\* A step of w that respects the locks of the others keeps what they rely on.
LEMMA OthersKeepInv ==
    ASSUME IndInv, NEW w \in Workers, NEW v \in Workers \ {w},
           OthersUnchanged(w), OthersKeepTheirLocks(w), OthersKeepTheirRows(w),
           \A k \in Keys : RowAdvances(k)
    PROVE  /\ RequestFits(v)' /\ HoldsItsLocks(v)' /\ RowsAsRead(v)'
           /\ Answered(v)'
           /\ SnapConserved(v)'
<1>1. pc'[v] = pc[v] /\ req'[v] = req[v] /\ snap'[v] = snap[v] /\ Key(v)' = Key(v)
  BY Zenon DEF OthersUnchanged, Key
<1>2. RequestFits(v) /\ HoldsItsLocks(v) /\ RowsAsRead(v) /\ Answered(v) /\ SnapConserved(v)
  BY Zenon DEF IndInv, LocksProtect, AnsweredMeansApplied, Answered, StockConserved, SnapConserved
<1>3. RequestFits(v)'
  BY <1>1, <1>2, Zenon DEF RequestFits
<1>4. pc[v] \in InTx \cup Committed =>
         Key(v) \in Keys /\ req[v].product \in Products
  BY <1>2, KeyFacts, Zenon DEF RequestFits
<1>5. HoldsItsLocks(v)'
  BY <1>1, <1>2, <1>4, ZenonT(30) DEF HoldsItsLocks, OthersKeepTheirLocks, InTx
<1>6. /\ pc[v] \in {"stock", "commit", "noop"} => reservations'[Key(v)] = reservations[Key(v)]
      /\ pc[v] = "commit" => stock'[req[v].product] = stock[req[v].product]
  BY <1>2, <1>4, Zenon DEF HoldsItsLocks, OthersKeepTheirRows, InTx
<1>7. RowsAsRead(v)'
  BY <1>1, <1>2, <1>6, Zenon DEF RowsAsRead, ReleaseApplies, ReleaseIsRetry, ReserveIsRetry,
                          EnoughAvailable, EnoughReserved
<1>8. Answered(v)'
  BY <1>1, <1>2, <1>4, ZenonT(30) DEF Answered, RowAdvances
<1>9. SnapConserved(v)'
  BY <1>1, <1>2, Zenon DEF SnapConserved, Conserved
<1> QED
  BY <1>3, <1>5, <1>7, <1>8, <1>9, Zenon
\* What w itself has to re-establish after a step of its own.
OwnInv(w) ==
    /\ RequestFits(w) /\ HoldsItsLocks(w) /\ RowsAsRead(w)
    /\ Answered(w)
    /\ SnapConserved(w)

CacheConserved == \A p \in Products : cache[p] # NoStock => Conserved(p, cache[p])

TablesConserved == \A p \in Products : Conserved(p, stock[p])

\* The invariant after a step of w, from what the step does to w, to the others
\* and to the tables.
LEMMA StepKeepsInv ==
    ASSUME IndInv, NEW w \in Workers,
           OthersUnchanged(w), OthersKeepTheirLocks(w), OthersKeepTheirRows(w),
           \A k \in Keys : RowAdvances(k),
           TypeOK', OwnInv(w)', CacheConserved', TablesConserved',
           LedgerMatchesReservations'
    PROVE  IndInv'
<1>1. \A v \in Workers \ {w} : OwnInv(v)'
  BY OthersKeepInv, Zenon DEF OwnInv
<1>2. \A v \in Workers : OwnInv(v)'
  BY <1>1, Zenon
<1>3. LocksProtect'
  BY <1>2, Zenon DEF LocksProtect, OwnInv
<1>4. StockConserved'
  BY <1>2, Zenon DEF StockConserved, CacheConserved, TablesConserved, OwnInv, SnapConserved
<1>5. AnsweredMeansApplied'
  BY <1>2, Zenon DEF AnsweredMeansApplied, OwnInv, Answered
<1> QED
  BY <1>3, <1>4, <1>5, Zenon DEF IndInv

\* A step that leaves the tables and the cache alone.
LEMMA QuietStep ==
    ASSUME IndInv, NEW w \in Workers, UNCHANGED <<tables, cache>>,
           OthersUnchanged(w), OthersKeepTheirLocks(w),
           rowLock' \in [Keys -> Workers \cup {Nobody}],
           stockLock' \in [Products -> Workers \cup {Nobody}],
           pc' \in [Workers -> Control],
           req' \in [Workers -> Request],
           snap' \in [Workers -> Stock \cup {NoStock}],
           OwnInv(w)'
    PROVE  IndInv'
<1>1. /\ stock' = stock /\ reservations' = reservations /\ ledger' = ledger
      /\ cache' = cache
  BY Zenon DEF tables
<1>2. TypeOK'
  BY <1>1, Zenon DEF IndInv, TypeOK
<1>3. OthersKeepTheirRows(w) /\ \A k \in Keys : RowAdvances(k)
  BY <1>1, Zenon DEF OthersKeepTheirRows, RowAdvances
<1>4. CacheConserved' /\ TablesConserved'
  BY <1>1, Zenon DEF IndInv, StockConserved, CacheConserved, TablesConserved, Conserved
<1>5. LedgerMatchesReservations'
  BY <1>1, Zenon DEF IndInv, LedgerMatchesReservations
<1> QED
  BY <1>2, <1>3, <1>4, <1>5, StepKeepsInv, Zenon

\* An idle request has nothing to maintain.
LEMMA IdleOwnInv ==
    ASSUME NEW w \in Workers, pc'[w] = "idle" PROVE OwnInv(w)'
  BY Zenon DEF OwnInv, RequestFits, HoldsItsLocks, RowsAsRead, Answered, SnapConserved,
         InTx, Committed, Reading

\* An error inside reserve() or release() writes nothing and frees the locks.
LEMMA RollbackInv ==
    ASSUME IndInv, NEW w \in Workers, Rollback(w) PROVE IndInv'
<1>1. TypeOK /\ Return(w) /\ ReleaseLocks(w) /\ UNCHANGED <<tables, cache>>
  BY Zenon DEF IndInv, Rollback
<1> QED
  BY <1>1, ReturnFacts, ReleaseLocksFacts, IdleOwnInv, QuietStep, Zenon

\* A failed statement, a timeout or a death in mid-transaction preserves the invariant.
LEMMA FailInv ==
    ASSUME IndInv, NEW w \in Workers, Fail(w) PROVE IndInv'
  BY RollbackInv, Zenon DEF Fail

\* A death after the commit preserves the invariant.
LEMMA CrashInv ==
    ASSUME IndInv, NEW w \in Workers, Crash(w) PROVE IndInv'
<1>1. /\ TypeOK /\ Return(w) /\ UNCHANGED <<tables, cache>>
      /\ rowLock' = rowLock /\ stockLock' = stockLock
  BY Zenon DEF IndInv, Crash, locks
<1>2. OthersKeepTheirLocks(w)
  BY <1>1, Zenon DEF OthersKeepTheirLocks
<1> QED
  BY <1>1, <1>2, ReturnFacts, IdleOwnInv, QuietStep, Zenon DEF TypeOK

\* A new call: a valid request that holds nothing yet.
LEMMA StartInv ==
    ASSUME IndInv, NEW w \in Workers, NEW r \in Request,
           NEW label \in {"insert", "select", "get"},
           label = "insert" => r.op = "reserve",
           label \in {"insert", "select"} => r \in WriteRequest /\ r.quantity > 0,
           label = "get" => r \in ReadRequest,
           Goto(w, label), req' = [req EXCEPT ![w] = r],
           UNCHANGED <<tables, locks, cache, snap>>
    PROVE  IndInv'
<1>1. /\ TypeOK /\ UNCHANGED <<tables, cache>> /\ rowLock' = rowLock /\ stockLock' = stockLock
      /\ snap' = snap
  BY Zenon DEF IndInv, locks
<1>2. label \in Control
  BY Zenon DEF Control, InTx, Reading
<1>3. /\ req' \in [Workers -> Request] /\ req'[w] = r
      /\ \A v \in Workers \ {w} : req'[v] = req[v]
  BY <1>1, Zenon DEF TypeOK
<1>4. OthersUnchanged(w) /\ OthersKeepTheirLocks(w)
  BY <1>1, <1>2, <1>3, GotoFacts, Zenon DEF OthersUnchanged, OthersKeepTheirLocks
<1>5. OwnInv(w)'
  <2>1. pc'[w] = label
    BY <1>1, <1>2, GotoFacts, Zenon
  <2>2. RequestFits(w)'
    BY <1>3, <2>1, Zenon DEF RequestFits, InTx, Committed, Reading
  <2>3. HoldsItsLocks(w)' /\ RowsAsRead(w)'
    BY <2>1, Zenon DEF HoldsItsLocks, RowsAsRead
  <2>4. Answered(w)' /\ SnapConserved(w)'
    BY <2>1, Zenon DEF Answered, SnapConserved, Committed
  <2> QED
    BY <2>2, <2>3, <2>4, Zenon DEF OwnInv
<1>6. /\ rowLock' \in [Keys -> Workers \cup {Nobody}]
      /\ stockLock' \in [Products -> Workers \cup {Nobody}]
      /\ pc' \in [Workers -> Control] /\ req' \in [Workers -> Request]
      /\ snap' \in [Workers -> Stock \cup {NoStock}]
  BY <1>1, <1>2, <1>3, GotoFacts, Zenon DEF TypeOK
<1> QED
  BY <1>1, <1>4, <1>5, <1>6, QuietStep, Zenon

\* A new Reserve, Release or GetStock call preserves the invariant.
LEMMA CallInv ==
    ASSUME IndInv, NEW w \in Workers, Call(w) PROVE IndInv'
<1>1. ASSUME NEW o \in Orders, NEW p \in Products, NEW q \in RequestQuantities,
             Reserve(w, o, p, q)
      PROVE  IndInv'
  <2> DEFINE r == [op |-> "reserve", order |-> o, product |-> p, quantity |-> q]
  <2>1. r \in WriteRequest /\ r \in Request /\ r.op = "reserve" /\ r.quantity > 0
    BY <1>1, Zenon DEF WriteRequest, Request, Reserve
  <2>2. /\ Goto(w, "insert") /\ req' = [req EXCEPT ![w] = r]
        /\ UNCHANGED <<tables, locks, cache, snap>>
    BY <1>1, Zenon DEF Reserve
  <2> QED
    BY <2>1, <2>2, StartInv, Zenon
<1>2. ASSUME NEW o \in Orders, NEW p \in Products, NEW q \in RequestQuantities,
             Release(w, o, p, q)
      PROVE  IndInv'
  <2> DEFINE r == [op |-> "release", order |-> o, product |-> p, quantity |-> q]
  <2>1. r \in WriteRequest /\ r \in Request /\ r.quantity > 0
    BY <1>2, Zenon DEF WriteRequest, Request, Release
  <2>2. /\ Goto(w, "select") /\ req' = [req EXCEPT ![w] = r]
        /\ UNCHANGED <<tables, locks, cache, snap>>
    BY <1>2, Zenon DEF Release
  <2> QED
    BY <2>1, <2>2, StartInv, Zenon
<1>3. ASSUME NEW p \in Products, GetStock(w, p) PROVE IndInv'
  <2> DEFINE r == [op |-> "get", product |-> p]
  <2>1. r \in ReadRequest /\ r \in Request
    BY Zenon DEF ReadRequest, Request
  <2>2. /\ Goto(w, "get") /\ req' = [req EXCEPT ![w] = r]
        /\ UNCHANGED <<tables, locks, cache, snap>>
    BY <1>3, Zenon DEF GetStock
  <2> QED
    BY <2>1, <2>2, StartInv, Zenon
<1> QED
  BY <1>1, <1>2, <1>3, Zenon DEF Call

------------------------------------------------------------------------------
(* The statements of a transaction. *)

\* A statement of a transaction that has only locks to show for it.
LEMMA StatementInv ==
    ASSUME IndInv, NEW w \in Workers, NEW label \in Control, Goto(w, label),
           UNCHANGED <<tables, cache, req, snap>>,
           rowLock' \in [Keys -> Workers \cup {Nobody}],
           stockLock' \in [Products -> Workers \cup {Nobody}],
           OthersKeepTheirLocks(w), OwnInv(w)'
    PROVE  IndInv'
<1>1. OthersUnchanged(w)
  BY GotoFacts, Zenon DEF IndInv, OthersUnchanged
<1> QED
  BY <1>1, GotoFacts, QuietStep, Zenon DEF IndInv, TypeOK

\* INSERT ... ON CONFLICT DO NOTHING preserves the invariant.
LEMMA TryInsertReservationInv ==
    ASSUME IndInv, NEW w \in Workers, TryInsertReservation(w) PROVE IndInv'
<1> USE DEF TryInsertReservation
<1>1. /\ TypeOK /\ RequestFits(w) /\ pc[w] = "insert" /\ req' = req /\ snap' = snap
      /\ stockLock' = stockLock /\ reservations' = reservations /\ stock' = stock
      /\ Key(w)' = Key(w)
  BY Zenon DEF IndInv, LocksProtect, tables, Key
<1>2. req[w] \in WriteRequest /\ req[w].quantity > 0 /\ req[w].op = "reserve"
  BY <1>1, Zenon DEF RequestFits, InTx
<1>3. CASE reservations[Key(w)].status # "none"
  <2>1. Goto(w, "select") /\ rowLock' = rowLock /\ "select" \in Control
    BY <1>3, Zenon DEF Control, InTx
  <2>2. OthersKeepTheirLocks(w)
    BY <1>1, <2>1, Zenon DEF OthersKeepTheirLocks
  <2>3. OwnInv(w)'
    BY <1>1, <1>2, <2>1, GotoFacts, Zenon DEF OwnInv, RequestFits, HoldsItsLocks, RowsAsRead,
       Answered, SnapConserved, InTx, Committed, Reading
  <2> QED
    BY <1>1, <2>1, <2>2, <2>3, StatementInv, Zenon DEF TypeOK
<1>4. CASE reservations[Key(w)].status = "none"
  <2>1. /\ Goto(w, "stock") /\ rowLock[Key(w)] = Nobody /\ LockRow(w)
        /\ "stock" \in Control
    BY <1>4, Zenon DEF Control, InTx
  <2>2. OwnInv(w)'
    BY <1>1, <1>2, <1>4, <2>1, GotoFacts, LockRowFacts, ZenonT(30) DEF OwnInv, RequestFits,
       HoldsItsLocks, RowsAsRead, Answered, SnapConserved, InTx, Committed, Reading
  <2> QED
    BY <1>1, <1>2, <2>1, <2>2, LockRowFacts, StatementInv, Zenon DEF TypeOK
<1> QED
  BY <1>3, <1>4, Zenon
\* The retry path of reserve() preserves the invariant.
LEMMA ReserveExistingInv ==
    ASSUME IndInv, NEW w \in Workers, ReserveExisting(w) PROVE IndInv'
<1> USE DEF ReserveExisting
<1>1. CASE Rollback(w)
  BY <1>1, RollbackInv, Zenon
<1>2. CASE ~Rollback(w)
  <2>1. /\ TypeOK /\ RequestFits(w) /\ pc[w] = "select" /\ req[w].op = "reserve"
        /\ ReserveIsRetry(reservations[Key(w)], req[w].quantity)
        /\ rowLock[Key(w)] = Nobody /\ LockRow(w) /\ Goto(w, "noop")
        /\ UNCHANGED <<tables, stockLock, cache, req, snap>>
    BY <1>2, Zenon DEF IndInv, LocksProtect
  <2>2. /\ req[w] \in WriteRequest /\ req[w].quantity > 0 /\ "noop" \in Control
        /\ reservations' = reservations /\ Key(w)' = Key(w)
    BY <2>1, Zenon DEF RequestFits, InTx, Control, tables, Key
  <2>3. OwnInv(w)'
    BY <2>1, <2>2, GotoFacts, LockRowFacts, Zenon DEF OwnInv, RequestFits,
       HoldsItsLocks, RowsAsRead, Answered, SnapConserved, InTx, Committed, Reading, ReserveIsRetry
  <2> QED
    BY <2>1, <2>2, <2>3, LockRowFacts, StatementInv, Zenon DEF TypeOK
<1> QED
  BY <1>1, <1>2, Zenon

\* The checks at the start of release() preserve the invariant.
LEMMA SelectForReleaseInv ==
    ASSUME IndInv, NEW w \in Workers, SelectForRelease(w) PROVE IndInv'
<1> USE DEF SelectForRelease
<1>1. CASE Rollback(w)
  BY <1>1, RollbackInv, Zenon
<1>2. CASE ~Rollback(w)
  <2>1. PICK label \in {"noop", "stock"} :
          /\ label = "noop" => ReleaseIsRetry(reservations[Key(w)], req[w].quantity)
          /\ label = "stock" => ReleaseApplies(reservations[Key(w)], req[w].quantity)
          /\ rowLock[Key(w)] = Nobody /\ LockRow(w) /\ Goto(w, label)
          /\ UNCHANGED <<tables, stockLock, cache, req, snap>>
    BY <1>2, Zenon
  <2>2. TypeOK /\ RequestFits(w) /\ pc[w] = "select" /\ req[w].op = "release"
    BY Zenon DEF IndInv, LocksProtect
  <2>3. /\ req[w] \in WriteRequest /\ req[w].quantity > 0 /\ label \in Control
        /\ reservations' = reservations /\ Key(w)' = Key(w)
    BY <2>1, <2>2, Zenon DEF RequestFits, InTx, Control, tables, Key
  <2>4. OwnInv(w)'
    BY <2>1, <2>2, <2>3, GotoFacts, LockRowFacts, Zenon DEF OwnInv, RequestFits,
       HoldsItsLocks, RowsAsRead, Answered, SnapConserved, InTx, Committed, Reading,
       ReleaseIsRetry, ReleaseApplies
  <2> QED
    BY <2>1, <2>2, <2>3, <2>4, LockRowFacts, StatementInv, Zenon DEF TypeOK
<1> QED
  BY <1>1, <1>2, Zenon

\* The row stays as it was read, the stock row is locked and passes the test.
LEMMA StockStatementInv ==
    ASSUME IndInv, NEW w \in Workers, pc[w] = "stock",
           IF req[w].op = "reserve"
             THEN EnoughAvailable(stock[req[w].product], req[w].quantity)
             ELSE EnoughReserved(stock[req[w].product], req[w].quantity),
           stockLock[req[w].product] = Nobody, LockStock(w), Goto(w, "commit"),
           UNCHANGED <<tables, rowLock, cache, req, snap>>
    PROVE  IndInv'
<1>1. TypeOK /\ RequestFits(w) /\ HoldsItsLocks(w) /\ RowsAsRead(w)
  BY Zenon DEF IndInv, LocksProtect
<1>2. /\ req[w] \in WriteRequest /\ req[w].quantity > 0 /\ "commit" \in Control
      /\ reservations' = reservations /\ stock' = stock /\ Key(w)' = Key(w)
  BY <1>1, Zenon DEF RequestFits, InTx, Control, tables, Key
<1>3. OwnInv(w)'
  <2>1. pc'[w] = "commit" /\ rowLock' = rowLock /\ req' = req
    BY <1>1, <1>2, GotoFacts, Zenon
  <2>2. RequestFits(w)' /\ Answered(w)' /\ SnapConserved(w)'
    BY <1>2, <2>1, Zenon DEF RequestFits, Answered, SnapConserved, Committed, Reading
  <2>3. HoldsItsLocks(w)'
    BY <1>1, <1>2, <2>1, LockStockFacts, Zenon DEF HoldsItsLocks
  <2>4. RowsAsRead(w)'
    BY <1>1, <1>2, <2>1, Zenon DEF RowsAsRead, ReleaseApplies, EnoughAvailable, EnoughReserved
  <2> QED
    BY <2>2, <2>3, <2>4, Zenon DEF OwnInv
<1> QED
  BY <1>1, <1>2, <1>3, LockStockFacts, StatementInv, Zenon DEF TypeOK

\* UpdateStockForReserve, still uncommitted, preserves the invariant.
LEMMA DeductStockInv ==
    ASSUME IndInv, NEW w \in Workers, DeductStock(w) PROVE IndInv'
  BY RollbackInv, StockStatementInv, Zenon DEF DeductStock

\* UpdateStockForRelease, still uncommitted, preserves the invariant.
LEMMA RestoreStockInv ==
    ASSUME IndInv, NEW w \in Workers, RestoreStock(w) PROVE IndInv'
  BY RollbackInv, StockStatementInv, Zenon DEF RestoreStock

\* The commit of an idempotent retry preserves the invariant.
LEMMA CommitNothingInv ==
    ASSUME IndInv, NEW w \in Workers, CommitNothing(w) PROVE IndInv'
<1> USE DEF CommitNothing
<1>1. TypeOK /\ RequestFits(w) /\ RowsAsRead(w) /\ pc[w] = "noop"
  BY Zenon DEF IndInv, LocksProtect
<1>2. /\ req[w] \in WriteRequest /\ req[w].quantity > 0 /\ "cacheRead" \in Control
      /\ reservations' = reservations /\ Key(w)' = Key(w)
  BY <1>1, Zenon DEF RequestFits, InTx, Committed, Control, tables, Key
<1>3. OwnInv(w)'
  <2>1. pc'[w] = "cacheRead" /\ req' = req
    BY <1>1, <1>2, GotoFacts, Zenon
  <2>2. RequestFits(w)' /\ SnapConserved(w)'
    BY <1>2, <2>1, Zenon DEF RequestFits, SnapConserved, Reading
  <2>3. HoldsItsLocks(w)' /\ RowsAsRead(w)'
    BY <2>1, Zenon DEF HoldsItsLocks, RowsAsRead
  <2>4. Answered(w)'
    BY <1>1, <1>2, <2>1, Zenon DEF Answered, RowsAsRead, ReserveIsRetry, ReleaseIsRetry
  <2> QED
    BY <2>2, <2>3, <2>4, Zenon DEF OwnInv
<1> QED
  BY <1>1, <1>2, <1>3, ReleaseLocksFacts, StatementInv, Zenon DEF TypeOK
\* Reading the table gives a conserved snapshot.
LEMMA SnapshotInv ==
    ASSUME IndInv, NEW w \in Workers, NEW label \in {"cacheSet", "fill"},
           label = "cacheSet" => pc[w] = "cacheRead",
           label = "fill" => pc[w] = "get",
           snap' = [snap EXCEPT ![w] = stock[req[w].product]],
           Goto(w, label), UNCHANGED <<tables, locks, cache, req>>
    PROVE  IndInv'
<1>1. /\ TypeOK /\ RequestFits(w) /\ Answered(w)
      /\ rowLock' = rowLock /\ stockLock' = stockLock /\ req' = req
      /\ stock' = stock /\ reservations' = reservations
  BY Zenon DEF IndInv, LocksProtect, AnsweredMeansApplied, Answered, locks, tables
<1>2. label \in Control /\ req[w].product \in Products
  BY <1>1, Zenon DEF RequestFits, WriteRequest, ReadRequest, InTx, Committed, Reading, Control
<1>3. /\ snap' \in [Workers -> Stock \cup {NoStock}]
      /\ snap'[w] = stock[req[w].product] /\ snap'[w] \in Stock
      /\ \A v \in Workers \ {w} : snap'[v] = snap[v]
  BY <1>1, <1>2, Zenon DEF TypeOK
<1>4. Conserved(req[w].product, snap[w])'
  BY <1>1, <1>2, <1>3, Zenon DEF IndInv, StockConserved, Conserved
<1>5. OthersUnchanged(w) /\ OthersKeepTheirLocks(w)
  BY <1>1, <1>2, <1>3, GotoFacts, Zenon DEF OthersUnchanged, OthersKeepTheirLocks
<1>6. OwnInv(w)'
  <2>1. pc'[w] = label /\ Key(w)' = Key(w)
    BY <1>1, <1>2, GotoFacts, Zenon DEF Key
  <2>2. RequestFits(w)'
    BY <1>1, <1>3, <2>1, Zenon DEF RequestFits, InTx, Committed, Reading
  <2>3. HoldsItsLocks(w)' /\ RowsAsRead(w)'
    BY <2>1, Zenon DEF HoldsItsLocks, RowsAsRead
  <2>4. Answered(w)'
    BY <1>1, <2>1, Zenon DEF Answered, Committed
  <2>5. SnapConserved(w)'
    BY <1>4, Zenon DEF SnapConserved
  <2> QED
    BY <2>2, <2>3, <2>4, <2>5, Zenon DEF OwnInv
<1>7. /\ rowLock' \in [Keys -> Workers \cup {Nobody}]
      /\ stockLock' \in [Products -> Workers \cup {Nobody}]
      /\ pc' \in [Workers -> Control] /\ req' \in [Workers -> Request]
      /\ snap' \in [Workers -> Stock \cup {NoStock}]
  BY <1>1, <1>2, <1>3, GotoFacts, Zenon DEF TypeOK
<1> QED
  BY <1>5, <1>6, <1>7, QuietStep, Zenon

\* A request that returns without touching a table or a lock, with or without
\* writing the snapshot it carries to the cache.
LEMMA ReturnInv ==
    ASSUME IndInv, NEW w \in Workers, Return(w), UNCHANGED <<tables, locks>>,
           \/ UNCHANGED cache
           \/ /\ pc[w] \in {"cacheSet", "fill"}
              /\ cache' = [cache EXCEPT ![req[w].product] = snap[w]]
    PROVE  IndInv'
<1>1. /\ TypeOK /\ RequestFits(w) /\ SnapConserved(w)
      /\ rowLock' = rowLock /\ stockLock' = stockLock
      /\ stock' = stock /\ reservations' = reservations /\ ledger' = ledger
  BY Zenon DEF IndInv, LocksProtect, StockConserved, SnapConserved, locks, tables
<1>2. cache' \in [Products -> Stock \cup {NoStock}]
  BY <1>1, Zenon DEF TypeOK, RequestFits
<1>3. CacheConserved'
  BY <1>1, Zenon DEF IndInv, TypeOK, StockConserved, CacheConserved, SnapConserved, Conserved
<1>4. TypeOK'
  BY <1>1, <1>2, ReturnFacts, Zenon DEF TypeOK
<1>5. OthersKeepTheirLocks(w) /\ OthersKeepTheirRows(w) /\ \A k \in Keys : RowAdvances(k)
  BY <1>1, Zenon DEF OthersKeepTheirLocks, OthersKeepTheirRows, RowAdvances
<1>6. TablesConserved' /\ LedgerMatchesReservations'
  BY <1>1, Zenon DEF IndInv, StockConserved, TablesConserved, Conserved, LedgerMatchesReservations
<1> QED
  BY <1>1, <1>3, <1>4, <1>5, <1>6, ReturnFacts, IdleOwnInv, StepKeepsInv, Zenon

\* writeStockToCache and the reads of GetStock preserve the invariant.
LEMMA CacheStepsInv ==
    ASSUME IndInv, NEW w \in Workers,
           \/ WriteStockToCacheRead(w) \/ WriteStockToCacheSet(w)
           \/ GetStockFromCache(w) \/ GetStockFromTable(w) \/ GetStockFill(w)
    PROVE  IndInv'
<1>1. CASE WriteStockToCacheRead(w)
  BY <1>1, SnapshotInv, ReturnInv, Zenon DEF WriteStockToCacheRead
<1>2. CASE WriteStockToCacheSet(w)
  BY <1>2, ReturnInv, Zenon DEF WriteStockToCacheSet
<1>3. CASE GetStockFromCache(w)
  BY <1>3, ReturnInv, Zenon DEF GetStockFromCache
<1>4. CASE GetStockFromTable(w)
  BY <1>4, SnapshotInv, Zenon DEF GetStockFromTable
<1>5. CASE GetStockFill(w)
  BY <1>5, ReturnInv, Zenon DEF GetStockFill
<1> QED
  BY <1>1, <1>2, <1>3, <1>4, <1>5, Zenon

\* What the requests rely on depends on nothing but their own state, locks and rows.
LEMMA SameRequestsSameFacts ==
    ASSUME IndInv, UNCHANGED <<stock, reservations, rowLock, stockLock, pc, req, snap>>
    PROVE  LocksProtect' /\ AnsweredMeansApplied'
<1>1. ASSUME NEW w \in Workers PROVE RequestFits(w)' /\ HoldsItsLocks(w)'
  BY Zenon DEF IndInv, LocksProtect, RequestFits, HoldsItsLocks, Key
<1>2. ASSUME NEW w \in Workers PROVE RowsAsRead(w)'
  <2>1. RowsAsRead(w) /\ Key(w)' = Key(w)
    BY Zenon DEF IndInv, LocksProtect, Key
  <2> QED
    BY <2>1, Zenon DEF RowsAsRead, ReserveIsRetry, ReleaseIsRetry, ReleaseApplies,
                EnoughAvailable, EnoughReserved
<1>3. AnsweredMeansApplied'
  BY Zenon DEF IndInv, AnsweredMeansApplied, Key
<1> QED
  BY <1>1, <1>2, <1>3, Zenon DEF LocksProtect

\* The expiry of a cached stock preserves the invariant.
LEMMA ExpireInv ==
    ASSUME IndInv, NEW p \in Products, Expire(p) PROVE IndInv'
<1>1. /\ stock' = stock /\ reservations' = reservations /\ ledger' = ledger
      /\ rowLock' = rowLock /\ stockLock' = stockLock
      /\ pc' = pc /\ req' = req /\ snap' = snap
      /\ cache' = [cache EXCEPT ![p] = NoStock]
  BY Zenon DEF Expire, tables, locks
<1>2. TypeOK'
  BY <1>1, Zenon DEF IndInv, TypeOK
<1>3. LocksProtect' /\ AnsweredMeansApplied'
  BY <1>1, SameRequestsSameFacts, Zenon
<1>4. StockConserved'
  BY <1>1, Zenon DEF IndInv, TypeOK, StockConserved, Conserved
<1>5. LedgerMatchesReservations'
  BY <1>1, Zenon DEF IndInv, LedgerMatchesReservations
<1> QED
  BY <1>2, <1>3, <1>4, <1>5, Zenon DEF IndInv

-----------------------------------------------------------------------------
(* The two steps that change the tables. *)

\* What the ledger holds for a reservation row.
LedgerFits(row, entries) ==
    /\ row.status = "none"     => entries = <<>>
    /\ row.status = "reserved" => entries = <<-row.quantity>>
    /\ row.status = "released" => entries = <<-row.quantity, row.quantity>>

\* A commit writes the rows w has locked and no other.
WritesItsRows(w) ==
    /\ stock' \in [Products -> Stock]
    /\ reservations' \in [Keys -> Reservation]
    /\ ledger' \in [Keys -> Seq(Int)]
    /\ \A r \in Products \ {req[w].product} : stock'[r] = stock[r]
    /\ \A k \in Keys \ {Key(w)} : reservations'[k] = reservations[k] /\ ledger'[k] = ledger[k]

\* It keeps the sum of the columns and takes the reservation to its next status.
WritesItsPart(w) ==
    /\ Conserved(req[w].product, stock'[req[w].product])
    /\ RowAdvances(Key(w))
    /\ LedgerFits(reservations'[Key(w)], ledger'[Key(w)])
    /\ reservations'[Key(w)].quantity = req[w].quantity
    /\ reservations'[Key(w)].status = IF req[w].op = "reserve" THEN "reserved" ELSE "released"

\* A commit of such writes, whether or not its reply arrives, preserves the invariant.
LEMMA CommitInv ==
    ASSUME IndInv, NEW w \in Workers, pc[w] = "commit",
           WritesItsRows(w), WritesItsPart(w), ReleaseLocks(w), UNCHANGED cache,
           \/ Goto(w, "cacheRead") /\ UNCHANGED <<req, snap>>
           \/ Return(w)
    PROVE  /\ IndInv'
           /\ \A k \in Keys : RowAdvances(k)
<1>1. TypeOK /\ RequestFits(w) /\ HoldsItsLocks(w) /\ "cacheRead" \in Control
  BY Zenon DEF IndInv, LocksProtect, Control, Committed
<1>2. /\ req[w] \in WriteRequest /\ req[w].quantity > 0
      /\ Key(w) \in Keys /\ req[w].product \in Products
  BY <1>1, KeyFacts, Zenon DEF RequestFits, InTx
<1>3. rowLock[Key(w)] = w /\ stockLock[req[w].product] = w
  BY <1>1, Zenon DEF HoldsItsLocks
<1>4. OthersUnchanged(w) /\ pc' \in [Workers -> Control] /\ req' \in [Workers -> Request]
      /\ snap' \in [Workers -> Stock \cup {NoStock}]
  BY <1>1, GotoFacts, ReturnFacts, ZenonT(30) DEF OthersUnchanged, TypeOK
<1>5. TypeOK'
  BY <1>1, <1>4, ReleaseLocksFacts, Zenon DEF TypeOK, WritesItsRows
<1>6. OthersKeepTheirRows(w)
  BY <1>2, <1>3, Zenon DEF OthersKeepTheirRows, WritesItsRows
<1>7. \A k \in Keys : RowAdvances(k)
  BY Zenon DEF RowAdvances, WritesItsRows, WritesItsPart
<1>8. OwnInv(w)'
  <2>1. CASE Return(w)
    BY <1>1, <2>1, ReturnFacts, IdleOwnInv, Zenon
  <2>2. CASE Goto(w, "cacheRead") /\ UNCHANGED <<req, snap>>
    <3>1. pc'[w] = "cacheRead" /\ req'[w] = req[w] /\ Key(w)' = Key(w)
      BY <1>1, <2>2, GotoFacts, Zenon DEF Key
    <3>2. RequestFits(w)' /\ HoldsItsLocks(w)'
      BY <1>2, <3>1, Zenon DEF RequestFits, HoldsItsLocks, Reading
    <3>3. RowsAsRead(w)' /\ SnapConserved(w)'
      BY <3>1, Zenon DEF RowsAsRead, SnapConserved
    <3>4. reservations'[Key(w)].status \in
             IF req[w].op = "reserve" THEN {"reserved", "released"} ELSE {"released"}
      BY Zenon DEF WritesItsPart
    <3>5. Answered(w)'
      BY <3>1, <3>4, Zenon DEF Answered, WritesItsPart
    <3> QED
      BY <3>2, <3>3, <3>5, Zenon DEF OwnInv
  <2> QED
    BY <2>1, <2>2, Zenon
<1>9. CacheConserved'
  BY Zenon DEF CacheConserved, IndInv, StockConserved, Conserved
<1>10. TablesConserved'
  BY Zenon DEF TablesConserved, IndInv, StockConserved, Conserved, WritesItsRows, WritesItsPart
<1>11. LedgerMatchesReservations'
  <2>1. ASSUME NEW k \in Keys PROVE LedgerFits(reservations'[k], ledger'[k])
    <3>1. LedgerFits(reservations[k], ledger[k])
      BY Zenon DEF IndInv, LedgerMatchesReservations, LedgerFits
    <3>2. CASE k = Key(w)
      BY <3>2, Zenon DEF WritesItsPart
    <3>3. CASE k # Key(w)
      <4>1. reservations'[k] = reservations[k] /\ ledger'[k] = ledger[k]
        BY <3>3, Zenon DEF WritesItsRows
      <4> QED
        BY <3>1, <4>1, Zenon
    <3> QED
      BY <3>2, <3>3, Zenon
  <2> QED
    BY <2>1, Zenon DEF LedgerMatchesReservations, LedgerFits
<1>12. IndInv'
  BY <1>1, <1>4, <1>5, <1>6, <1>7, <1>8, <1>9, <1>10, <1>11,
     ReleaseLocksFacts, StepKeepsInv, Zenon
<1> QED
  BY <1>7, <1>12, Zenon

\* Moving c units from one column to the other keeps both natural and their sum.
LEMMA MovedUnits ==
    ASSUME NEW a \in Nat, NEW b \in Nat, NEW c \in Nat, a >= c
    PROVE  a - c \in Nat /\ b + c \in Nat /\ (a - c) + (b + c) = a + b /\ (b + c) + (a - c) = b + a
  OBVIOUS

\* What a request that is about to commit knows of its key and quantity.
LEMMA CommitFacts ==
    ASSUME IndInv, NEW w \in Workers, pc[w] = "commit"
    PROVE  /\ TypeOK /\ RowsAsRead(w)
           /\ Key(w) \in Keys /\ req[w].product \in Products
           /\ req[w].quantity \in Nat /\ req[w].quantity > 0
<1>1. TypeOK /\ RequestFits(w) /\ RowsAsRead(w)
  BY Zenon DEF IndInv, LocksProtect
<1>2. req[w] \in WriteRequest /\ req[w].quantity > 0
  BY <1>1, Zenon DEF RequestFits, InTx
<1>3. req[w].quantity \in RequestQuantities /\ Key(w) \in Keys /\ req[w].product \in Products
  BY <1>2, KeyFacts, Zenon
<1>4. req[w].quantity \in Int
  BY <1>3, InventoryAssumption, Zenon
<1> QED
  BY <1>1, <1>2, <1>3, <1>4

\* The fields of a reservation row that a commit writes.
LEMMA WrittenRow ==
    ASSUME NEW row, NEW qty, NEW st, row = [quantity |-> qty, status |-> st]
    PROVE  row.quantity = qty /\ row.status = st
BY Zenon

\* The commit of Reserve moves q units and writes one row and one entry.
LEMMA CommitReserveInv ==
    ASSUME IndInv, NEW w \in Workers, CommitReserve(w)
    PROVE  /\ IndInv'
           /\ \A k \in Keys : RowAdvances(k)
<1> DEFINE p == req[w].product
           q == req[w].quantity
           key == Key(w)
<1>1. /\ TypeOK /\ RowsAsRead(w) /\ key \in Keys /\ p \in Products /\ q \in Nat /\ q > 0
      /\ pc[w] = "commit" /\ req[w].op = "reserve"
  BY CommitFacts, Zenon DEF CommitReserve
<1>2. /\ reservations[key].status = "none" /\ ledger[key] = <<>>
      /\ stock[p].available >= q
  BY <1>1, Zenon DEF RowsAsRead, EnoughAvailable, IndInv, LedgerMatchesReservations
<1>3. stock[p].available \in Nat /\ stock[p].reserved \in Nat
  BY <1>1, Zenon DEF TypeOK, Stock, Book!Stock
<1>4. stock[p].available + stock[p].reserved = InitialStock[p]
  BY <1>1, Zenon DEF IndInv, StockConserved, Conserved
<1>5. /\ reservations' = [reservations EXCEPT ![key] = [quantity |-> q, status |-> "reserved"]]
      /\ stock' = [stock EXCEPT ![p] = [available |-> stock[p].available - q,
                                        reserved |-> stock[p].reserved + q]]
      /\ ledger' = [ledger EXCEPT ![key] = Append(ledger[key], -q)]
  BY Zenon DEF CommitReserve, InsertReservation, UpdateStockForReserve, InsertLedger
<1> HIDE DEF p, q, key
<1>6. stock' \in [Products -> Stock] /\ \A r \in Products \ {p} : stock'[r] = stock[r]
  <2>1. stock[p].available - q \in Nat /\ stock[p].reserved + q \in Nat
    BY <1>1, <1>2, <1>3, MovedUnits, Zenon
  <2>2. [available |-> stock[p].available - q, reserved |-> stock[p].reserved + q] \in Stock
    BY <2>1, Zenon DEF Stock, Book!Stock
  <2> QED
    BY <1>1, <1>5, <2>2, Zenon DEF TypeOK
<1>7. /\ reservations' \in [Keys -> Reservation]
      /\ \A k \in Keys \ {key} : reservations'[k] = reservations[k]
      /\ reservations'[key] = [quantity |-> q, status |-> "reserved"]
  <2>1. [quantity |-> q, status |-> "reserved"] \in Reservation
    BY <1>1, Zenon DEF Reservation, Book!Reservation, Book!ReservationStatus
  <2> QED
    BY <1>1, <1>5, <2>1, Zenon DEF TypeOK
<1>8. /\ ledger' \in [Keys -> Seq(Int)] /\ ledger'[key] = <<-q>>
      /\ \A k \in Keys \ {key} : ledger'[k] = ledger[k]
  <2>1. Append(ledger[key], -q) = <<-q>> /\ <<-q>> \in Seq(Int)
    BY <1>1, <1>2
  <2> QED
    BY <1>1, <1>5, <2>1, Zenon DEF TypeOK
<1>9. Conserved(p, stock'[p])
  <2>1. stock'[p] = [available |-> stock[p].available - q, reserved |-> stock[p].reserved + q]
    BY <1>1, <1>5, Zenon DEF TypeOK
  <2>2. stock'[p].available = stock[p].available - q /\ stock'[p].reserved = stock[p].reserved + q
    BY <2>1
  <2>3. q \in Nat
    BY <1>1, Zenon
  <2>4. stock'[p].available + stock'[p].reserved = InitialStock[p]
    BY <1>3, <1>4, <2>2, <2>3
  <2> QED
    BY <2>4, Zenon DEF Conserved
<1>10. WritesItsRows(w)
  BY <1>6, <1>7, <1>8, Zenon DEF WritesItsRows, p, key
<1>11. reservations'[key].quantity = q /\ reservations'[key].status = "reserved"
  <2>1. reservations'[key] = [quantity |-> q, status |-> "reserved"]
    BY <1>7, Zenon
  <2> QED
    BY <2>1, WrittenRow, Zenon
<1>12. RowAdvances(key)
  BY <1>2, <1>11, Zenon DEF RowAdvances
<1>13. LedgerFits(reservations'[key], ledger'[key])
  BY <1>8, <1>11, Zenon DEF LedgerFits
<1>14. req[w].op = "reserve"
  BY <1>1, Zenon
<1>15. WritesItsPart(w)
  BY <1>9, <1>11, <1>12, <1>13, <1>14, Zenon DEF WritesItsPart, p, q, key
<1> QED
  BY <1>1, <1>10, <1>15, CommitInv, Zenon DEF CommitReserve

\* The commit of Release gives back what the row says and marks it.
LEMMA CommitReleaseInv ==
    ASSUME IndInv, NEW w \in Workers, CommitRelease(w)
    PROVE  /\ IndInv'
           /\ \A k \in Keys : RowAdvances(k)
<1> DEFINE p == req[w].product
           q == req[w].quantity
           key == Key(w)
<1>1. /\ TypeOK /\ RowsAsRead(w) /\ key \in Keys /\ p \in Products /\ q \in Nat /\ q > 0
      /\ pc[w] = "commit" /\ req[w].op = "release"
  BY CommitFacts, Zenon DEF CommitRelease
<1>2. /\ reservations[key].status = "reserved" /\ reservations[key].quantity = q
      /\ stock[p].reserved >= q
  BY <1>1, Zenon DEF RowsAsRead, ReleaseApplies, EnoughReserved
<1>3. stock[p].available \in Nat /\ stock[p].reserved \in Nat
  BY <1>1, Zenon DEF TypeOK, Stock, Book!Stock
<1>4. ledger[key] = <<-q>> /\ stock[p].available + stock[p].reserved = InitialStock[p]
  BY <1>1, <1>2, Zenon DEF IndInv, StockConserved, Conserved, LedgerMatchesReservations
<1>5. /\ reservations' = [reservations EXCEPT ![key] = [quantity |-> q, status |-> "released"]]
      /\ stock' = [stock EXCEPT ![p] = [available |-> stock[p].available + q,
                                        reserved |-> stock[p].reserved - q]]
      /\ ledger' = [ledger EXCEPT ![key] = Append(ledger[key], q)]
  <2>1. reservations[key] \in [quantity : Nat, status : Book!ReservationStatus]
    <3>1. reservations[key] \in Reservation
      BY <1>1, Zenon DEF TypeOK
    <3> QED
      BY <3>1, Zenon DEF Reservation, Book!Reservation
  <2>2. UpdateReservationStatus(reservations[key], "released")
          = [quantity |-> q, status |-> "released"]
    BY <1>2, <2>1 DEF UpdateReservationStatus
  <2> QED
    BY <2>2, Zenon DEF CommitRelease, UpdateStockForRelease, InsertLedger
<1> HIDE DEF p, q, key
<1>6. stock' \in [Products -> Stock] /\ \A r \in Products \ {p} : stock'[r] = stock[r]
  <2>1. stock[p].available + q \in Nat /\ stock[p].reserved - q \in Nat
    BY <1>1, <1>2, <1>3, MovedUnits, ZenonT(30)
  <2>2. [available |-> stock[p].available + q, reserved |-> stock[p].reserved - q] \in Stock
    BY <2>1, Zenon DEF Stock, Book!Stock
  <2> QED
    BY <1>1, <1>5, <2>2, Zenon DEF TypeOK
<1>7. /\ reservations' \in [Keys -> Reservation]
      /\ \A k \in Keys \ {key} : reservations'[k] = reservations[k]
      /\ reservations'[key] = [quantity |-> q, status |-> "released"]
  <2>1. [quantity |-> q, status |-> "released"] \in Reservation
    BY <1>1, Zenon DEF Reservation, Book!Reservation, Book!ReservationStatus
  <2> QED
    BY <1>1, <1>5, <2>1, Zenon DEF TypeOK
<1>8. /\ ledger' \in [Keys -> Seq(Int)] /\ ledger'[key] = <<-q, q>>
      /\ \A k \in Keys \ {key} : ledger'[k] = ledger[k]
  <2>1. -q \in Int /\ q \in Int
    BY <1>1
  <2>2. Append(<<-q>>, q) = <<-q, q>>
    BY <2>1, AppendToOne, Zenon
  <2>3. <<-q, q>> \in Seq(Int)
    BY <2>1
  <2> QED
    BY <1>1, <1>4, <1>5, <2>2, <2>3, Zenon DEF TypeOK
<1>9. Conserved(p, stock'[p])
  <2>1. stock'[p] = [available |-> stock[p].available + q, reserved |-> stock[p].reserved - q]
    BY <1>1, <1>5, Zenon DEF TypeOK
  <2>2. stock'[p].available = stock[p].available + q /\ stock'[p].reserved = stock[p].reserved - q
    BY <2>1
  <2>3. q \in Nat
    BY <1>1, Zenon
  <2>4. stock'[p].available + stock'[p].reserved = InitialStock[p]
    BY <1>3, <1>4, <2>2, <2>3
  <2> QED
    BY <2>4, Zenon DEF Conserved
<1>10. WritesItsRows(w)
  BY <1>6, <1>7, <1>8, Zenon DEF WritesItsRows, p, key
<1>11. reservations'[key].quantity = q /\ reservations'[key].status = "released"
  <2>1. reservations'[key] = [quantity |-> q, status |-> "released"]
    BY <1>7, Zenon
  <2> QED
    BY <2>1, WrittenRow, Zenon
<1>12. RowAdvances(key)
  BY <1>2, <1>11, Zenon DEF RowAdvances
<1>13. LedgerFits(reservations'[key], ledger'[key])
  BY <1>8, <1>11, Zenon DEF LedgerFits
<1>14. req[w].op = "release"
  BY <1>1, Zenon
<1>15. WritesItsPart(w)
  BY <1>9, <1>11, <1>12, <1>13, <1>14, Zenon DEF WritesItsPart, p, q, key
<1> QED
  BY <1>1, <1>10, <1>15, CommitInv, Zenon DEF CommitRelease

-----------------------------------------------------------------------------
(* Every step keeps the invariant and the life cycle of every row. *)

\* Only the two commits of writes change stock and reservations.
LEMMA NextKeepsTables ==
    ASSUME IndInv, [Next]_vars
    PROVE  \/ \E w \in Workers : CommitReserve(w) \/ CommitRelease(w)
           \/ UNCHANGED <<stock, reservations>>
<1>1. CASE UNCHANGED vars
  BY <1>1, Zenon DEF vars, tables
<1>2. ASSUME NEW w \in Workers, Call(w) \/ Fail(w) \/ Crash(w)
      PROVE  UNCHANGED <<stock, reservations>>
  BY <1>2, Zenon DEF Call, Reserve, Release, GetStock, Fail, Rollback, Crash, tables
<1>3. ASSUME NEW w \in Workers, Proceed(w)
      PROVE  CommitReserve(w) \/ CommitRelease(w) \/ UNCHANGED <<stock, reservations>>
  <2>1. ASSUME TryInsertReservation(w) \/ ReserveExisting(w) \/ DeductStock(w)
        PROVE  UNCHANGED <<stock, reservations>>
    BY <2>1, Zenon DEF TryInsertReservation, ReserveExisting, DeductStock, Rollback, tables
  <2>2. ASSUME SelectForRelease(w) \/ RestoreStock(w) \/ CommitNothing(w)
        PROVE  UNCHANGED <<stock, reservations>>
    BY <2>2, Zenon DEF SelectForRelease, RestoreStock, CommitNothing, Rollback, tables
  <2>3. ASSUME \/ WriteStockToCacheRead(w) \/ WriteStockToCacheSet(w)
               \/ GetStockFromCache(w) \/ GetStockFromTable(w) \/ GetStockFill(w)
        PROVE  UNCHANGED <<stock, reservations>>
    BY <2>3, Zenon DEF WriteStockToCacheRead, WriteStockToCacheSet, GetStockFromCache,
                GetStockFromTable, GetStockFill, tables
  <2> QED
    BY <1>3, <2>1, <2>2, <2>3, Zenon DEF Proceed
<1>4. ASSUME NEW p \in Products, Expire(p) PROVE UNCHANGED <<stock, reservations>>
  BY <1>4, Zenon DEF Expire, tables
<1> QED
  BY <1>1, <1>2, <1>3, <1>4, Zenon DEF Next

\* Every step of the service preserves the inductive invariant.
LEMMA NextInv == IndInv /\ [Next]_vars => IndInv'
<1> SUFFICES ASSUME IndInv, [Next]_vars PROVE IndInv'
  OBVIOUS
<1>1. CASE UNCHANGED vars
  <2>1. UNCHANGED <<stock, reservations, ledger, rowLock, stockLock, cache, pc, req, snap>>
    BY <1>1, Zenon DEF vars, tables, locks
  <2>2. TypeOK' /\ LedgerMatchesReservations'
    BY <2>1, Zenon DEF IndInv, TypeOK, LedgerMatchesReservations
  <2>3. StockConserved'
    BY <2>1, Zenon DEF IndInv, StockConserved, Conserved
  <2>4. LocksProtect' /\ AnsweredMeansApplied'
    BY <2>1, SameRequestsSameFacts, Zenon
  <2> QED
    BY <2>2, <2>3, <2>4, Zenon DEF IndInv
<1>2. ASSUME NEW w \in Workers, Call(w) \/ Fail(w) \/ Crash(w) PROVE IndInv'
  BY <1>2, CallInv, FailInv, CrashInv, Zenon
<1>3. ASSUME NEW w \in Workers, Proceed(w) PROVE IndInv'
  BY <1>3, TryInsertReservationInv, ReserveExistingInv, DeductStockInv, CommitReserveInv,
     SelectForReleaseInv, RestoreStockInv, CommitReleaseInv, CommitNothingInv,
     CacheStepsInv, ZenonT(30) DEF Proceed
<1>4. ASSUME NEW p \in Products, Expire(p) PROVE IndInv'
  BY <1>4, ExpireInv, Zenon
<1> QED
  BY <1>1, <1>2, <1>3, <1>4, Zenon DEF Next

\* The initial tables satisfy the inductive invariant.
LEMMA InitInv == Init => IndInv
<1> SUFFICES ASSUME Init PROVE IndInv
  OBVIOUS
<1> USE InventoryAssumption DEF Init
<1>1. TypeOK
  <2>1. stock \in [Products -> Stock]
    BY Zenon DEF Stock, Book!Stock
  <2>2. NoReservation \in Reservation
    BY Zenon DEF Reservation, NoReservation, Book!Reservation, Book!NoReservation,
       Book!ReservationStatus
  <2>3. "idle" \in Control /\ NoRequest \in Request /\ <<>> \in Seq(Int)
    BY DEF Control, Request
  <2> QED
    BY <2>1, <2>2, <2>3, Zenon DEF TypeOK
<1>2. LocksProtect
  BY Zenon DEF LocksProtect, RequestFits, HoldsItsLocks, RowsAsRead, InTx, Committed, Reading
<1>3. StockConserved
  BY DEF StockConserved, Conserved, NoStock
<1>4. LedgerMatchesReservations
  BY Zenon DEF LedgerMatchesReservations, NoReservation, Book!NoReservation
<1>5. AnsweredMeansApplied
  BY Zenon DEF AnsweredMeansApplied, Committed
<1> QED
  BY <1>1, <1>2, <1>3, <1>4, <1>5, Zenon DEF IndInv

-----------------------------------------------------------------------------
(* Theorems *)

\* The inductive invariant holds in every reachable state.
THEOREM Invariance == Spec => []IndInv
  BY InitInv, NextInv, PTL DEF Spec

\* Every variable keeps its type; in particular no stock column of the
\* inventory table goes below zero, whatever requests run at the same time.
THEOREM TypeCorrect == Spec => []TypeOK
<1>1. IndInv => TypeOK
  BY Zenon DEF IndInv
<1> QED
  BY <1>1, Invariance, PTL

\* Concurrent reserve and release transactions neither create nor destroy units,
\* in the table or in any copy of it in Redis.
THEOREM StockIsConserved == Spec => []StockConserved
<1>1. IndInv => StockConserved
  BY Zenon DEF IndInv
<1> QED
  BY <1>1, Invariance, PTL

\* What reserve() and release() check under their row locks is still true when
\* they commit.
THEOREM LocksDoProtect == Spec => []LocksProtect
<1>1. IndInv => LocksProtect
  BY Zenon DEF IndInv
<1> QED
  BY <1>1, Invariance, PTL

\* inventory_ledger holds exactly one entry per committed change of a
\* reservation row, for every retry and every interleaving.
THEOREM LedgerIsExact == Spec => []LedgerMatchesReservations
<1>1. IndInv => LedgerMatchesReservations
  BY Zenon DEF IndInv
<1> QED
  BY <1>1, Invariance, PTL

\* A Reserve or Release that returns nil took effect with its own quantity.
THEOREM AnswersAreTrue == Spec => []AnsweredMeansApplied
<1>1. IndInv => AnsweredMeansApplied
  BY Zenon DEF IndInv
<1> QED
  BY <1>1, Invariance, PTL

\* A reservation is made at most once and released at most once.
THEOREM LifecycleHolds == Spec => ReservationLifecycle
<1>1. IndInv /\ [Next]_vars =>
        [\A k \in Keys :
          LET old == reservations[k]
              new == reservations'[k]
          IN  \/ new = old
              \/ old.status = "none" /\ new.status = "reserved"
              \/ old.status = "reserved" /\ new.status = "released"
                    /\ new.quantity = old.quantity]_vars
  BY NextKeepsTables, CommitReserveInv, CommitReleaseInv, Zenon DEF RowAdvances
<1> QED
  BY <1>1, Invariance, PTL DEF Spec, ReservationLifecycle
\* The service implements StockBook: a commit is one atomic Reserve or Release of
\* the book, and no other step of any request shows in the committed tables.
THEOREM Refinement == Spec => ImplementsStockBook
<1>1. Init => Book!BookInit
  BY Zenon DEF Init, Book!BookInit, Keys, Book!Keys, NoReservation
<1>2. ASSUME IndInv, NEW w \in Workers, CommitReserve(w) PROVE Book!BookNext
  <2>1. /\ TypeOK /\ RequestFits(w) /\ RowsAsRead(w)
        /\ pc[w] = "commit" /\ req[w].op = "reserve"
    BY <1>2, Zenon DEF IndInv, LocksProtect, CommitReserve
  <2>2. req[w] \in WriteRequest /\ req[w].quantity > 0
    BY <2>1, Zenon DEF RequestFits, InTx
  <2>3. /\ req[w].order \in Orders /\ req[w].product \in Products
        /\ Key(w) = <<req[w].order, req[w].product>>
        /\ req[w].quantity \in PositiveQuantities
    BY <2>2, Zenon DEF WriteRequest, Key, PositiveQuantities
  <2>4. /\ reservations[Key(w)].status = "none"
        /\ stock[req[w].product].available >= req[w].quantity
    BY <2>1, Zenon DEF RowsAsRead, EnoughAvailable
  <2>5. Book!BookReserve(req[w].order, req[w].product, req[w].quantity)
    BY <1>2, <2>3, <2>4, Zenon DEF CommitReserve, Book!BookReserve, InsertReservation,
       UpdateStockForReserve
  <2> QED
    BY <2>3, <2>5, Zenon DEF Book!BookNext
<1>3. ASSUME IndInv, NEW w \in Workers, CommitRelease(w) PROVE Book!BookNext
  <2>1. /\ TypeOK /\ RequestFits(w) /\ RowsAsRead(w)
        /\ pc[w] = "commit" /\ req[w].op = "release"
    BY <1>3, Zenon DEF IndInv, LocksProtect, CommitRelease
  <2>2. req[w] \in WriteRequest /\ req[w].quantity > 0
    BY <2>1, Zenon DEF RequestFits, InTx
  <2>3. /\ req[w].order \in Orders /\ req[w].product \in Products
        /\ Key(w) = <<req[w].order, req[w].product>> /\ Key(w) \in Keys
    BY <2>2, Zenon DEF WriteRequest, Key, Keys
  <2>4. /\ reservations[Key(w)].status = "reserved"
        /\ reservations[Key(w)].quantity = req[w].quantity
        /\ stock[req[w].product].reserved >= req[w].quantity
    BY <2>1, Zenon DEF RowsAsRead, ReleaseApplies, EnoughReserved
  <2>5. UpdateReservationStatus(reservations[Key(w)], "released")
          = [quantity |-> req[w].quantity, status |-> "released"]
    <3>1. reservations[Key(w)] = [quantity |-> req[w].quantity, status |-> "reserved"]
      BY <2>1, <2>3, <2>4, Zenon DEF TypeOK, Reservation, Book!Reservation
    <3> QED
      BY <3>1 DEF UpdateReservationStatus
  <2>6. Book!BookRelease(req[w].order, req[w].product)
    <3> DEFINE r == [quantity |-> req[w].quantity, status |-> "released"]
    <3>1. /\ reservations' = [reservations EXCEPT ![Key(w)] = r]
          /\ stock' = [stock EXCEPT ![req[w].product] =
                         [available |-> stock[req[w].product].available + req[w].quantity,
                          reserved  |-> stock[req[w].product].reserved - req[w].quantity]]
      BY <1>3, <2>5, Zenon DEF CommitRelease, UpdateStockForRelease
    <3> QED
      BY <2>3, <2>4, <3>1, Zenon DEF Book!BookRelease
  <2> QED
    BY <2>3, <2>6, Zenon DEF Book!BookNext
<1>4. IndInv /\ [Next]_vars => [Book!BookNext]_(Book!bookVars)
  BY <1>2, <1>3, NextKeepsTables, Zenon DEF Book!bookVars
<1> QED
  BY <1>1, <1>4, Invariance, PTL DEF Spec, ImplementsStockBook, Book!BookSpec

-----------------------------------------------------------------------------
(* Sums over finite sets, as SumFunctionOnSet defines them.  The library's    *)
(* induction theorems take an operator for the property to prove;             *)
(* SubsetInduction takes a set, and rests on the well-foundedness of < alone. *)

\* Every set of natural numbers has a least one.
LEMMA LeastNatural ==
    ASSUME NEW T, T \subseteq Nat, T # {}
    PROVE  \E n \in T : \A m \in T : n <= m
<1> DEFINE R == OpToRel(<, Nat)
<1>1. \E x \in T : \A y \in T : ~(<<y, x>> \in R)
  BY NatLessThanWellFounded, WFMin, Zenon
<1>2. \A x, y \in Nat : y < x => <<y, x>> \in R
  BY DEF OpToRel
<1> HIDE DEF R
<1>3. \E x \in T : \A y \in T : ~(y < x)
  BY <1>1, <1>2, Zenon
<1> QED
  BY <1>3

\* Induction over the subsets of a finite set, with a set for the property.
LEMMA SubsetInduction ==
    ASSUME NEW S, IsFiniteSet(S), NEW Q, {} \in Q,
           \A s \in (SUBSET S) \ {{}} : (\A x \in s : s \ {x} \in Q) => s \in Q
    PROVE  SUBSET S \subseteq Q
<1> DEFINE Bad == (SUBSET S) \ Q
           T == {Cardinality(s) : s \in Bad}
<1>1. \A s \in SUBSET S : IsFiniteSet(s) /\ Cardinality(s) \in Nat
  BY FS_Subset, FS_CardinalityType
<1>2. SUFFICES ASSUME Bad # {} PROVE FALSE
  OBVIOUS
<1>3. T \subseteq Nat /\ T # {}
  BY <1>1, <1>2
<1>4. PICK n \in T : \A m \in T : n <= m
  BY <1>3, LeastNatural, Zenon
<1>5. PICK s \in Bad : n = Cardinality(s)
  BY <1>4
<1>6. PICK x \in s : s \ {x} \notin Q
  BY <1>5
<1>7. s \ {x} \in Bad /\ Cardinality(s \ {x}) = n - 1
  BY <1>1, <1>5, <1>6, FS_RemoveElement
<1>8. n - 1 \in T
  BY <1>7, Zenon
<1>9. n <= n - 1 /\ n \in Nat
  BY <1>3, <1>4, <1>8, Zenon
<1> QED
  BY <1>9

\* The equation of the function that SumFunctionOnSet takes apart.
First(s) == CHOOSE x \in s : TRUE
SumEquation(f, S, g) ==
    g = [s \in SUBSET S |-> IF s = {} THEN 0 ELSE f[First(s)] + g[s \ {First(s)}]]

\* The element that a sum begins with is one of the set.
LEMMA FirstIsIn == \A s : s # {} => First(s) \in s
  BY DEF First

\* SumFunctionOnSet is the solution of that equation, at the whole set.
LEMMA SumIsIter ==
    ASSUME NEW f, NEW S
    PROVE  SumFunctionOnSet(f, S) = (CHOOSE g : SumEquation(f, S, g))[S]
  BY DEF SumFunctionOnSet, FoldFunctionOnSet, MapThenFoldSet, SumEquation, First

\* What two such functions make of a set depends only on the elements of it.
LEMMA SumIsLocal ==
    ASSUME NEW S, IsFiniteSet(S), NEW T, IsFiniteSet(T), NEW f, NEW g, NEW F, NEW G,
           SumEquation(f, S, F), SumEquation(g, T, G), \A x \in S \cap T : f[x] = g[x]
    PROVE  \A s \in SUBSET (S \cap T) : F[s] = G[s]
<1> DEFINE Q == {s \in SUBSET (S \cap T) : F[s] = G[s]}
<1>1. IsFiniteSet(S \cap T)
  BY FS_Intersection
<1>2. \A s \in SUBSET (S \cap T) :
         /\ F[s] = IF s = {} THEN 0 ELSE f[First(s)] + F[s \ {First(s)}]
         /\ G[s] = IF s = {} THEN 0 ELSE g[First(s)] + G[s \ {First(s)}]
  BY DEF SumEquation
<1>3. {} \in Q
  BY <1>2
<1>4. ASSUME NEW s \in (SUBSET (S \cap T)) \ {{}}, \A x \in s : s \ {x} \in Q PROVE s \in Q
  <2>1. First(s) \in s
    BY FirstIsIn
  <2>2. F[s \ {First(s)}] = G[s \ {First(s)}] /\ f[First(s)] = g[First(s)]
    BY <1>4, <2>1
  <2> QED
    BY <1>2, <2>2
<1> HIDE DEF Q
<1>5. SUBSET (S \cap T) \subseteq Q
  BY <1>1, <1>3, <1>4, SubsetInduction
<1> QED
  BY <1>5 DEF Q

\* The equation has a solution on a finite set, so a sum is what it says.
LEMMA SumUnfolds ==
    ASSUME NEW f, NEW S, IsFiniteSet(S)
    PROVE  SumFunctionOnSet(f, S) =
             IF S = {} THEN 0 ELSE f[First(S)] + SumFunctionOnSet(f, S \ {First(S)})
<1> DEFINE Sum(s) == SumFunctionOnSet(f, s)
           Unfolds(s) == Sum(s) = IF s = {} THEN 0 ELSE f[First(s)] + Sum(s \ {First(s)})
           Q == {s \in SUBSET S : \A t \in SUBSET s : Unfolds(t)}
<1>1. ASSUME NEW s \in SUBSET S, \A t \in (SUBSET s) \ {s} : Unfolds(t) PROVE Unfolds(s)
  <2> DEFINE G == [t \in SUBSET s |-> IF t # s THEN Sum(t) ELSE
                     IF s = {} THEN 0 ELSE f[First(s)] + Sum(s \ {First(s)})]
             H == CHOOSE g : SumEquation(f, s, g)
  <2>1. \A t \in SUBSET s : t # {} => First(t) \in t /\ t \ {First(t)} # s
    BY FirstIsIn
  <2>2. SumEquation(f, s, G)
    <3> DEFINE E == [t \in SUBSET s |-> IF t = {} THEN 0 ELSE f[First(t)] + G[t \ {First(t)}]]
    <3>1. ASSUME NEW t \in SUBSET s PROVE G[t] = E[t]
      <4>1. t # {} => G[t \ {First(t)}] = Sum(t \ {First(t)})
        BY <2>1
      <4>2. CASE t = s
        BY <4>1, <4>2
      <4>3. CASE t # s
        <5> HIDE DEF Sum
        <5> QED
          BY <1>1, <4>1, <4>3
      <4> QED
        BY <4>2, <4>3
    <3>2. G = E
      BY <3>1
    <3> QED
      BY <3>2 DEF SumEquation
  <2>3. SumEquation(f, s, H)
    BY <2>2
  <2>4. IsFiniteSet(s)
    BY FS_Subset
  <2>5. H[s] = G[s]
    <3> HIDE DEF G, H
    <3>1. \A t \in SUBSET (s \cap s) : H[t] = G[t]
      <4>1. \A x \in s \cap s : f[x] = f[x]
        OBVIOUS
      <4> QED
        BY <2>2, <2>3, <2>4, <4>1, SumIsLocal
    <3> QED
      BY <3>1
  <2>6. Sum(s) = H[s]
    BY SumIsIter
  <2> QED
    BY <2>5, <2>6
<1>2. {} \in Q
  BY <1>1
<1>3. ASSUME NEW s \in (SUBSET S) \ {{}}, \A x \in s : s \ {x} \in Q PROVE s \in Q
  <2>1. \A t \in (SUBSET s) \ {s} : Unfolds(t)
    <3> HIDE DEF Unfolds
    <3> QED
      BY <1>3
  <2> QED
    BY <1>1, <2>1
<1> HIDE DEF Q
<1>4. S \in Q
  BY <1>2, <1>3, SubsetInduction
<1> QED
  BY <1>4 DEF Q

\* The empty sum.
LEMMA SumEmpty == ASSUME NEW f PROVE SumFunctionOnSet(f, {}) = 0
  BY FS_EmptySet, SumUnfolds

\* A sum of integers is an integer.
LEMMA SumType ==
    ASSUME NEW S, IsFiniteSet(S), NEW f, \A x \in S : f[x] \in Int
    PROVE  SumFunctionOnSet(f, S) \in Int
<1> DEFINE Q == {s \in SUBSET S : SumFunctionOnSet(f, s) \in Int}
<1>1. {} \in Q
  BY SumEmpty
<1>2. ASSUME NEW s \in (SUBSET S) \ {{}}, \A x \in s : s \ {x} \in Q PROVE s \in Q
  <2>1. First(s) \in s /\ IsFiniteSet(s)
    BY FirstIsIn, FS_Subset
  <2>2. SumFunctionOnSet(f, s) = f[First(s)] + SumFunctionOnSet(f, s \ {First(s)})
    BY <2>1, SumUnfolds
  <2> QED
    BY <1>2, <2>1, <2>2
<1> HIDE DEF Q
<1>3. S \in Q
  BY <1>1, <1>2, SubsetInduction
<1> QED
  BY <1>3 DEF Q

\* Any element may be taken out of a sum.
LEMMA SumRemove ==
    ASSUME NEW S, IsFiniteSet(S), NEW f, \A x \in S : f[x] \in Int, NEW y \in S
    PROVE  SumFunctionOnSet(f, S) = f[y] + SumFunctionOnSet(f, S \ {y})
<1> DEFINE Sum(s) == SumFunctionOnSet(f, s)
           Q == {s \in SUBSET S : \A x \in s : Sum(s) = f[x] + Sum(s \ {x})}
<1>1. {} \in Q
  OBVIOUS
<1>2. ASSUME NEW s \in (SUBSET S) \ {{}}, \A x \in s : s \ {x} \in Q PROVE s \in Q
  <2> DEFINE c == First(s)
  <2>1. c \in s /\ \A t \in SUBSET s : IsFiniteSet(t) /\ Sum(t) \in Int
    BY FirstIsIn, FS_Subset, SumType
  <2>2. Sum(s) = f[c] + Sum(s \ {c})
    BY <2>1, SumUnfolds
  <2> HIDE DEF c, Sum
  <2>3. ASSUME NEW x \in s, x # c PROVE Sum(s) = f[x] + Sum(s \ {x})
    <3>1. Sum(s \ {c}) = f[x] + Sum((s \ {c}) \ {x})
      BY <1>2, <2>1, <2>3
    <3>2. Sum(s \ {x}) = f[c] + Sum((s \ {x}) \ {c})
      BY <1>2, <2>1, <2>3
    <3>3. (s \ {x}) \ {c} = (s \ {c}) \ {x}
      OBVIOUS
    <3>4. f[x] \in Int /\ f[c] \in Int /\ Sum((s \ {c}) \ {x}) \in Int
      BY <2>1
    <3>5. PICK d \in Int : d = Sum((s \ {c}) \ {x})
      BY <3>4, Zenon
    <3>6. Sum(s) = f[c] + (f[x] + d) /\ Sum(s \ {x}) = f[c] + d
      BY <2>2, <3>1, <3>2, <3>3, <3>5, Zenon
    <3>7. f[c] + (f[x] + d) = f[x] + (f[c] + d)
      BY <3>4
    <3> QED
      BY <3>6, <3>7, Zenon
  <2> QED
    BY <2>2, <2>3
<1> HIDE DEF Q
<1>3. S \in Q
  BY <1>1, <1>2, SubsetInduction
<1> QED
  BY <1>3 DEF Q

\* Functions that agree on a set have the same sum over it.
LEMMA SumSame ==
    ASSUME NEW S, IsFiniteSet(S), NEW f, NEW g, \A x \in S : f[x] = g[x]
    PROVE  SumFunctionOnSet(f, S) = SumFunctionOnSet(g, S)
<1> DEFINE Q == {s \in SUBSET S : SumFunctionOnSet(f, s) = SumFunctionOnSet(g, s)}
<1>1. {} \in Q
  BY SumEmpty
<1>2. ASSUME NEW s \in (SUBSET S) \ {{}}, \A x \in s : s \ {x} \in Q PROVE s \in Q
  <2>1. First(s) \in s /\ IsFiniteSet(s) /\ s # {}
    BY FirstIsIn, FS_Subset
  <2>2. /\ SumFunctionOnSet(f, s) = f[First(s)] + SumFunctionOnSet(f, s \ {First(s)})
        /\ SumFunctionOnSet(g, s) = g[First(s)] + SumFunctionOnSet(g, s \ {First(s)})
    BY <2>1, SumUnfolds
  <2>3. /\ SumFunctionOnSet(f, s \ {First(s)}) = SumFunctionOnSet(g, s \ {First(s)})
        /\ f[First(s)] = g[First(s)]
    BY <1>2, <2>1
  <2> QED
    BY <2>2, <2>3, Zenon
<1> HIDE DEF Q
<1>3. S \in Q
  BY <1>1, <1>2, SubsetInduction
<1> QED
  BY <1>3 DEF Q

\* A sum of natural numbers is none less than each of them, and 0 only if all are.
LEMMA SumNat ==
    ASSUME NEW S, IsFiniteSet(S), NEW f, \A x \in S : f[x] \in Nat
    PROVE  /\ SumFunctionOnSet(f, S) \in Nat
           /\ \A x \in S : f[x] <= SumFunctionOnSet(f, S)
           /\ (\A x \in S : f[x] = 0) => SumFunctionOnSet(f, S) = 0
<1> DEFINE Sum(s) == SumFunctionOnSet(f, s)
           Q == {s \in SUBSET S : Sum(s) \in Nat /\ ((\A x \in s : f[x] = 0) => Sum(s) = 0)}
<1>1. {} \in Q
  BY SumEmpty
<1>2. ASSUME NEW s \in (SUBSET S) \ {{}}, \A x \in s : s \ {x} \in Q PROVE s \in Q
  <2> DEFINE c == First(s)
  <2>1. c \in s /\ IsFiniteSet(s)
    BY FirstIsIn, FS_Subset
  <2>2. Sum(s) = f[c] + Sum(s \ {c})
    BY <2>1, SumUnfolds
  <2> HIDE DEF c, Sum
  <2>3. f[c] \in Nat /\ Sum(s \ {c}) \in Nat
    BY <1>2, <2>1
  <2>4. (\A x \in s : f[x] = 0) => f[c] = 0 /\ Sum(s \ {c}) = 0
    BY <1>2, <2>1
  <2>5. Sum(s) \in Nat /\ ((\A x \in s : f[x] = 0) => Sum(s) = 0)
    BY <2>2, <2>3, <2>4
  <2> QED
    BY <2>5
<1> HIDE DEF Q
<1>3. SUBSET S \subseteq Q
  BY <1>1, <1>2, SubsetInduction
<1>4. \A s \in SUBSET S : Sum(s) \in Nat /\ ((\A x \in s : f[x] = 0) => Sum(s) = 0)
  BY <1>3 DEF Q
<1>5. ASSUME NEW x \in S PROVE f[x] <= Sum(S)
  <2>1. Sum(S) = f[x] + Sum(S \ {x}) /\ Sum(S \ {x}) \in Nat
    BY <1>4, SumRemove
  <2> HIDE DEF Sum
  <2> QED
    BY <2>1
<1> QED
  BY <1>4, <1>5

\* An element more adds its term.
LEMMA SumAdd ==
    ASSUME NEW S, IsFiniteSet(S), NEW y, y \notin S, NEW f,
           \A x \in S \cup {y} : f[x] \in Int
    PROVE  SumFunctionOnSet(f, S \cup {y}) = f[y] + SumFunctionOnSet(f, S)
<1>1. IsFiniteSet(S \cup {y}) /\ (S \cup {y}) \ {y} = S
  BY FS_AddElement
<1> QED
  BY <1>1, SumRemove

-----------------------------------------------------------------------------
(* The reserved column is a sum over the live rows.  They are finitely many,  *)
(* however many orders there are: a step makes one row live at most.          *)

Quantities == [k \in Keys |-> reservations[k].quantity]

SumInv == ReservedIsSumOfReservations /\ \A p \in Products : IsFiniteSet(Live(p))

\* The live rows of p and their quantities after a step that changes one row.
LEMMA OtherProductsKeepTheirSums ==
    ASSUME TypeOK, SumInv, NEW key \in Keys, NEW p \in Products, key[2] # p,
           \A k \in Keys \ {key} : reservations'[k] = reservations[k], stock'[p] = stock[p]
    PROVE  /\ stock'[p].reserved = SumFunctionOnSet(Quantities', Live(p)')
           /\ IsFiniteSet(Live(p)')
<1>1. Live(p)' = Live(p)
  BY DEF Live
<1>2. \A k \in Live(p) : Quantities[k] = Quantities'[k]
  BY Zenon DEF Live, Quantities
<1>3. IsFiniteSet(Live(p)) /\ stock[p].reserved = SumFunctionOnSet(Quantities, Live(p))
  BY Zenon DEF SumInv, ReservedIsSumOfReservations, Quantities
<1>4. SumFunctionOnSet(Quantities, Live(p)) = SumFunctionOnSet(Quantities', Live(p))
  BY <1>2, <1>3, SumSame, Zenon
<1> QED
  BY <1>1, <1>3, <1>4, Zenon

\* The quantities of rows are natural numbers.
LEMMA QuantitiesAreNat ==
    ASSUME TypeOK PROVE \A k \in Keys : Quantities[k] = reservations[k].quantity /\ Quantities[k] \in Nat
  BY Zenon DEF TypeOK, Quantities, Reservation, Book!Reservation

\* The sum follows when one row changes: from the two sums over the product of that row.
LEMMA SumInvFollows ==
    ASSUME TypeOK, SumInv, NEW key \in Keys, key[2] \in Products,
           \A k \in Keys \ {key} : reservations'[k] = reservations[k],
           \A p \in Products \ {key[2]} : stock'[p] = stock[p],
           stock'[key[2]].reserved = SumFunctionOnSet(Quantities', Live(key[2])'),
           IsFiniteSet(Live(key[2])')
    PROVE  SumInv'
<1>1. ASSUME NEW p \in Products
      PROVE  /\ stock'[p].reserved = SumFunctionOnSet(Quantities', Live(p)')
             /\ IsFiniteSet(Live(p)')
  <2>1. CASE p = key[2]
    BY <2>1, Zenon
  <2>2. CASE p # key[2]
    BY <2>2, OtherProductsKeepTheirSums, Zenon
  <2> QED
    BY <2>1, <2>2, Zenon
<1> QED
  BY <1>1, Zenon DEF SumInv, ReservedIsSumOfReservations, Quantities

\* A row that becomes live adds its quantity to both sides.
LEMMA LiveRowAdds ==
    ASSUME TypeOK, SumInv, NEW key \in Keys, NEW p \in Products, key[2] = p, NEW q \in Nat,
           \A k \in Keys \ {key} : reservations'[k] = reservations[k],
           reservations[key].status = "none",
           reservations'[key] = [quantity |-> q, status |-> "reserved"],
           \A r \in Products \ {p} : stock'[r] = stock[r],
           stock'[p].reserved = stock[p].reserved + q
    PROVE  SumInv'
<1> DEFINE before == SumFunctionOnSet(Quantities, Live(p))
<1>1. reservations'[key].quantity = q /\ reservations'[key].status = "reserved"
  OBVIOUS
<1>2. Live(p)' = Live(p) \cup {key} /\ key \notin Live(p)
  BY <1>1, Zenon DEF Live
<1>3. IsFiniteSet(Live(p)) /\ stock[p].reserved = before /\ Live(p) \subseteq Keys
  BY Zenon DEF SumInv, ReservedIsSumOfReservations, Quantities, Live
<1>4. /\ \A k \in Live(p) : Quantities[k] = Quantities'[k]
      /\ \A k \in Keys : Quantities[k] \in Int
      /\ Quantities'[key] = q
  BY <1>1, <1>2, QuantitiesAreNat DEF Live, Quantities
<1>5. before = SumFunctionOnSet(Quantities', Live(p)) /\ before \in Int
  BY <1>3, <1>4, SumSame, SumType
<1>6. SumFunctionOnSet(Quantities', Live(p) \cup {key})
        = Quantities'[key] + SumFunctionOnSet(Quantities', Live(p))
  <2>1. \A k \in Live(p) \cup {key} : Quantities'[k] \in Int
    BY <1>3, <1>4
  <2> QED
    BY <1>2, <1>3, <2>1, SumAdd, Zenon
<1>7. IsFiniteSet(Live(p)')
  BY <1>2, <1>3, FS_AddElement
<1> HIDE DEF before
<1>8. stock'[p].reserved = SumFunctionOnSet(Quantities', Live(p)')
  <2>1. SumFunctionOnSet(Quantities', Live(p)') = q + before
    BY <1>2, <1>4, <1>5, <1>6, Zenon
  <2>2. q + before = before + q
    BY <1>5
  <2> QED
    BY <1>3, <2>1, <2>2, Zenon
<1> QED
  BY <1>7, <1>8, SumInvFollows, Zenon

\* A live row that is released takes its quantity from both sides.
LEMMA ReleasedRowSubtracts ==
    ASSUME TypeOK, SumInv, NEW key \in Keys, NEW p \in Products, key[2] = p, NEW q \in Nat,
           \A k \in Keys \ {key} : reservations'[k] = reservations[k],
           reservations[key].status = "reserved", reservations[key].quantity = q,
           reservations'[key].status = "released",
           \A r \in Products \ {p} : stock'[r] = stock[r],
           stock'[p].reserved = stock[p].reserved - q
    PROVE  SumInv'
<1> DEFINE after == SumFunctionOnSet(Quantities, Live(p) \ {key})
<1>1. Live(p)' = Live(p) \ {key} /\ key \in Live(p)
  BY DEF Live
<1>2. /\ IsFiniteSet(Live(p)) /\ stock[p].reserved = SumFunctionOnSet(Quantities, Live(p))
      /\ Live(p) \subseteq Keys
  BY Zenon DEF SumInv, ReservedIsSumOfReservations, Quantities, Live
<1>3. IsFiniteSet(Live(p) \ {key})
  BY <1>2, FS_RemoveElement, Zenon
<1>4. /\ \A k \in Live(p) \ {key} : Quantities[k] = Quantities'[k]
      /\ \A k \in Keys : Quantities[k] \in Int
      /\ Quantities[key] = q
  BY QuantitiesAreNat DEF Live, Quantities
<1>5. after = SumFunctionOnSet(Quantities', Live(p) \ {key}) /\ after \in Int
  BY <1>2, <1>3, <1>4, SumSame, SumType
<1>6. SumFunctionOnSet(Quantities, Live(p)) = Quantities[key] + after
  BY <1>1, <1>2, <1>4, SumRemove
<1> HIDE DEF after
<1>7. stock'[p].reserved = SumFunctionOnSet(Quantities', Live(p)')
  <2>1. stock'[p].reserved = (q + after) - q
    BY <1>2, <1>4, <1>6, Zenon
  <2>2. (q + after) - q = after
    BY <1>5
  <2> QED
    BY <1>1, <1>5, <2>1, <2>2, Zenon
<1>8. IsFiniteSet(Live(p)')
  BY <1>1, <1>3, Zenon
<1> QED
  BY <1>7, <1>8, SumInvFollows, Zenon

\* The two commits change one row and the stock of its product.
LEMMA CommitSum ==
    ASSUME IndInv, SumInv, NEW w \in Workers, CommitReserve(w) \/ CommitRelease(w)
    PROVE  SumInv'
<1>1. PICK p, q, key : p = req[w].product /\ q = req[w].quantity /\ key = Key(w)
  BY Zenon
<1>2. /\ TypeOK /\ RowsAsRead(w) /\ key \in Keys /\ p \in Products /\ q \in Nat
      /\ pc[w] = "commit" /\ key = <<req[w].order, p>>
  BY <1>1, CommitFacts, Zenon DEF CommitReserve, CommitRelease, Key
<1>3. key[2] = p
  BY <1>2, Zenon
<1>4. CASE CommitReserve(w)
  <2>1. /\ reservations' = [reservations EXCEPT ![key] = [quantity |-> q, status |-> "reserved"]]
        /\ stock' = [stock EXCEPT ![p] = [available |-> stock[p].available - q,
                                          reserved |-> stock[p].reserved + q]]
        /\ reservations[key].status = "none"
    BY <1>1, <1>2, <1>4, Zenon DEF CommitReserve, InsertReservation, UpdateStockForReserve,
       RowsAsRead
  <2>2. /\ \A k \in Keys \ {key} : reservations'[k] = reservations[k]
        /\ reservations'[key] = [quantity |-> q, status |-> "reserved"]
        /\ \A r \in Products \ {p} : stock'[r] = stock[r]
        /\ stock'[p] = [available |-> stock[p].available - q, reserved |-> stock[p].reserved + q]
    BY <1>2, <2>1, Zenon DEF TypeOK
  <2>3. stock'[p].reserved = stock[p].reserved + q
    BY <2>2
  <2> QED
    BY <1>2, <1>3, <2>1, <2>2, <2>3, LiveRowAdds, Zenon
<1>5. CASE CommitRelease(w)
  <2>1. /\ reservations' = [reservations EXCEPT
                              ![key] = [reservations[key] EXCEPT !.status = "released"]]
        /\ stock' = [stock EXCEPT ![p] = [available |-> stock[p].available + q,
                                          reserved |-> stock[p].reserved - q]]
        /\ reservations[key].status = "reserved" /\ reservations[key].quantity = q
    BY <1>1, <1>2, <1>5, Zenon DEF CommitRelease, UpdateReservationStatus,
       UpdateStockForRelease, RowsAsRead, ReleaseApplies
  <2>2. /\ \A k \in Keys \ {key} : reservations'[k] = reservations[k]
        /\ reservations'[key] = [reservations[key] EXCEPT !.status = "released"]
        /\ \A r \in Products \ {p} : stock'[r] = stock[r]
        /\ stock'[p] = [available |-> stock[p].available + q, reserved |-> stock[p].reserved - q]
        /\ reservations[key] \in [quantity : Nat, status : Book!ReservationStatus]
    BY <1>2, <2>1, Zenon DEF TypeOK, Reservation, Book!Reservation
  <2>3. stock'[p].reserved = stock[p].reserved - q /\ reservations'[key].status = "released"
    BY <2>2
  <2>4. /\ \A k \in Keys \ {key} : reservations'[k] = reservations[k]
        /\ \A r \in Products \ {p} : stock'[r] = stock[r]
        /\ reservations[key].status = "reserved" /\ reservations[key].quantity = q
        /\ TypeOK /\ key \in Keys /\ p \in Products /\ q \in Nat
    BY <1>2, <2>1, <2>2, Zenon
  <2> QED
    BY <1>3, <2>3, <2>4, ReleasedRowSubtracts, Zenon
<1> QED
  BY <1>4, <1>5, Zenon

\* The sum holds in the empty tables, and every step keeps it.
LEMMA SumInvariance == Spec => []SumInv
<1>1. Init => SumInv
  <2> SUFFICES ASSUME Init PROVE SumInv
    BY Zenon
  <2>1. \A p \in Products : Live(p) = {} /\ stock[p].reserved = 0
    BY Zenon DEF Init, Live, NoReservation, Book!NoReservation
  <2>2. \A p \in Products : IsFiniteSet(Live(p))
    BY <2>1, FS_EmptySet, Zenon
  <2>3. \A p \in Products : SumFunctionOnSet(Quantities, Live(p)) = 0
    BY <2>1, SumEmpty, Zenon
  <2> QED
    BY <2>1, <2>2, <2>3, Zenon DEF SumInv, ReservedIsSumOfReservations, Quantities
<1>2. IndInv /\ SumInv /\ [Next]_vars => SumInv'
  <2> SUFFICES ASSUME IndInv, SumInv, [Next]_vars PROVE SumInv'
    BY Zenon
  <2>1. CASE UNCHANGED <<stock, reservations>>
    <3>1. stock' = stock /\ reservations' = reservations
      BY <2>1, Zenon
    <3> QED
      BY <3>1, Zenon DEF SumInv, ReservedIsSumOfReservations, Live
  <2> QED
    BY <2>1, NextKeepsTables, CommitSum, Zenon
<1> QED
  BY <1>1, <1>2, Invariance, PTL DEF Spec

\* The reserved column of every product is what the live reservations of it add up
\* to, whatever calls were retried, failed half-way or ran at the same time.
THEOREM ReservedIsSum == Spec => []ReservedIsSumOfReservations
<1>1. SumInv => ReservedIsSumOfReservations
  BY Zenon DEF SumInv
<1> QED
  BY <1>1, SumInvariance, PTL

\* The refusal of UpdateStockForRelease, reserved < q, never happens to a release that
\* has locked its row: the units it gives back are there.
THEOREM ReleaseFindsItsUnits ==
    Spec => [](\A w \in Workers : pc[w] = "stock" /\ req[w].op = "release" =>
                   EnoughReserved(stock[req[w].product], req[w].quantity))
<1>1. ASSUME IndInv, SumInv, NEW w \in Workers, pc[w] = "stock", req[w].op = "release"
      PROVE  EnoughReserved(stock[req[w].product], req[w].quantity)
  <2>1. PICK p, q, key : p = req[w].product /\ q = req[w].quantity /\ key = Key(w)
    BY Zenon
  <2>2. TypeOK /\ RowsAsRead(w) /\ req[w] \in WriteRequest
    BY <1>1, Zenon DEF IndInv, LocksProtect, RequestFits, InTx
  <2>3. key \in Keys /\ p \in Products /\ key = <<req[w].order, p>>
    BY <2>1, <2>2, KeyFacts, Zenon
  <2>4. key \in Live(p) /\ reservations[key].quantity = q
    BY <1>1, <2>1, <2>2, <2>3 DEF Live, RowsAsRead, ReleaseApplies
  <2>5. /\ IsFiniteSet(Live(p)) /\ stock[p].reserved = SumFunctionOnSet(Quantities, Live(p))
        /\ Live(p) \subseteq Keys
    BY <1>1, <2>3, Zenon DEF SumInv, ReservedIsSumOfReservations, Quantities, Live
  <2>6. \A k \in Live(p) : Quantities[k] = reservations[k].quantity /\ Quantities[k] \in Nat
    BY <2>2, <2>5, QuantitiesAreNat, Zenon
  <2>7. stock[p].reserved \in Nat /\ Quantities[key] <= stock[p].reserved
    BY <2>4, <2>5, <2>6, SumNat
  <2>8. q \in Nat /\ q <= stock[p].reserved
    BY <2>4, <2>6, <2>7, Zenon
  <2> QED
    BY <2>1, <2>7, <2>8 DEF EnoughReserved
<1>2. IndInv /\ SumInv =>
         \A w \in Workers : pc[w] = "stock" /\ req[w].op = "release" =>
             EnoughReserved(stock[req[w].product], req[w].quantity)
  BY <1>1, Zenon
<1> QED
  BY <1>2, Invariance, SumInvariance, PTL

=============================================================================
