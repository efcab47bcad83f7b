------------------------------- MODULE Listing -------------------------------
(***************************************************************************)
(* The two paged lists, ListProducts and ListOrders, read page after page  *)
(* by a client while rows are added and removed.  Every page is a query of *)
(* its own over the table as it is then.                                   *)
(*                                                                         *)
(* The table is the sequence of its rows in the order of the query, newest *)
(* first; rows with one created_at are a set, which each query may return  *)
(* in another order.  ListOrders breaks such ties by id, ListProducts does *)
(* not.  An order is joined with its lines, and LIMIT and OFFSET count the *)
(* joined rows: a page may hold part of an order, and the total, which     *)
(* counts orders, does not tell how many pages there are.  The client      *)
(* therefore reads until a page is empty.                                  *)
(***************************************************************************)
EXTENDS Naturals, Sequences, FiniteSets, Access

LOCAL INSTANCE SequencesExt
LOCAL INSTANCE FiniteSetsExt

CONSTANTS Items,      \* products or orders
          MaxLines,   \* bound on the lines of an order
          PageSizes,  \* page_size is positive: the interceptor checks it
          MaxPages    \* bound on the pages a client reads

ASSUME ListingAssumption ==
    /\ MaxLines \in Nat \ {0} /\ PageSizes \subseteq Nat \ {0} /\ MaxPages \in Nat

VARIABLES list,   \* which list it is
          table,  \* its rows (item, owner, number of lines), tied ones together
          fresh,  \* items not yet created: identifiers are never used again
          walk    \* the client: the page it is at, what it saw, what was there
                  \* untied when it began and still is, how many were deleted

listingVars == <<list, table, fresh, walk>>

ItemsOf(rows) == {row.item : row \in rows}
Mine(t) == SelectSeq(t, LAMBDA rows : \A row \in rows : row.owner = "me")
Untied(t) == UNION {ItemsOf(rows) : rows \in {rows \in Range(t) : Cardinality(rows) = 1}}

\* A row of ListProducts belongs to everybody.
NewRows(item) ==
    [item : {item}, owner : IF list = "products" THEN {"me"} ELSE {"me", "other"},
     lines : IF list = "products" THEN {1} ELSE 1..MaxLines]

ListingInit ==
    /\ list \in {"products", "orders"}
    /\ table = <<>> /\ fresh = Items
    /\ walk = [page |-> 0, size |-> 0, seen |-> {}, expected |-> {}, deleted |-> 0, done |-> FALSE]

\* created_at is taken before the transaction, so a slow insert lands below newer
\* rows, or at the very time of one.
InsertRow(item) ==
    /\ item \in fresh /\ fresh' = fresh \ {item}
    /\ \E row \in NewRows(item) :
           \/ \E at \in 1..Len(table) + 1 : table' = InsertAt(table, at, {row})
           \/ \E at \in DOMAIN table : list = "products" /\ table' = [table EXCEPT ![at] = @ \cup {row}]
    /\ walk' = [walk EXCEPT !.expected = @ \cap Untied(table')]
    /\ UNCHANGED list

\* DeleteProduct.  Orders are never deleted.
DeleteRow(row) ==
    /\ list = "products"
    /\ table' = SelectSeq([i \in DOMAIN table |-> table[i] \ {row}], LAMBDA rows : rows # {})
    /\ walk' = [walk EXCEPT !.expected = @ \ {row.item},
                            !.deleted = IF walk.page > 0 /\ ~walk.done THEN @ + 1 ELSE @]
    /\ UNCHANGED <<list, fresh>>

\* OrderHandler.ListOrders takes the owner from the token; ListProducts is public.
WalkBegins(size) ==
    /\ walk.page = 0
    /\ walk' = [walk EXCEPT !.page = 1, !.size = size, !.expected = Untied(Mine(table))]
    /\ UNCHANGED <<list, table, fresh>>

\* LEFT JOIN order_items: the joined rows of the first n sets of rows.
Joined(t, n) == MapThenSumSet(LAMBDA row : row.lines, UNION {t[i] : i \in 1..n})

\* Mutant: pages numbered from zero.
OffsetFromZero(page, size) == page * size

\* A page before the first is the first.
Offset(page, size) == IF page < 1 THEN 0 ELSE (page - 1) * size

\* The sets of items that the rows of t[i] can put on a page: of tied rows any
\* as many as have their places on it.
Shown(t, i, from, size) ==
    LET places == (Joined(t, i - 1) + 1 .. Joined(t, i)) \cap (from + 1 .. from + size) IN
    IF Cardinality(t[i]) = 1 THEN {IF places = {} THEN {} ELSE ItemsOf(t[i])}
    ELSE kSubset(Cardinality(places), ItemsOf(t[i]))

\* ProductPostgres.List and OrderPostgres.ListByUser: what a page may hold.
Pages(page, size) ==
    LET t == Mine(table) IN
    {shown \in SUBSET ItemsOf(UNION Range(t)) :
        \A i \in DOMAIN t : shown \cap ItemsOf(t[i]) \in Shown(t, i, Offset(page, size), size)}

WalkReads ==
    /\ walk.page \in 1..MaxPages /\ ~walk.done
    /\ \E shown \in Pages(walk.page, walk.size) :
           walk' = [walk EXCEPT !.page = @ + 1, !.seen = @ \cup shown, !.done = shown = {}]
    /\ UNCHANGED <<list, table, fresh>>

ListingNext ==
    \/ \E item \in Items : InsertRow(item)
    \/ \E row \in UNION Range(table) : DeleteRow(row)
    \/ \E size \in PageSizes : WalkBegins(size)
    \/ WalkReads

ListingSpec == ListingInit /\ [][ListingNext]_listingVars

-----------------------------------------------------------------------------
\* A client that read all pages saw every product, and a part at least of every
\* order of its own, that was there all the time, but for one per row deleted
\* meanwhile.  Rows inserted while it reads only make it see some twice.  Nothing is
\* promised of a product that shares its created_at with another one: the two may
\* change places between two pages.
WalkMissesOnlyDeleted ==
    walk.done => Cardinality(walk.expected \ walk.seen) <= walk.deleted
=============================================================================
