------------------------------- MODULE Catalog -------------------------------
(***************************************************************************)
(* catalog-service: product writes that store an event in the same         *)
(* transaction, and the relays of the replicas, which project the events   *)
(* into the search index.                                                  *)
(*                                                                         *)
(* A write is read, written and committed in separate steps; what it wrote *)
(* is in its record until it commits, and so is the row lock it holds.  A  *)
(* relay reads a batch in one transaction, calls Elasticsearch outside of  *)
(* any, and records the outcomes in another.                               *)
(***************************************************************************)
EXTENDS Naturals, Sequences, Access

LOCAL INSTANCE SequencesExt
LOCAL INSTANCE FiniteSetsExt

CONSTANTS Writers,           \* requests; each creates at most the product of its name
          Seeded,            \* a product that was there before
          IdempotencyKeys, SeededKey,
          Edits,             \* sets of fields an update sends
          IndexRelays,       \* one per replica
          IndexBatch,        \* LIMIT of GetUnprocessed
          IndexRetries,      \* Relay.maxRetries
          MaxCatalogFaults   \* bound on failed calls, lost transactions and crashes

ASSUME CatalogAssumption ==
    /\ \A sent \in Edits : sent \subseteq {"name", "price"}
    /\ SeededKey \in IdempotencyKeys /\ Seeded \notin Writers

ProductIds == Writers \cup {Seeded}
Fields == {"name", "price"}
NoRow == [name |-> "", price |-> "", key |-> ""]

VARIABLES products,     \* committed table: id -> row
          events,       \* outbox, with outbox_dlq, in the order of insertion: see Event
          index,        \* Elasticsearch: id -> document
          writer,       \* requests
          relay,
          disturbed,    \* history: products whose projection failed or was raced
          catalogFaults

catalogVars == <<products, events, index, writer, relay, disturbed, catalogFaults>>

\* A row says who wrote each field; its key is never updated.
Row(w, key) == [name |-> w, price |-> w, key |-> key]

\* created_at is the time of the clocks of the replicas, which agree.
Event(type, id, row, at) ==
    [type |-> type, id |-> id, row |-> row, at |-> at, retries |-> 0, due |-> TRUE, state |-> "new"]

Idle == [pc |-> "idle", batch |-> <<>>, results |-> <<>>]

\* ProductES.Index: the document has every field but the key.
Document(row) == [f \in Fields |-> row[f]]
NoDocument == Document(NoRow)

\* Events that wait when a service starts are like ones that come later.  How the
\* index comes to be is in Lifecycle.
CatalogInit ==
    /\ products = [p \in ProductIds |-> IF p = Seeded THEN Row(Seeded, SeededKey) ELSE NoRow]
    /\ index = [p \in ProductIds |-> Document(products[p])]
    /\ events = <<[Event("ProductCreated", Seeded, Row(Seeded, SeededKey), 1) EXCEPT !.state = "processed"]>>
    /\ writer = [w \in Writers |-> [pc |-> "new", op |-> "", id |-> w, sent |-> {},
                                    row |-> NoRow, at |-> 0]]
    /\ relay = [r \in IndexRelays |-> Idle]
    /\ disturbed = {}
    /\ catalogFaults = 0

CatalogFault == catalogFaults < MaxCatalogFaults /\ catalogFaults' = catalogFaults + 1
NoCatalogFault == UNCHANGED catalogFaults

-----------------------------------------------------------------------------
(* Product writes.                                                         *)

WriterGoes(w, fields) == writer' = [writer EXCEPT ![w] = fields @@ @]
Answer(w, what) == WriterGoes(w, [pc |-> what])

Locked(p) == \E w \in Writers : writer[w].pc = "commit" /\ writer[w].id = p

WithKey(key) == {p \in ProductIds : products[p] # NoRow /\ products[p].key = key}

\* time.Now: later than whatever was stamped before.
Now == 1 + Max({events[i].at : i \in DOMAIN events} \cup {writer[w].at : w \in Writers})

\* The handlers: CreateProduct asks for no role, the other two for admin.  Its event
\* is made, and stamped, before the transaction.
Begin(w, op, token, id, sent) ==
    /\ writer[w].pc = "new"
    /\ LET who == Caller(op, token) IN
       IF Admitted(op, token) /\ (op = "CreateProduct" \/ RequireRole(who, {"admin"}))
       THEN WriterGoes(w, [pc |-> IF op = "UpdateProduct" THEN "read" ELSE "write",
                           op |-> op, id |-> id, sent |-> sent,
                           at |-> IF op = "CreateProduct" THEN Now ELSE 0])
       ELSE Answer(w, "denied")
    /\ UNCHANGED <<products, events, index, relay, disturbed, catalogFaults>>

\* ProductPostgres.Create: the insert waits for a transaction that holds the key.
Create(w, key) ==
    /\ writer[w].pc = "write"
    /\ \A v \in Writers :
           ~(writer[v].pc = "commit" /\ writer[v].op = "CreateProduct" /\ writer[v].row.key = key)
    /\ \A p \in WithKey(key) : ~Locked(p)
    /\ IF WithKey(key) # {} THEN Answer(w, "exists")
       ELSE WriterGoes(w, [pc |-> "commit", row |-> Row(w, key)])
    /\ UNCHANGED <<products, events, index, relay, disturbed, catalogFaults>>

\* UpdateProduct, GetByID: no lock.
ReadRow(w) ==
    /\ writer[w].pc = "read"
    /\ LET p == writer[w].id IN
       IF products[p] = NoRow THEN Answer(w, "not found")
       ELSE WriterGoes(w, [pc |-> "write", row |-> products[p]])
    /\ UNCHANGED <<products, events, index, relay, disturbed, catalogFaults>>

\* Only fields that were sent change in the copy that is written back.
Merged(w) ==
    [f \in DOMAIN writer[w].row |-> IF f \in writer[w].sent THEN w ELSE writer[w].row[f]]

\* ProductPostgres.Update writes every column; it waits for the row.  The event of
\* an update or a deletion is made next, while the row is locked.
Update(w) ==
    /\ writer[w].pc = "write" /\ ~Locked(writer[w].id)
    /\ IF products[writer[w].id] = NoRow THEN Answer(w, "not found")
       ELSE WriterGoes(w, [pc |-> "commit", row |-> Merged(w), at |-> Now])
    /\ UNCHANGED <<products, events, index, relay, disturbed, catalogFaults>>

Delete(w) ==
    /\ writer[w].pc = "write" /\ ~Locked(writer[w].id)
    /\ IF products[writer[w].id] = NoRow THEN Answer(w, "not found")
       ELSE WriterGoes(w, [pc |-> "commit", row |-> NoRow, at |-> Now])
    /\ UNCHANGED <<products, events, index, relay, disturbed, catalogFaults>>

\* The event is inserted after the row is written, and both are committed.  The
\* caller may see an error all the same.
Commit(w, type) ==
    /\ writer[w].pc = "commit"
    /\ LET p == writer[w].id IN
       /\ products' = [products EXCEPT ![p] = writer[w].row]
       /\ events' = Append(events, Event(type, p, writer[w].row, writer[w].at))
    /\ \/ Answer(w, "done") /\ NoCatalogFault
       \/ Answer(w, "error") /\ CatalogFault
    /\ UNCHANGED <<index, relay, disturbed>>

\* The use cases: the statements of each transaction in their order.
CreateProduct(w) ==
    /\ writer[w].op = "CreateProduct"
    /\ (\E key \in IdempotencyKeys : Create(w, key)) \/ Commit(w, "ProductCreated")

UpdateProduct(w) ==
    writer[w].op = "UpdateProduct" /\ (ReadRow(w) \/ Update(w) \/ Commit(w, "ProductUpdated"))

DeleteProduct(w) ==
    writer[w].op = "DeleteProduct" /\ (Delete(w) \/ Commit(w, "ProductDeleted"))

\* An error, a timeout or the end of the process before the commit: rollback.
WriteFails(w) ==
    /\ writer[w].pc \in {"read", "write", "commit"}
    /\ CatalogFault /\ Answer(w, "error")
    /\ UNCHANGED <<products, events, index, relay, disturbed>>

-----------------------------------------------------------------------------
(* The relay.                                                              *)

Busy(r) == relay[r].pc # "idle"
InBatch(r) == {relay[r].batch[n].event : n \in DOMAIN relay[r].batch}
ProductsOf(r) == {events[i].id : i \in InBatch(r)}

\* FOR UPDATE SKIP LOCKED passes over what another relay is reading.
Waiting(r) ==
    {i \in DOMAIN events :
        /\ events[i].state = "new" /\ events[i].due
        /\ \A q \in IndexRelays \ {r} : relay[q].pc = "reading" => i \notin InBatch(q)}

\* ORDER BY created_at LIMIT.
GetUnprocessed(r) ==
    LET all == SetToSortSeq(Waiting(r), LAMBDA i, j : events[i].at < events[j].at)
    IN  [n \in 1..(IF Len(all) < IndexBatch THEN Len(all) ELSE IndexBatch) |->
            [event |-> all[n], retries |-> events[all[n]].retries]]

\* The first transaction of poll, its locks still held.  From here on two relays
\* whose batches have a product in common race.
PollReads(r) ==
    /\ relay[r].pc = "idle" /\ Waiting(r) # {}
    /\ relay' = [relay EXCEPT ![r] = [Idle EXCEPT !.pc = "reading", !.batch = GetUnprocessed(r)]]
    /\ LET mine == {events[b.event].id : b \in Range(GetUnprocessed(r))} IN
       disturbed' = disturbed \cup
           (mine \cap UNION {ProductsOf(q) : q \in {q \in IndexRelays \ {r} : Busy(q)}})
    /\ UNCHANGED <<products, events, index, writer, catalogFaults>>

\* Mutant: the transaction that reads the batch marks it as processed.
PollMarksOnRead(r) ==
    /\ relay[r].pc = "reading"
    /\ relay' = [relay EXCEPT ![r].pc = "handling"]
    /\ events' = [i \in DOMAIN events |->
                     IF i \in InBatch(r) THEN [events[i] EXCEPT !.state = "processed"] ELSE events[i]]
    /\ UNCHANGED <<products, index, writer, disturbed, catalogFaults>>

PollCommitsRead(r) ==
    /\ relay[r].pc = "reading"
    /\ relay' = [relay EXCEPT ![r].pc = "handling"]
    /\ UNCHANGED <<products, events, index, writer, disturbed, catalogFaults>>

IndexDocument(id, row) == [index EXCEPT ![id] = Document(row)]

\* A document that is gone is no error.
DeleteDocument(id) == [index EXCEPT ![id] = NoDocument]

\* ESHandler.Handle.  The payloads are the service's own, so none is poison.
Handle(event) ==
    CASE event.type \in {"ProductCreated", "ProductUpdated"} -> IndexDocument(event.id, event.row)
      [] event.type = "ProductDeleted" -> DeleteDocument(event.id)

PollHandles(r) ==
    LET n == Len(relay[r].results) + 1
        event == events[relay[r].batch[n].event]
        Outcome(what) ==
            relay' = [relay EXCEPT ![r].results = Append(@, what),
                                   ![r].pc = IF n = Len(relay[r].batch) THEN "saving" ELSE @]
    IN  /\ relay[r].pc = "handling"
        /\ \/ /\ index' = Handle(event) /\ Outcome("ok")
              /\ NoCatalogFault /\ UNCHANGED disturbed
           \/ /\ index' \in {index, Handle(event)} /\ Outcome("failed")
              /\ CatalogFault /\ disturbed' = disturbed \cup {event.id}
        /\ UNCHANGED <<products, events, writer>>

\* BatchMarkProcessed, MoveToDLQ or IncrementRetryAndSetError.  A row that is in
\* outbox_dlq is no longer in outbox.
Recorded(row, retries, what) ==
    IF row.state = "dead" THEN row
    ELSE IF what = "ok" THEN [row EXCEPT !.state = "processed"]
    ELSE IF retries + 1 >= IndexRetries THEN [row EXCEPT !.state = "dead"]
    ELSE [row EXCEPT !.retries = @ + 1, !.due = FALSE]

PollSaves(r) ==
    /\ relay[r].pc = "saving"
    /\ \A q \in IndexRelays \ {r} : relay[q].pc = "reading" => InBatch(q) \cap InBatch(r) = {}
    /\ events' = [i \in DOMAIN events |->
           IF i \notin InBatch(r) THEN events[i]
           ELSE LET n == CHOOSE n \in DOMAIN relay[r].batch : relay[r].batch[n].event = i
                IN  Recorded(events[i], relay[r].batch[n].retries, relay[r].results[n])]
    /\ relay' = [relay EXCEPT ![r] = Idle]
    /\ UNCHANGED <<products, index, writer, disturbed, catalogFaults>>

\* A transaction of the poll is lost, or the process ends and another starts.
PollLost(r) ==
    /\ relay[r].pc # "idle"
    /\ CatalogFault /\ relay' = [relay EXCEPT ![r] = Idle]
    /\ UNCHANGED <<products, events, index, writer, disturbed>>

\* calculateNextRetry has passed.
RetryDue(i) ==
    /\ ~events[i].due
    /\ events' = [events EXCEPT ![i].due = TRUE]
    /\ UNCHANGED <<products, index, writer, relay, disturbed, catalogFaults>>

-----------------------------------------------------------------------------
CatalogTokens == {Token("operator", "admin", TRUE), Token("customer", "user", TRUE)}

CatalogNext ==
    \/ \E w \in Writers :
           \/ \E t \in CatalogTokens :
                  \/ Begin(w, "CreateProduct", t, w, {})
                  \/ \E p \in ProductIds, sent \in Edits : Begin(w, "UpdateProduct", t, p, sent)
                  \/ \E p \in ProductIds : Begin(w, "DeleteProduct", t, p, {})
           \/ CreateProduct(w) \/ UpdateProduct(w) \/ DeleteProduct(w) \/ WriteFails(w)
    \/ \E r \in IndexRelays :
           PollReads(r) \/ PollCommitsRead(r) \/ PollHandles(r) \/ PollSaves(r) \/ PollLost(r)
    \/ \E i \in DOMAIN events : RetryDue(i)

CatalogSpec == CatalogInit /\ [][CatalogNext]_catalogVars

-----------------------------------------------------------------------------
EventsOf(p) == {i \in DOMAIN events : events[i].id = p}

\* Once all events of a product are settled, the index has it as the table does,
\* however many polls were lost half-way and repeated, and though the events of
\* products created at the same time are read in another order than committed.  It
\* takes a failed call, which lets a later event pass an earlier one, or two relays
\* at work on the same product to break this.
IndexFollowsTable ==
    \A p \in ProductIds \ disturbed :
        /\ \A i \in EventsOf(p) : events[i].state # "new"
        /\ \A r \in IndexRelays : Busy(r) => p \notin ProductsOf(r)
        => index[p] = Document(products[p])

\* "Обновляем только явно переданные поля": a field that the caller did not send is
\* after UpdateProduct what it was before.
OnlySentFieldsChange ==
    [][\A w \in Writers :
          LET p == writer[w].id IN
          writer[w].op = "UpdateProduct" /\ writer[w].pc = "commit" /\ products'[p] # products[p] =>
              \A f \in Fields \ writer[w].sent : products'[p][f] = products[p][f]]_catalogVars
=============================================================================
