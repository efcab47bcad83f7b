----------------------------- MODULE OrderOutbox -----------------------------
(***************************************************************************)
(* The transactional outbox of order-service: CreateOrder stores an event  *)
(* with the order, and the relays of the service's replicas publish it.    *)
(*                                                                         *)
(* A relay reads, publishes and marks a batch inside one transaction that  *)
(* holds the row locks; the broker is outside of it.  What the transaction *)
(* wrote is in batch until it commits.                                     *)
(***************************************************************************)
EXTENDS Integers, FiniteSets, FiniteSetsExt

CONSTANTS Events,
          Relays,      \* one per replica
          BatchSize,   \* LIMIT of GetUnprocessed
          MaxSends,    \* Relay.maxRetries
          MaxRelayFaults   \* bound on transactions lost, commits failed and crashes

ASSUME OutboxAssumption ==
    /\ BatchSize \in Nat \ {0} /\ MaxSends \in Nat \ {0} /\ MaxRelayFaults \in Nat

VARIABLES outbox, dlq,      \* committed tables
          copies,           \* broker: event -> how often it is in the topic
          relay,            \* per relay: where it is,
          batch, lost,      \* what its transaction did, and whether that is gone
          failures,         \* history: event -> sends that returned an error
          relayFaults       \* failures of the database and the process so far

outboxVars == <<outbox, dlq, copies, relay, batch, lost, failures, relayFaults>>

NoRow  == [state |-> "none", retries |-> 0, due |-> FALSE]
NewRow == [state |-> "waiting", retries |-> 0, due |-> TRUE]
NoBatch == [left |-> {}, sent |-> {}, failed |-> {}]

Locked(r) == batch[r].left \cup batch[r].sent \cup batch[r].failed

OutboxInit ==
    /\ outbox = [e \in Events |-> NoRow]
    /\ dlq = {}
    /\ copies = [e \in Events |-> 0]
    /\ relay = [r \in Relays |-> "off"]
    /\ batch = [r \in Relays |-> NoBatch]
    /\ lost = [r \in Relays |-> FALSE]
    /\ failures = [e \in Events |-> 0]
    /\ relayFaults = 0

-----------------------------------------------------------------------------
RelayFault == relayFaults < MaxRelayFaults /\ relayFaults' = relayFaults + 1

\* The transaction of CreateOrder commits the order and its event.
Create(e) ==
    /\ outbox[e] = NoRow
    /\ outbox' = [outbox EXCEPT ![e] = NewRow]
    /\ UNCHANGED <<dlq, copies, relay, batch, lost, failures, relayFaults>>

\* next_retry_at has passed.
BackoffElapses(e) ==
    /\ outbox[e].state = "waiting" /\ ~outbox[e].due
    /\ outbox' = [outbox EXCEPT ![e].due = TRUE]
    /\ UNCHANGED <<dlq, copies, relay, batch, lost, failures, relayFaults>>

Start(r) ==
    /\ relay[r] = "off"
    /\ relay' = [relay EXCEPT ![r] = "idle"]
    /\ UNCHANGED <<outbox, dlq, copies, batch, lost, failures, relayFaults>>

\* Stop, or the end of the context that Start was given.
LoopEnds(r) ==
    /\ relay[r] = "idle"
    /\ relay' = [relay EXCEPT ![r] = "off"]
    /\ UNCHANGED <<outbox, dlq, copies, batch, lost, failures, relayFaults>>

\* Mutants: no SKIP LOCKED; rows that failed once are not read again.
AvailableEvenLocked(r) == {e \in Events : outbox[e].state = "waiting" /\ outbox[e].due}

AvailableOnce(r) ==
    {e \in Events :
        /\ outbox[e].state = "waiting" /\ outbox[e].due /\ outbox[e].retries = 0
        /\ \A other \in Relays \ {r} : e \in Locked(other) => lost[other]}

\* Rows another live transaction has locked are skipped.
Available(r) ==
    {e \in Events :
        /\ outbox[e].state = "waiting" /\ outbox[e].due
        /\ \A other \in Relays \ {r} : e \in Locked(other) => lost[other]}

GetUnprocessed(r) ==
    /\ relay[r] = "idle"
    /\ Available(r) # {}
    /\ \E events \in kSubset(Min({BatchSize, Cardinality(Available(r))}), Available(r)) :
          batch' = [batch EXCEPT ![r].left = events]
    /\ relay' = [relay EXCEPT ![r] = "send"]
    /\ UNCHANGED <<outbox, dlq, copies, lost, failures, relayFaults>>

\* The next event of the batch has had its turn.
Handled(r, e, field) ==
    /\ batch' = [batch EXCEPT ![r].left = @ \ {e}, ![r][field] = @ \cup {e}]
    /\ relay' = [relay EXCEPT ![r] = IF batch[r].left = {e} THEN "commit" ELSE "send"]

\* An error does not tell whether the broker has the message.
SendMessage(r, e) ==
    /\ relay[r] = "send" /\ e \in batch[r].left
    /\ \/ /\ copies' = [copies EXCEPT ![e] = @ + 1]
          /\ Handled(r, e, "sent")
          /\ UNCHANGED failures
       \/ /\ \/ UNCHANGED copies
             \/ copies' = [copies EXCEPT ![e] = @ + 1]
          /\ Handled(r, e, "failed")
          /\ failures' = [failures EXCEPT ![e] = @ + 1]
    /\ UNCHANGED <<outbox, dlq, lost, relayFaults>>

EndPoll(r, label) ==
    /\ relay' = [relay EXCEPT ![r] = label]
    /\ batch' = [batch EXCEPT ![r] = NoBatch]
    /\ lost' = [lost EXCEPT ![r] = FALSE]

\* Mutant: one attempt too few.
ExhaustedEarly(e) == outbox[e].retries + 2 >= MaxSends

Exhausted(e) == outbox[e].retries + 1 >= MaxSends

\* Mutant: the attempt is not counted.
BackOffOnly(row) == [row EXCEPT !.due = FALSE]

IncrementRetry(row) == [row EXCEPT !.retries = @ + 1, !.due = FALSE]

\* Mutant: marks are written outside of the transaction that was lost.
CanCommitAnyway(r) == relay[r] = "commit"

CanCommit(r) == relay[r] = "commit" /\ ~lost[r]

\* BatchMarkProcessed, IncrementRetryAndSetError and MoveToDLQ take effect together.
Commit(r) ==
    LET dead == {e \in batch[r].failed : Exhausted(e)} IN
    /\ CanCommit(r)
    /\ outbox' = [e \in Events |->
                    IF e \in batch[r].sent THEN [outbox[e] EXCEPT !.state = "processed"]
                    ELSE IF e \in dead THEN [outbox[e] EXCEPT !.state = "moved"]
                    ELSE IF e \in batch[r].failed THEN IncrementRetry(outbox[e])
                    ELSE outbox[e]]
    /\ dlq' = dlq \cup dead
    /\ EndPoll(r, "idle")
    /\ UNCHANGED <<copies, failures, relayFaults>>

\* The transaction is gone: the mark or the commit fails, and nothing is written.
Rollback(r) ==
    /\ relay[r] = "commit" /\ lost[r]
    /\ EndPoll(r, "idle")
    /\ UNCHANGED <<outbox, dlq, copies, failures, relayFaults>>

\* A statement fails, the deadline of the poll passes or the connection breaks; the
\* relay goes on sending, and another one may lock the rows.
LoseTransaction(r) ==
    /\ relay[r] \in {"send", "commit"} /\ ~lost[r]
    /\ RelayFault
    /\ lost' = [lost EXCEPT ![r] = TRUE]
    /\ UNCHANGED <<outbox, dlq, copies, relay, batch, failures>>

CrashRelay(r) ==
    /\ relay[r] # "off"
    /\ RelayFault
    /\ EndPoll(r, "off")
    /\ UNCHANGED <<outbox, dlq, copies, failures>>

OutboxNext ==
    \/ \E e \in Events : Create(e) \/ BackoffElapses(e)
    \/ \E r \in Relays :
          \/ Start(r) \/ LoopEnds(r) \/ GetUnprocessed(r)
          \/ \E e \in Events : SendMessage(r, e)
          \/ Commit(r) \/ Rollback(r) \/ LoseTransaction(r) \/ CrashRelay(r)

OutboxSpec == OutboxInit /\ [][OutboxNext]_outboxVars

\* A running relay polls every half second, a poll runs to its end, time passes.
OutboxFairness ==
    /\ \A e \in Events : WF_outboxVars(BackoffElapses(e))
    /\ \A r \in Relays :
          /\ SF_outboxVars(GetUnprocessed(r))
          /\ WF_outboxVars(\E e \in Events : SendMessage(r, e))
          /\ WF_outboxVars(Commit(r) \/ Rollback(r))

OutboxFairSpec == OutboxSpec /\ OutboxFairness

-----------------------------------------------------------------------------
(* Properties *)

Row == [state : {"none", "waiting", "processed", "moved"}, retries : 0 .. MaxSends - 1,
        due : BOOLEAN]

\* Every variable keeps its type; a retry count stays below the limit.
OutboxTypeOK ==
    /\ outbox \in [Events -> Row]
    /\ dlq \subseteq Events
    /\ copies \in [Events -> Nat] /\ failures \in [Events -> Nat]
    /\ relay \in [Relays -> {"off", "idle", "send", "commit"}]
    /\ batch \in [Relays -> [left : SUBSET Events, sent : SUBSET Events,
                             failed : SUBSET Events]]
    /\ lost \in [Relays -> BOOLEAN]
    /\ relayFaults \in 0 .. MaxRelayFaults

\* FOR UPDATE SKIP LOCKED: a row in a live transaction is still unprocessed when that
\* transaction commits, and no other live transaction has it.
LiveBatchesAreApart ==
    \A r \in Relays : ~lost[r] =>
        \A e \in Locked(r) :
            /\ outbox[e].state = "waiting"
            /\ \A other \in Relays \ {r} : e \in Locked(other) => lost[other]

\* No event is given up silently: one marked processed is in the topic, one that
\* left the outbox is in the DLQ, one is there only after MaxSends sends of it
\* returned an error, and one that waits has attempts left.
NothingIsDropped ==
    \A e \in Events :
        /\ outbox[e].state = "processed" => copies[e] > 0
        /\ outbox[e].state = "moved" <=> e \in dlq
        /\ e \in dlq => failures[e] >= MaxSends
        /\ outbox[e].retries < MaxSends

\* A second copy of an event has a cause: a send that reported an error and was
\* counted as a retry, or a transaction that was lost after the send.
CopiesAreAccounted ==
    \A e \in Events : copies[e] <= 1 + outbox[e].retries + relayFaults

\* An event that was processed or moved to the DLQ stays so, also when a relay
\* whose transaction was lost is still at work on it.
OutcomeIsFinal ==
    [][\A e \in Events :
          outbox[e].state \in {"processed", "moved"} => outbox'[e] = outbox[e]]_outboxVars

\* No event waits in the outbox for ever: it is published or moved to the DLQ, unless
\* no relay is running.
EventSettles ==
    \A e \in Events :
        []<>(outbox[e].state # "waiting" \/ \A r \in Relays : relay[r] = "off")

\* What the decision log says: the event of a committed order is published once.
PublishedOnce == \A e \in Events : copies[e] <= 1
=============================================================================
