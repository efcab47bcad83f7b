---------------------------- MODULE OutboxProofs -----------------------------
(***************************************************************************)
(* The safety properties of OrderOutbox.tla, for any number of events and  *)
(* relays, any batch size and any limits on retries and faults.            *)
(***************************************************************************)
EXTENDS OrderOutbox, FiniteSetTheorems, TLAPS

Tried(r) == batch[r].sent \cup batch[r].failed

\* A relay that is not polling has no transaction, and an event has at most one
\* outcome in a batch.
BatchShape(r) ==
    /\ relay[r] \in {"off", "idle"} => batch[r] = NoBatch /\ ~lost[r]
    /\ batch[r].left \cap Tried(r) = {}
    /\ batch[r].sent \cap batch[r].failed = {}

\* A live transaction has tried e.
TriedLive(e) == \E r \in Relays : ~lost[r] /\ e \in Tried(r)

\* The relays that will still send e in a transaction that cannot commit.
Strays(e) == {r \in Relays : lost[r] /\ e \in batch[r].left}

\* The send of e that needs no excuse is still to come.
Owed(e) == IF outbox[e].state \in {"none", "waiting"} /\ ~TriedLive(e) THEN 1 ELSE 0

\* What CopiesAreAccounted needs: the sends still to come are paid for as well.
CopiesArePaid(e) ==
    /\ IsFiniteSet(Strays(e))
    /\ copies[e] + Cardinality(Strays(e)) + Owed(e) <= 1 + outbox[e].retries + relayFaults

\* What NothingIsDropped needs: a transaction that marks e has sent it, and one that
\* counts a retry has failed.
OutcomeIsEarned(e) ==
    /\ outbox[e].state = "processed" => copies[e] > 0
    /\ outbox[e].state = "moved" <=> e \in dlq
    /\ e \in dlq => failures[e] >= MaxSends
    /\ failures[e] >= outbox[e].retries
    /\ \A r \in Relays :
          /\ e \in batch[r].sent => copies[e] > 0
          /\ ~lost[r] /\ e \in batch[r].failed => failures[e] > outbox[e].retries

IndInv ==
    /\ OutboxTypeOK
    /\ \A r \in Relays : BatchShape(r)
    /\ LiveBatchesAreApart
    /\ \A e \in Events : OutcomeIsEarned(e) /\ CopiesArePaid(e)
-----------------------------------------------------------------------------
\* A step that touches neither a batch nor a transaction leaves what relays still
\* have to send as it was.
LEMMA SameBatches ==
    ASSUME NEW e \in Events, batch' = batch, lost' = lost
    PROVE  Strays(e)' = Strays(e) /\ TriedLive(e)' = TriedLive(e)
  BY DEF Strays, TriedLive, Tried

\* CreateOrder stores the event.
LEMMA CreateInv ==
    ASSUME IndInv, NEW e \in Events, Create(e) PROVE IndInv'
<1>1. /\ outbox' = [outbox EXCEPT ![e] = NewRow] /\ outbox[e] = NoRow
      /\ UNCHANGED <<dlq, copies, relay, batch, lost, failures, relayFaults>>
  BY DEF Create
<1>2. NewRow \in Row
  BY OutboxAssumption DEF NewRow, Row
<1>3. OutboxTypeOK'
  BY <1>1, <1>2 DEF IndInv, OutboxTypeOK
<1>4. \A r \in Relays : BatchShape(r)'
  BY <1>1 DEF IndInv, BatchShape, Tried
<1>5. /\ \A f \in Events \ {e} : outbox'[f] = outbox[f]
      /\ outbox'[e].state = "waiting" /\ outbox'[e].retries = outbox[e].retries
      /\ outbox[e].state = "none"
  BY <1>1 DEF IndInv, OutboxTypeOK, NewRow, NoRow
<1>6. LiveBatchesAreApart'
  BY <1>1, <1>5 DEF IndInv, OutboxTypeOK, LiveBatchesAreApart, Locked
<1>7. ASSUME NEW f \in Events PROVE OutcomeIsEarned(f)'
  BY <1>1, <1>5 DEF IndInv, OutcomeIsEarned
<1>8. ASSUME NEW f \in Events PROVE CopiesArePaid(f)'
  BY <1>1, <1>5, SameBatches DEF IndInv, CopiesArePaid, Owed
<1> QED
  BY <1>3, <1>4, <1>6, <1>7, <1>8 DEF IndInv

\* The backoff of an event passes.
LEMMA BackoffElapsesInv ==
    ASSUME IndInv, NEW e \in Events, BackoffElapses(e) PROVE IndInv'
<1>1. /\ outbox' = [outbox EXCEPT ![e].due = TRUE]
      /\ UNCHANGED <<dlq, copies, relay, batch, lost, failures, relayFaults>>
  BY DEF BackoffElapses
<1>2. outbox' \in [Events -> Row]
  BY <1>1, ZenonT(30) DEF IndInv, OutboxTypeOK, Row
<1>3. OutboxTypeOK'
  BY <1>1, <1>2 DEF IndInv, OutboxTypeOK
<1>4. \A r \in Relays : BatchShape(r)'
  BY <1>1 DEF IndInv, BatchShape, Tried
<1>5. \A f \in Events : /\ outbox'[f].state = outbox[f].state
                        /\ outbox'[f].retries = outbox[f].retries
  BY <1>1 DEF IndInv, OutboxTypeOK, Row
<1>6. LiveBatchesAreApart'
  BY <1>1, <1>5 DEF IndInv, OutboxTypeOK, LiveBatchesAreApart, Locked
<1>7. ASSUME NEW f \in Events PROVE OutcomeIsEarned(f)'
  BY <1>1, <1>5 DEF IndInv, OutcomeIsEarned
<1>8. ASSUME NEW f \in Events PROVE CopiesArePaid(f)'
  BY <1>1, <1>5, SameBatches DEF IndInv, CopiesArePaid, Owed
<1> QED
  BY <1>3, <1>4, <1>6, <1>7, <1>8 DEF IndInv

\* A relay that has no batch is started or stopped.
LEMMA StartStopInv ==
    ASSUME IndInv, NEW r \in Relays, Start(r) \/ LoopEnds(r) PROVE IndInv'
<1>1. /\ relay' \in [Relays -> {"off", "idle", "send", "commit"}]
      /\ \A q \in Relays : relay'[q] \in {"off", "idle"} => relay[q] \in {"off", "idle"}
      /\ UNCHANGED <<outbox, dlq, copies, batch, lost, failures, relayFaults>>
  BY ZenonT(30) DEF IndInv, OutboxTypeOK, Start, LoopEnds
<1>2. OutboxTypeOK'
  BY <1>1 DEF IndInv, OutboxTypeOK
<1>3. \A q \in Relays : BatchShape(q)'
  BY <1>1 DEF IndInv, BatchShape, Tried
<1>4. LiveBatchesAreApart'
  BY <1>1 DEF IndInv, LiveBatchesAreApart, Locked
<1>5. ASSUME NEW f \in Events PROVE OutcomeIsEarned(f)'
  BY <1>1 DEF IndInv, OutcomeIsEarned
<1>6. ASSUME NEW f \in Events PROVE CopiesArePaid(f)'
  BY <1>1, SameBatches DEF IndInv, CopiesArePaid, Owed
<1> QED
  BY <1>2, <1>3, <1>4, <1>5, <1>6 DEF IndInv

\* A relay locks rows that no live transaction has.
LEMMA GetUnprocessedInv ==
    ASSUME IndInv, NEW r \in Relays, GetUnprocessed(r) PROVE IndInv'
<1>1. PICK events \in SUBSET Available(r) : batch' = [batch EXCEPT ![r].left = events]
  BY ZenonT(30) DEF GetUnprocessed, kSubset
<1>2. /\ relay[r] = "idle" /\ relay' = [relay EXCEPT ![r] = "send"]
      /\ UNCHANGED <<outbox, dlq, copies, lost, failures, relayFaults>>
      /\ events \subseteq Events
  BY <1>1 DEF GetUnprocessed, Available
<1>3. batch[r] = NoBatch /\ ~lost[r]
  BY <1>2 DEF IndInv, BatchShape
<1>4. /\ batch'[r].left = events /\ batch'[r].sent = {} /\ batch'[r].failed = {}
      /\ \A q \in Relays \ {r} : batch'[q] = batch[q]
      /\ batch' \in [Relays -> [left : SUBSET Events, sent : SUBSET Events,
                                failed : SUBSET Events]]
  <2>1. /\ batch'[r] = [batch[r] EXCEPT !.left = events]
        /\ \A q \in Relays \ {r} : batch'[q] = batch[q]
        /\ batch' \in [Relays -> [left : SUBSET Events, sent : SUBSET Events,
                                  failed : SUBSET Events]]
    BY <1>1, <1>2, ZenonT(30) DEF IndInv, OutboxTypeOK
  <2> QED
    BY <1>3, <2>1 DEF NoBatch
<1>5. OutboxTypeOK'
  BY <1>2, <1>4, ZenonT(30) DEF IndInv, OutboxTypeOK
<1>6. ASSUME NEW q \in Relays PROVE BatchShape(q)'
  BY <1>2, <1>4 DEF IndInv, OutboxTypeOK, BatchShape, Tried
<1>7. \A e \in events : /\ outbox[e].state = "waiting"
                        /\ \A other \in Relays \ {r} : e \in Locked(other) => lost[other]
  BY <1>1 DEF Available
<1>8. Locked(r)' = events /\ \A q \in Relays \ {r} : Locked(q)' = Locked(q)
  BY <1>4 DEF Locked
<1>9. LiveBatchesAreApart'
  BY <1>2, <1>7, <1>8 DEF IndInv, LiveBatchesAreApart
<1>10. ASSUME NEW f \in Events PROVE OutcomeIsEarned(f)'
  BY <1>2, <1>4 DEF IndInv, OutcomeIsEarned
<1>11. ASSUME NEW f \in Events PROVE CopiesArePaid(f)'
  <2>1. Strays(f)' = Strays(f)
    BY <1>2, <1>3, <1>4 DEF Strays
  <2>2. Tried(r)' = Tried(r) /\ \A q \in Relays \ {r} : Tried(q)' = Tried(q)
    BY <1>3, <1>4 DEF Tried, NoBatch
  <2>3. TriedLive(f)' = TriedLive(f)
    BY <1>2, <2>2 DEF TriedLive
  <2> QED
    BY <1>2, <2>1, <2>3 DEF IndInv, CopiesArePaid, Owed
<1> QED
  BY <1>5, <1>6, <1>9, <1>10, <1>11 DEF IndInv

\* What an event of the batch leaves behind when it has had its turn.
LEMMA HandledFacts ==
    ASSUME OutboxTypeOK, NEW r \in Relays, NEW e \in batch[r].left, relay[r] = "send",
           NEW field \in {"sent", "failed"}, Handled(r, e, field)
    PROVE  /\ relay' \in [Relays -> {"off", "idle", "send", "commit"}]
           /\ relay'[r] \in {"send", "commit"} /\ \A q \in Relays \ {r} : relay'[q] = relay[q]
           /\ batch' \in [Relays -> [left : SUBSET Events, sent : SUBSET Events,
                                     failed : SUBSET Events]]
           /\ batch'[r].left = batch[r].left \ {e}
           /\ batch'[r].sent = batch[r].sent \cup (IF field = "sent" THEN {e} ELSE {})
           /\ batch'[r].failed = batch[r].failed \cup (IF field = "sent" THEN {} ELSE {e})
           /\ \A q \in Relays \ {r} : batch'[q] = batch[q]
           /\ Locked(r)' = Locked(r) /\ Tried(r)' = Tried(r) \cup {e}
<1>1. CASE field = "sent"
  <2>1. batch'[r] = [left |-> batch[r].left \ {e}, sent |-> batch[r].sent \cup {e},
                     failed |-> batch[r].failed]
    BY <1>1, ZenonT(30) DEF Handled, OutboxTypeOK
  <2> QED
    BY <1>1, <2>1 DEF Handled, OutboxTypeOK, Locked, Tried
<1>2. CASE field = "failed"
  <2>1. batch'[r] = [left |-> batch[r].left \ {e}, sent |-> batch[r].sent,
                     failed |-> batch[r].failed \cup {e}]
    BY <1>2, ZenonT(30) DEF Handled, OutboxTypeOK
  <2> QED
    BY <1>2, <2>1 DEF Handled, OutboxTypeOK, Locked, Tried
<1> QED
  BY <1>1, <1>2

\* A send inside a transaction that can still commit: the send that was owed.
LEMMA LiveSend ==
    ASSUME IndInv, NEW r \in Relays, NEW e \in batch[r].left, ~lost[r], lost' = lost,
           batch'[r].left = batch[r].left \ {e}, Tried(r)' = Tried(r) \cup {e},
           \A q \in Relays \ {r} : batch'[q] = batch[q]
    PROVE  /\ \A f \in Events : Strays(f)' = Strays(f)
           /\ \A f \in Events \ {e} : TriedLive(f)' = TriedLive(f)
           /\ ~TriedLive(e) /\ TriedLive(e)' /\ outbox[e].state = "waiting"
<1>1. \A q \in Relays \ {r} : Tried(q)' = Tried(q)
  BY DEF Tried
<1>2. e \in Locked(r) /\ e \notin Tried(r)
  BY DEF IndInv, BatchShape, Locked
<1>3. /\ outbox[e].state = "waiting"
      /\ \A q \in Relays \ {r} : e \in Locked(q) => lost[q]
  BY <1>2 DEF IndInv, LiveBatchesAreApart
<1>4. \A q \in Relays \ {r} : e \in Tried(q) => lost[q]
  BY <1>3 DEF Locked, Tried
<1>5. \A f \in Events : Strays(f)' = Strays(f)
  BY DEF Strays
<1> QED
  BY <1>1, <1>2, <1>3, <1>4, <1>5 DEF TriedLive

\* A send inside a transaction that is gone: one relay less has it to send.
LEMMA StraySend ==
    ASSUME IndInv, NEW r \in Relays, NEW e \in batch[r].left, lost[r], lost' = lost,
           batch'[r].left = batch[r].left \ {e}, Tried(r)' = Tried(r) \cup {e},
           \A q \in Relays \ {r} : batch'[q] = batch[q]
    PROVE  /\ \A f \in Events : TriedLive(f)' = TriedLive(f)
           /\ \A f \in Events \ {e} : Strays(f)' = Strays(f)
           /\ r \in Strays(e) /\ Strays(e)' = Strays(e) \ {r}
<1>1. \A q \in Relays \ {r} : Tried(q)' = Tried(q)
  BY DEF Tried
<1>2. \A f \in Events : TriedLive(f)' = TriedLive(f)
  BY <1>1 DEF TriedLive
<1>3. r \in Strays(e) /\ Strays(e)' = Strays(e) \ {r}
  BY DEF Strays
<1> QED
  BY <1>2, <1>3 DEF Strays

\* The broker takes the message, or an error is returned and it may have it or not.
LEMMA SendMessageInv ==
    ASSUME IndInv, NEW r \in Relays, NEW e \in Events, SendMessage(r, e) PROVE IndInv'
<1>1. PICK field \in {"sent", "failed"} :
         /\ Handled(r, e, field)
         /\ field = "sent" => /\ copies' = [copies EXCEPT ![e] = @ + 1]
                              /\ failures' = failures
         /\ field = "failed" => /\ \/ copies' = copies
                                   \/ copies' = [copies EXCEPT ![e] = @ + 1]
                                /\ failures' = [failures EXCEPT ![e] = @ + 1]
  BY DEF SendMessage
<1>2. /\ e \in batch[r].left /\ relay[r] = "send"
      /\ UNCHANGED <<outbox, dlq, lost, relayFaults>>
  BY DEF SendMessage
<1>3. OutboxTypeOK
  BY DEF IndInv
<1>4. /\ copies' \in [Events -> Nat] /\ failures' \in [Events -> Nat]
      /\ \A f \in Events \ {e} : copies'[f] = copies[f] /\ failures'[f] = failures[f]
      /\ copies'[e] \in {copies[e], copies[e] + 1} /\ failures'[e] >= failures[e]
      /\ field = "sent" => copies'[e] = copies[e] + 1
      /\ field = "failed" => failures'[e] = failures[e] + 1
  BY <1>1, <1>3, SMTT(30) DEF OutboxTypeOK
<1>5. /\ relay' \in [Relays -> {"off", "idle", "send", "commit"}]
      /\ relay'[r] \in {"send", "commit"} /\ \A q \in Relays \ {r} : relay'[q] = relay[q]
      /\ batch' \in [Relays -> [left : SUBSET Events, sent : SUBSET Events,
                                failed : SUBSET Events]]
      /\ batch'[r].left = batch[r].left \ {e}
      /\ batch'[r].sent = batch[r].sent \cup (IF field = "sent" THEN {e} ELSE {})
      /\ batch'[r].failed = batch[r].failed \cup (IF field = "sent" THEN {} ELSE {e})
      /\ \A q \in Relays \ {r} : batch'[q] = batch[q]
      /\ Locked(r)' = Locked(r) /\ Tried(r)' = Tried(r) \cup {e}
  BY <1>1, <1>2, <1>3, HandledFacts
<1>6. OutboxTypeOK'
  BY <1>2, <1>4, <1>5 DEF IndInv, OutboxTypeOK
<1>7. ASSUME NEW q \in Relays PROVE BatchShape(q)'
  <2>1. CASE q = r
    BY <1>2, <1>5, <2>1 DEF IndInv, BatchShape, Tried
  <2>2. CASE q # r
    BY <1>2, <1>5, <2>2 DEF IndInv, BatchShape, Tried
  <2> QED
    BY <2>1, <2>2
<1>8. LiveBatchesAreApart'
  <2>1. \A q \in Relays : Locked(q)' = Locked(q)
    BY <1>5 DEF Locked
  <2> QED
    BY <1>2, <2>1 DEF IndInv, LiveBatchesAreApart
<1>9. ASSUME NEW f \in Events PROVE OutcomeIsEarned(f)'
  <2>1. OutcomeIsEarned(f) /\ copies[f] \in Nat /\ failures[f] \in Nat
        /\ outbox[f].retries \in Int
    BY <1>3, SMTT(30) DEF IndInv, OutboxTypeOK, Row
  <2>2. CASE f = e
    BY <1>2, <1>4, <1>5, <2>1, <2>2, OutboxAssumption, SMTT(30) DEF OutcomeIsEarned
  <2>3. CASE f # e
    BY <1>2, <1>4, <1>5, <2>1, <2>3, SMTT(30) DEF OutcomeIsEarned
  <2> QED
    BY <2>2, <2>3
<1>10. ASSUME NEW f \in Events PROVE CopiesArePaid(f)'
  <2>1. /\ IsFiniteSet(Strays(f)) /\ Cardinality(Strays(f)) \in Nat
        /\ copies[f] \in Nat /\ outbox[f].retries \in Int /\ relayFaults \in Int
        /\ copies[f] + Cardinality(Strays(f)) + Owed(f) <= 1 + outbox[f].retries + relayFaults
    BY <1>3, FS_CardinalityType, SMTT(30) DEF IndInv, OutboxTypeOK, Row, CopiesArePaid
  <2>2. CASE ~lost[r]
    <3>1. /\ Strays(f)' = Strays(f)
          /\ f # e => TriedLive(f)' = TriedLive(f)
          /\ f = e => ~TriedLive(e) /\ TriedLive(e)' /\ outbox[e].state = "waiting"
      BY <1>2, <1>5, <2>2, LiveSend
    <3>2. f # e => Owed(f)' = Owed(f)
      BY <1>2, <3>1 DEF Owed
    <3>3. f = e => Owed(f) = 1 /\ Owed(f)' = 0
      BY <3>1 DEF Owed
    <3> QED
      BY <1>2, <1>4, <2>1, <3>1, <3>2, <3>3, SMTT(30) DEF CopiesArePaid
  <2>3. CASE lost[r]
    <3>1. /\ TriedLive(f)' = TriedLive(f)
          /\ f # e => Strays(f)' = Strays(f)
          /\ f = e => r \in Strays(f) /\ Strays(f)' = Strays(f) \ {r}
      BY <1>2, <1>5, <2>3, StraySend
    <3>2. Owed(f)' = Owed(f) /\ Owed(f) \in {0, 1}
      BY <1>2, <3>1 DEF Owed
    <3>3. f = e => /\ IsFiniteSet(Strays(f)')
                   /\ Cardinality(Strays(f)') = Cardinality(Strays(f)) - 1
      BY <2>1, <3>1, FS_RemoveElement, SMTT(30)
    <3> QED
      BY <1>2, <1>4, <2>1, <3>1, <3>2, <3>3, SMTT(30) DEF CopiesArePaid
  <2> QED
    BY <2>2, <2>3
<1> QED
  BY <1>6, <1>7, <1>8, <1>9, <1>10, SMTT(30) DEF IndInv

\* The end of a poll: the relay has no batch, and every other one keeps its own.
PollEnded(r) ==
    /\ relay' \in [Relays -> {"off", "idle", "send", "commit"}]
    /\ \A q \in Relays \ {r} : relay'[q] = relay[q]
    /\ batch' \in [Relays -> [left : SUBSET Events, sent : SUBSET Events,
                              failed : SUBSET Events]]
    /\ batch'[r].left = {} /\ batch'[r].sent = {} /\ batch'[r].failed = {}
    /\ \A q \in Relays \ {r} : batch'[q] = batch[q]
    /\ lost' \in [Relays -> BOOLEAN]
    /\ lost'[r] = FALSE /\ \A q \in Relays \ {r} : lost'[q] = lost[q]
    /\ Locked(r)' = {} /\ \A q \in Relays \ {r} : Locked(q)' = Locked(q)
    /\ Tried(r)' = {} /\ \A q \in Relays \ {r} : Tried(q)' = Tried(q)

\* EndPoll does this, and the batches keep their shape.
LEMMA EndPollFacts ==
    ASSUME IndInv, NEW r \in Relays, NEW label \in {"idle", "off"}, EndPoll(r, label)
    PROVE  PollEnded(r) /\ \A q \in Relays : BatchShape(q)'
<1>1. NoBatch \in [left : SUBSET Events, sent : SUBSET Events, failed : SUBSET Events]
  BY DEF NoBatch
<1>2. /\ relay' \in [Relays -> {"off", "idle", "send", "commit"}]
      /\ \A q \in Relays \ {r} : relay'[q] = relay[q]
      /\ batch' \in [Relays -> [left : SUBSET Events, sent : SUBSET Events,
                                failed : SUBSET Events]]
      /\ batch'[r] = NoBatch /\ \A q \in Relays \ {r} : batch'[q] = batch[q]
      /\ lost' \in [Relays -> BOOLEAN]
      /\ lost'[r] = FALSE /\ \A q \in Relays \ {r} : lost'[q] = lost[q]
  BY <1>1 DEF IndInv, OutboxTypeOK, EndPoll
<1>3. /\ Locked(r)' = {} /\ \A q \in Relays \ {r} : Locked(q)' = Locked(q)
      /\ Tried(r)' = {} /\ \A q \in Relays \ {r} : Tried(q)' = Tried(q)
  BY <1>2 DEF Locked, Tried, NoBatch
<1>4. BatchShape(r)'
  BY <1>2, <1>3 DEF BatchShape, NoBatch
<1>5. ASSUME NEW q \in Relays \ {r} PROVE BatchShape(q)'
  BY <1>2, <1>3, <1>5 DEF IndInv, BatchShape
<1> QED
  BY <1>2, <1>3, <1>4, <1>5 DEF PollEnded, NoBatch

\* A poll that writes nothing: the transaction was lost, or the process crashed with
\* it, which is one fault more.
LEMMA AbandonInv ==
    ASSUME IndInv, NEW r \in Relays, NEW label \in {"idle", "off"}, EndPoll(r, label),
           UNCHANGED <<outbox, dlq, copies, failures>>,
           \/ lost[r] /\ relayFaults' = relayFaults
           \/ relayFaults < MaxRelayFaults /\ relayFaults' = relayFaults + 1
    PROVE  IndInv'
<1>0. PollEnded(r) /\ \A q \in Relays : BatchShape(q)'
  BY EndPollFacts
<1>1. OutboxTypeOK'
  BY <1>0, OutboxAssumption, SMTT(30) DEF IndInv, OutboxTypeOK, PollEnded
<1>2. LiveBatchesAreApart'
  BY <1>0, SMTT(30) DEF IndInv, LiveBatchesAreApart, PollEnded
<1>3. ASSUME NEW f \in Events PROVE OutcomeIsEarned(f)'
  BY <1>0, SMTT(30) DEF IndInv, OutcomeIsEarned, PollEnded
<1>4. ASSUME NEW f \in Events PROVE CopiesArePaid(f)'
  <2>1. /\ IsFiniteSet(Strays(f)) /\ Cardinality(Strays(f)) \in Nat
        /\ copies[f] \in Nat /\ outbox[f].retries \in Int /\ relayFaults \in Int
        /\ copies[f] + Cardinality(Strays(f)) + Owed(f) <= 1 + outbox[f].retries + relayFaults
    BY FS_CardinalityType, SMTT(30) DEF IndInv, OutboxTypeOK, Row, CopiesArePaid
  <2>2. Strays(f)' = Strays(f) \ {r}
    BY <1>0, SMTT(30) DEF Strays, PollEnded
  <2>3. /\ IsFiniteSet(Strays(f)') /\ Cardinality(Strays(f)') \in Nat
        /\ Cardinality(Strays(f)') <= Cardinality(Strays(f))
    <3>1. /\ IsFiniteSet(Strays(f) \ {r})
          /\ Cardinality(Strays(f) \ {r})
                = IF r \in Strays(f) THEN Cardinality(Strays(f)) - 1 ELSE Cardinality(Strays(f))
      BY <2>1, FS_RemoveElement, SMTT(30)
    <3>2. Cardinality(Strays(f) \ {r}) \in Nat
      BY <3>1, FS_CardinalityType
    <3> QED
      BY <2>1, <2>2, <3>1, <3>2, SMTT(30)
  <2>4. lost[r] => TriedLive(f)' = TriedLive(f)
    BY <1>0, SMTT(30) DEF TriedLive, PollEnded
  <2>5. Owed(f) \in {0, 1} /\ Owed(f)' \in {0, 1} /\ (lost[r] => Owed(f)' = Owed(f))
    BY <2>4 DEF Owed
  <2> QED
    BY <2>1, <2>3, <2>5 DEF CopiesArePaid
<1> QED
  BY <1>1, <1>2, <1>3, <1>4, <1>0 DEF IndInv

\* The relay goes on with a batch that it cannot mark: each event of it may reach the
\* broker once more, either here or in the next transaction, never both.
LEMMA LoseTransactionInv ==
    ASSUME IndInv, NEW r \in Relays, LoseTransaction(r) PROVE IndInv'
<1>1. /\ relay[r] \in {"send", "commit"} /\ ~lost[r]
      /\ relayFaults' = relayFaults + 1 /\ relayFaults' \in 0 .. MaxRelayFaults
      /\ lost' \in [Relays -> BOOLEAN] /\ lost'[r]
      /\ \A q \in Relays \ {r} : lost'[q] = lost[q]
      /\ UNCHANGED <<outbox, dlq, copies, relay, batch, failures>>
  BY OutboxAssumption DEF IndInv, OutboxTypeOK, LoseTransaction, RelayFault
<1>2. OutboxTypeOK'
  BY <1>1, SMTT(30) DEF IndInv, OutboxTypeOK
<1>3. ASSUME NEW q \in Relays PROVE BatchShape(q)'
  BY <1>1, SMTT(30) DEF IndInv, BatchShape, Tried
<1>4. LiveBatchesAreApart'
  BY <1>1, SMTT(30) DEF IndInv, LiveBatchesAreApart, Locked
<1>5. ASSUME NEW f \in Events PROVE OutcomeIsEarned(f)'
  BY <1>1 DEF IndInv, OutcomeIsEarned
<1>6. ASSUME NEW f \in Events PROVE CopiesArePaid(f)'
  <2>1. /\ IsFiniteSet(Strays(f)) /\ Cardinality(Strays(f)) \in Nat
        /\ copies[f] \in Nat /\ outbox[f].retries \in Int /\ relayFaults \in Int
        /\ copies[f] + Cardinality(Strays(f)) + Owed(f) <= 1 + outbox[f].retries + relayFaults
    BY FS_CardinalityType DEF IndInv, OutboxTypeOK, Row, CopiesArePaid
  <2>2. Owed(f) \in {0, 1} /\ Owed(f)' \in {0, 1}
    BY DEF Owed
  <2>3. CASE f \in batch[r].left
    <3>1. f \notin Tried(r) /\ r \notin Strays(f) /\ Strays(f)' = Strays(f) \cup {r}
      BY <1>1, <2>3 DEF IndInv, BatchShape, Strays
    <3>2. /\ IsFiniteSet(Strays(f)')
          /\ Cardinality(Strays(f)') = Cardinality(Strays(f)) + 1
      BY <2>1, <3>1, FS_AddElement
    <3>3. \A q \in Relays : Tried(q)' = Tried(q)
      BY <1>1 DEF Tried
    <3>4. TriedLive(f)' = TriedLive(f)
      BY <1>1, <3>1, <3>3 DEF TriedLive
    <3>5. Owed(f)' = Owed(f)
      BY <1>1, <3>4 DEF Owed
    <3> QED
      BY <1>1, <2>1, <2>2, <3>2, <3>5, SMTT(30) DEF CopiesArePaid
  <2>4. CASE f \notin batch[r].left
    <3>1. Strays(f)' = Strays(f)
      BY <1>1, <2>4, SMTT(30) DEF Strays
    <3> QED
      BY <1>1, <2>1, <2>2, <3>1, SMTT(30) DEF CopiesArePaid
  <2> QED
    BY <2>3, <2>4
<1> QED
  BY <1>2, <1>3, <1>4, <1>5, <1>6, SMTT(30) DEF IndInv

\* The marks of a commit: what each row of the batch becomes.
LEMMA CommitFacts ==
    ASSUME IndInv, NEW r \in Relays, Commit(r), NEW e \in Events
    PROVE  /\ outbox'[e] \in Row
           /\ e \in batch[r].sent =>
                 outbox'[e].state = "processed" /\ outbox'[e].retries = outbox[e].retries
           /\ e \in batch[r].failed /\ Exhausted(e) =>
                 outbox'[e].state = "moved" /\ outbox'[e].retries = outbox[e].retries
           /\ e \in batch[r].failed /\ ~Exhausted(e) =>
                 /\ outbox'[e].state = outbox[e].state
                 /\ outbox'[e].retries = outbox[e].retries + 1
           /\ e \notin Tried(r) => outbox'[e] = outbox[e]
<1>1. /\ outbox[e] \in Row
      /\ outbox'[e] = IF e \in batch[r].sent THEN [outbox[e] EXCEPT !.state = "processed"]
                      ELSE IF e \in batch[r].failed /\ Exhausted(e)
                           THEN [outbox[e] EXCEPT !.state = "moved"]
                      ELSE IF e \in batch[r].failed THEN IncrementRetry(outbox[e])
                      ELSE outbox[e]
      /\ e \in batch[r].sent => e \notin batch[r].failed
  BY DEF IndInv, OutboxTypeOK, BatchShape, Commit
<1>2. CASE e \in batch[r].sent
  BY <1>1, <1>2 DEF Tried, Row
<1>3. CASE e \in batch[r].failed /\ Exhausted(e)
  BY <1>1, <1>3, SMTT(30) DEF Tried, Row
<1>4. CASE e \in batch[r].failed /\ ~Exhausted(e)
  <2>1. outbox'[e] = [outbox[e] EXCEPT !.retries = @ + 1, !.due = FALSE]
    BY <1>1, <1>4 DEF IncrementRetry
  <2>2. outbox[e].retries \in Int /\ outbox[e].retries >= 0
        /\ outbox[e].retries + 1 < MaxSends
    BY <1>1, <1>4, OutboxAssumption DEF Exhausted, Row
  <2>3. /\ outbox'[e].state = outbox[e].state
        /\ outbox'[e].retries = outbox[e].retries + 1
    BY <1>1, <2>1, ZenonT(30) DEF Row
  <2>4. outbox'[e] \in Row
    <3>1. outbox[e].retries + 1 \in 0 .. MaxSends - 1
      BY <2>2, OutboxAssumption
    <3>2. outbox[e].state \in {"none", "waiting", "processed", "moved"}
      BY <1>1 DEF Row
    <3>3. outbox'[e] = [state |-> outbox[e].state, retries |-> outbox[e].retries + 1,
                        due |-> FALSE]
      BY <1>1, <2>1, ZenonT(30) DEF Row
    <3> QED
      BY <3>1, <3>2, <3>3 DEF Row
  <2> QED
    BY <1>1, <1>4, <2>3, <2>4 DEF Tried
<1>5. CASE e \notin Tried(r)
  BY <1>1, <1>5 DEF Tried
<1> QED
  BY <1>2, <1>3, <1>4, <1>5 DEF Tried

\* A relay marks its batch.
LEMMA CommitInv ==
    ASSUME IndInv, NEW r \in Relays, Commit(r) PROVE IndInv'
<1>0. PollEnded(r) /\ \A q \in Relays : BatchShape(q)'
  BY EndPollFacts DEF Commit
<1>1. /\ ~lost[r] /\ dlq' = dlq \cup {e \in batch[r].failed : Exhausted(e)}
      /\ UNCHANGED <<copies, failures, relayFaults>>
      /\ outbox' = [e \in Events |-> outbox'[e]]
  BY DEF Commit, CanCommit
<1>2. batch[r].sent \subseteq Events /\ batch[r].failed \subseteq Events
  BY SMTT(30) DEF IndInv, OutboxTypeOK
<1>3. OutboxTypeOK'
  <2>1. outbox' \in [Events -> Row]
    BY <1>1, CommitFacts, SMTT(30)
  <2> QED
    BY <1>0, <1>1, <1>2, <2>1, SMTT(30) DEF IndInv, OutboxTypeOK, PollEnded
<1>4. \A e \in Tried(r) : /\ outbox[e].state = "waiting"
                          /\ \A q \in Relays \ {r} : e \in Locked(q) => lost[q]
  BY <1>1 DEF IndInv, LiveBatchesAreApart, Locked, Tried
<1>5. LiveBatchesAreApart'
  <2>1. ASSUME NEW q \in Relays, ~lost'[q], NEW e \in Locked(q)'
        PROVE  /\ outbox'[e].state = "waiting"
               /\ \A other \in Relays \ {q} : e \in Locked(other)' => lost'[other]
    <3>1. q # r /\ ~lost[q] /\ e \in Locked(q)
      BY <1>0, <2>1, SMTT(30) DEF PollEnded
    <3>2. /\ outbox[e].state = "waiting"
          /\ \A other \in Relays \ {q} : e \in Locked(other) => lost[other]
      BY <3>1, SMTT(30) DEF IndInv, LiveBatchesAreApart
    <3>3. e \notin Tried(r) /\ e \in Events
      BY <1>4, <3>1, SMTT(30) DEF IndInv, OutboxTypeOK, Locked
    <3>4. outbox'[e] = outbox[e]
      BY <3>3, CommitFacts
    <3> QED
      BY <1>0, <3>2, <3>4, SMTT(30) DEF PollEnded
  <2> QED
    BY <2>1, SMTT(30) DEF LiveBatchesAreApart
<1>6. ASSUME NEW f \in Events PROVE OutcomeIsEarned(f)'
  <2>1. /\ OutcomeIsEarned(f) /\ copies[f] \in Nat /\ failures[f] \in Nat
        /\ outbox[f].retries \in Int
        /\ f \in batch[r].sent => f \notin batch[r].failed
    BY <1>6, SMTT(30) DEF IndInv, OutboxTypeOK, Row, BatchShape
  <2>2. \A q \in Relays : ~lost'[q] /\ f \in batch'[q].failed =>
            q # r /\ ~lost[q] /\ f \in batch[q].failed
    BY <1>0, SMTT(30) DEF PollEnded
  <2>3. \A q \in Relays : f \in batch'[q].sent => f \in batch[q].sent
    BY <1>0 DEF PollEnded
  <2>4. CASE f \in Tried(r)
    <3>1. \A q \in Relays : ~(~lost'[q] /\ f \in batch'[q].failed)
      BY <1>4, <2>2, <2>4, SMTT(30) DEF Locked
    <3>2. CASE f \in batch[r].sent
      BY <1>1, <1>4, <2>1, <2>3, <2>4, <3>1, <3>2, CommitFacts, SMTT(30) DEF OutcomeIsEarned
    <3>3. CASE f \in batch[r].failed /\ Exhausted(f)
      <4>1. failures[f] > outbox[f].retries /\ failures[f] >= MaxSends
        BY <1>1, <2>1, <3>3, OutboxAssumption, SMTT(30) DEF OutcomeIsEarned, Exhausted
      <4> QED
        BY <1>1, <2>1, <2>3, <3>1, <3>3, <4>1, CommitFacts, SMTT(30) DEF OutcomeIsEarned
    <3>4. CASE f \in batch[r].failed /\ ~Exhausted(f)
      <4>1. failures[f] > outbox[f].retries
        BY <1>1, <2>1, <3>4, SMTT(30) DEF OutcomeIsEarned
      <4> QED
        BY <1>1, <1>4, <2>1, <2>3, <2>4, <3>1, <3>4, <4>1, CommitFacts, SMTT(30) DEF OutcomeIsEarned
    <3> QED
      BY <2>4, <3>2, <3>3, <3>4, SMTT(30) DEF Tried
  <2>5. CASE f \notin Tried(r)
    <3>1. outbox'[f] = outbox[f] /\ (f \in dlq' <=> f \in dlq)
      BY <1>1, <2>5, CommitFacts, SMTT(30) DEF Tried
    <3> QED
      BY <1>1, <2>1, <2>2, <2>3, <3>1, SMTT(30) DEF OutcomeIsEarned
  <2> QED
    BY <2>4, <2>5, SMTT(30)
<1>7. ASSUME NEW f \in Events PROVE CopiesArePaid(f)'
  <2>1. /\ IsFiniteSet(Strays(f)) /\ Cardinality(Strays(f)) \in Nat
        /\ copies[f] \in Nat /\ outbox[f].retries \in Int /\ relayFaults \in Int
        /\ copies[f] + Cardinality(Strays(f)) + Owed(f) <= 1 + outbox[f].retries + relayFaults
    BY <1>7, FS_CardinalityType, SMTT(30) DEF IndInv, OutboxTypeOK, Row, CopiesArePaid
  <2>2. Strays(f)' = Strays(f)
    BY <1>0, <1>1, SMTT(30) DEF Strays, PollEnded
  <2>3. CASE f \in Tried(r)
    <3>1. Owed(f) = 0
      BY <1>1, <2>3 DEF Owed, TriedLive
    <3>2. Owed(f)' \in {0, 1}
      BY SMTT(30) DEF Owed
    <3>3. \/ Owed(f)' = 0 /\ outbox'[f].retries = outbox[f].retries
          \/ outbox'[f].retries = outbox[f].retries + 1
      BY <2>3, CommitFacts, SMTT(30) DEF Owed, Tried
    <3> QED
      BY <1>1, <2>1, <2>2, <3>1, <3>2, <3>3, SMTT(30) DEF CopiesArePaid
  <2>4. CASE f \notin Tried(r)
    <3>1. outbox'[f] = outbox[f]
      BY <2>4, CommitFacts, SMTT(30)
    <3>2. TriedLive(f)' = TriedLive(f)
      BY <1>0, <2>4 DEF TriedLive, PollEnded
    <3> QED
      BY <1>1, <2>1, <2>2, <3>1, <3>2, SMTT(30) DEF CopiesArePaid, Owed
  <2> QED
    BY <2>3, <2>4
<1> QED
  BY <1>0, <1>3, <1>5, <1>6, <1>7 DEF IndInv

-----------------------------------------------------------------------------
\* The empty outbox satisfies the invariant.
LEMMA InitInv == OutboxInit => IndInv
<1> SUFFICES ASSUME OutboxInit PROVE IndInv
  OBVIOUS
<1>1. NoRow \in Row
  BY OutboxAssumption DEF NoRow, Row
<1>2. NoBatch \in [left : SUBSET Events, sent : SUBSET Events, failed : SUBSET Events]
  BY DEF NoBatch
<1>3. OutboxTypeOK
  BY <1>1, <1>2, OutboxAssumption DEF OutboxInit, OutboxTypeOK
<1>4. \A r \in Relays : batch[r].left = {} /\ batch[r].sent = {} /\ batch[r].failed = {}
  BY DEF OutboxInit, NoBatch
<1>5. \A r \in Relays : BatchShape(r) /\ Locked(r) = {}
  BY <1>4 DEF OutboxInit, BatchShape, Tried, Locked
<1>6. LiveBatchesAreApart
  BY <1>5, SMTT(30) DEF LiveBatchesAreApart
<1>7. ASSUME NEW e \in Events PROVE OutcomeIsEarned(e) /\ CopiesArePaid(e)
  <2>1. outbox[e].state = "none" /\ outbox[e].retries = 0
    BY DEF OutboxInit, NoRow
  <2>2. Strays(e) = {}
    BY <1>4 DEF Strays
  <2>3. IsFiniteSet(Strays(e)) /\ Cardinality(Strays(e)) = 0
    BY <2>2, FS_EmptySet
  <2>4. Owed(e) \in {0, 1}
    BY DEF Owed
  <2> QED
    BY <1>4, <2>1, <2>3, <2>4 DEF OutboxInit, OutcomeIsEarned, CopiesArePaid
<1> QED
  BY <1>3, <1>5, <1>6, <1>7 DEF IndInv

\* Every step of a relay, of CreateOrder and of the clock preserves the invariant.
LEMMA NextInv == IndInv /\ [OutboxNext]_outboxVars => IndInv'
<1> SUFFICES ASSUME IndInv, [OutboxNext]_outboxVars PROVE IndInv'
  OBVIOUS
<1>1. ASSUME NEW e \in Events, Create(e) \/ BackoffElapses(e) PROVE IndInv'
  BY <1>1, CreateInv, BackoffElapsesInv
<1>2. ASSUME NEW r \in Relays, Start(r) \/ LoopEnds(r) \/ GetUnprocessed(r) PROVE IndInv'
  BY <1>2, StartStopInv, GetUnprocessedInv
<1>3. ASSUME NEW r \in Relays, NEW e \in Events, SendMessage(r, e) PROVE IndInv'
  BY <1>3, SendMessageInv
<1>4. ASSUME NEW r \in Relays, Commit(r) \/ LoseTransaction(r) PROVE IndInv'
  BY <1>4, CommitInv, LoseTransactionInv
<1>5. ASSUME NEW r \in Relays, Rollback(r) \/ CrashRelay(r) PROVE IndInv'
  BY <1>5, AbandonInv DEF Rollback, CrashRelay, RelayFault
<1>6. CASE UNCHANGED outboxVars
  <2>1. UNCHANGED <<outbox, dlq, copies, relay, batch, lost, failures, relayFaults>>
    BY <1>6, SMTT(30) DEF outboxVars
  <2>2. OutboxTypeOK' /\ LiveBatchesAreApart' /\ \A r \in Relays : BatchShape(r)'
    BY <2>1, SMTT(30) DEF IndInv, OutboxTypeOK, LiveBatchesAreApart, Locked, BatchShape, Tried
  <2>3. ASSUME NEW e \in Events PROVE OutcomeIsEarned(e)' /\ CopiesArePaid(e)'
    BY <2>1, SameBatches DEF IndInv, OutcomeIsEarned, CopiesArePaid, Owed
  <2> QED
    BY <2>2, <2>3 DEF IndInv
<1> QED
  BY <1>1, <1>2, <1>3, <1>4, <1>5, <1>6, SMTT(30) DEF OutboxNext

\* The invariant holds in every reachable state.
THEOREM Invariance == OutboxSpec => []IndInv
  BY InitInv, NextInv, PTL DEF OutboxSpec

\* Every variable keeps its type; a retry count stays below the limit.
THEOREM TypeCorrect == OutboxSpec => []OutboxTypeOK
<1>1. IndInv => OutboxTypeOK
  BY DEF IndInv
<1> QED
  BY <1>1, Invariance, PTL

\* Two live transactions never hold the same row, and every row they hold is
\* unprocessed: FOR UPDATE SKIP LOCKED does what the relay relies on.
THEOREM BatchesApart == OutboxSpec => []LiveBatchesAreApart
<1>1. IndInv => LiveBatchesAreApart
  BY DEF IndInv
<1> QED
  BY <1>1, Invariance, PTL

\* An event marked processed is in the topic, and one that left the outbox is in the
\* DLQ after MaxSends failed sends.
THEOREM NothingDropped == OutboxSpec => []NothingIsDropped
<1>1. IndInv => NothingIsDropped
  BY OutboxAssumption DEF IndInv, OutboxTypeOK, Row, OutcomeIsEarned, NothingIsDropped
<1> QED
  BY <1>1, Invariance, PTL

\* Each copy of an event beyond the first has a counted retry or a lost transaction
\* behind it.
THEOREM CopiesAccounted == OutboxSpec => []CopiesAreAccounted
<1>1. ASSUME IndInv, NEW e \in Events PROVE copies[e] <= 1 + outbox[e].retries + relayFaults
  <2>1. /\ Cardinality(Strays(e)) \in Nat /\ Owed(e) \in {0, 1}
        /\ copies[e] \in Nat /\ outbox[e].retries \in Int /\ relayFaults \in Int
        /\ copies[e] + Cardinality(Strays(e)) + Owed(e) <= 1 + outbox[e].retries + relayFaults
    BY <1>1, FS_CardinalityType DEF IndInv, OutboxTypeOK, Row, CopiesArePaid, Owed
  <2> QED
    BY <2>1
<1>2. IndInv => CopiesAreAccounted
  BY <1>1, SMTT(30) DEF CopiesAreAccounted
<1> QED
  BY <1>2, Invariance, PTL

\* A step never changes the row of an event that was processed or moved.
LEMMA StepKeepsOutcome ==
    ASSUME IndInv, [OutboxNext]_outboxVars, NEW e \in Events,
           outbox[e].state \in {"processed", "moved"}
    PROVE  outbox'[e] = outbox[e]
<1>1. ASSUME NEW f \in Events, Create(f) \/ BackoffElapses(f) PROVE outbox'[e] = outbox[e]
  <2>1. f # e
    BY <1>1, SMTT(30) DEF Create, BackoffElapses, NoRow
  <2> QED
    BY <1>1, <2>1 DEF Create, BackoffElapses, IndInv, OutboxTypeOK
<1>2. ASSUME NEW r \in Relays, Commit(r) PROVE outbox'[e] = outbox[e]
  <2>1. e \notin Locked(r)
    BY <1>2 DEF IndInv, LiveBatchesAreApart, Commit, CanCommit
  <2> QED
    BY <1>2, <2>1, CommitFacts DEF Locked, Tried
<1>3. ASSUME NEW r \in Relays,
             \/ Start(r) \/ LoopEnds(r) \/ GetUnprocessed(r)
             \/ \E f \in Events : SendMessage(r, f)
             \/ Rollback(r) \/ LoseTransaction(r) \/ CrashRelay(r)
      PROVE  outbox'[e] = outbox[e]
  BY <1>3 DEF Start, LoopEnds, GetUnprocessed, SendMessage, Rollback, LoseTransaction, CrashRelay
<1> QED
  BY <1>1, <1>2, <1>3 DEF OutboxNext, outboxVars

\* An event that was processed or moved to the DLQ stays so, whatever a relay with a
\* lost transaction still does.
THEOREM OutcomeFinal == OutboxSpec => OutcomeIsFinal
<1>1. IndInv /\ [OutboxNext]_outboxVars =>
        [\A e \in Events :
            outbox[e].state \in {"processed", "moved"} => outbox'[e] = outbox[e]]_outboxVars
  BY StepKeepsOutcome
<1> QED
  BY <1>1, Invariance, PTL DEF OutboxSpec, OutcomeIsFinal

=============================================================================
