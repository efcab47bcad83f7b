------------------------------ MODULE Analytics ------------------------------
(***************************************************************************)
(* analytics-service: events from Kafka and from gRPC go through a buffer  *)
(* to ClickHouse.  Three goroutines flush one member's buffer: the         *)
(* consumer when it is full, a gRPC call when it is full, and the ticker;  *)
(* on shutdown the stop hook takes the ticker's place.  What a flusher has *)
(* taken and not yet inserted is in flight.                                *)
(***************************************************************************)
EXTENDS KafkaConsumer, FiniteSets

LOCAL INSTANCE FiniteSetsExt

CONSTANT BufferSize   \* eventBatcher.size

VARIABLES buffer,    \* member -> events, oldest first
          flight,    \* member -> flusher -> events
          call,      \* the gRPC call of TrackEvent: who serves it and how far it is
          rows       \* ClickHouse: event -> how many rows

analyticsVars == <<buffer, flight, call, rows>>

Flushers == {"consumer", "ticker", "call"}

\* Event i came from offset i, event 0 by gRPC.
Tracked == 0..Len(log)

\* Settings of the service: no dead letter topic, no permanent errors.
AnalyticsConfig == [service |-> "analytics", dlqTopic |-> FALSE, maxRetries |-> 3,
                    dlqUp |-> FALSE, smtp |-> FALSE]

NoCall == [at |-> NoMember, pc |-> "none"]

AnalyticsInit ==
    /\ buffer = [m \in Members |-> <<>>]
    /\ flight = [m \in Members |-> [f \in Flushers |-> <<>>]]
    /\ call = NoCall
    /\ rows = [e \in Tracked |-> 0]

-----------------------------------------------------------------------------
CountIn(s, e) == Cardinality({k \in DOMAIN s : s[k] = e})
Insert(s) == rows' = [e \in Tracked |-> rows[e] + CountIn(s, e)]

\* mapEventType knows the event.
MapEventType(kind) == kind \in {"known", "badAddress"}

\* Batcher.Add: append; the caller flushes when the buffer is full.
Add(m, e) == buffer' = [buffer EXCEPT ![m] = Append(@, e)]
Full(m) == Len(buffer[m]) + 1 >= BufferSize

\* Mutant: the buffer is copied, not taken over.
TakeCopy(m, f) ==
    /\ flight' = [flight EXCEPT ![m][f] = buffer[m]]
    /\ UNCHANGED buffer

\* Flush, first half: the buffer is taken over under the mutex.
Take(m, f) ==
    /\ flight' = [flight EXCEPT ![m][f] = buffer[m]]
    /\ buffer' = [buffer EXCEPT ![m] = <<>>]

\* Flush, when the insert failed: the events go back to the front.
PutBack(m, f) ==
    /\ buffer' = [buffer EXCEPT ![m] = flight[m][f] \o @]
    /\ flight' = [flight EXCEPT ![m][f] = <<>>]

\* EventRepo.BatchInsert as Flush sees it: done, failed, or failed although the
\* rows are there.
Inserted(m, f) ==
    /\ Insert(flight[m][f])
    /\ flight' = [flight EXCEPT ![m][f] = <<>>]
    /\ UNCHANGED <<buffer, mishaps>>

InsertFailed(m, f) ==
    /\ Mishap
    /\ PutBack(m, f)
    /\ UNCHANGED rows \/ Insert(flight[m][f])

-----------------------------------------------------------------------------
\* Processor.Process and TrackEvent.
AnalyticsProcess(m) ==
    /\ cfg.service = "analytics" /\ At(m, "process")
    /\ IF MapEventType(log[Current(m)])
       THEN /\ Add(m, Current(m))
            /\ IF Full(m) THEN MemberGoto(m, "flush") ELSE ProcessReturns(m, TRUE)
       ELSE MemberGoto(m, "failed") /\ UNCHANGED buffer
    /\ UNCHANGED <<cfg, log, committed, owner, deadLetters, givenUp, mishaps, flight, call, rows>>

\* The flush inside Add finds the buffer, or another flusher was faster.
ConsumerTake(m) ==
    /\ At(m, "flush")
    /\ IF buffer[m] = <<>>
       THEN ProcessReturns(m, TRUE) /\ UNCHANGED <<buffer, flight>>
       ELSE Take(m, "consumer") /\ MemberGoto(m, "insert")
    /\ UNCHANGED <<cfg, log, committed, owner, deadLetters, givenUp, mishaps, call, rows>>

ConsumerInsert(m) ==
    /\ At(m, "insert")
    /\ \/ Inserted(m, "consumer") /\ ProcessReturns(m, TRUE)
       \/ InsertFailed(m, "consumer") /\ MemberGoto(m, "failed")
    /\ UNCHANGED <<cfg, log, committed, owner, deadLetters, givenUp, call>>

\* eventBatcher.loop, until Stop.
Tick(m) ==
    /\ cfg.service = "analytics" /\ member[m].stage = "up"
    /\ flight[m]["ticker"] = <<>> /\ buffer[m] # <<>>
    /\ Take(m, "ticker")
    /\ UNCHANGED <<kafkaVars, call, rows>>

\* The end of the ticker's flush, and of the one of Stop.
TickInsert(m) ==
    /\ flight[m]["ticker"] # <<>>
    /\ Inserted(m, "ticker") \/ InsertFailed(m, "ticker")
    /\ UNCHANGED <<cfg, log, committed, owner, member, deadLetters, givenUp, call>>

\* The stop hook runs before the consumer's: Stop waits for the ticker and
\* flushes, while the consumer still reads.
StopBatcher(m) ==
    /\ cfg.service = "analytics" /\ member[m].stage = "up"
    /\ flight[m]["ticker"] = <<>> /\ Mishap
    /\ Set(m, [member[m] EXCEPT !.stage = "flushed"])
    /\ Take(m, "ticker")
    /\ UNCHANGED <<cfg, log, committed, owner, deadLetters, givenUp, call, rows>>

\* The gRPC call TrackEvent (one in a behaviour).
TrackEvent(m) ==
    /\ cfg.service = "analytics" /\ member[m].stage # "down" /\ call = NoCall /\ Mishap
    /\ Add(m, 0)
    /\ call' = [at |-> m, pc |-> IF Full(m) THEN "flush" ELSE "done"]
    /\ UNCHANGED <<cfg, log, committed, owner, member, deadLetters, givenUp, flight, rows>>

CallTake(m) ==
    /\ call = [at |-> m, pc |-> "flush"]
    /\ IF buffer[m] = <<>>
       THEN call' = [call EXCEPT !.pc = "done"] /\ UNCHANGED <<buffer, flight>>
       ELSE Take(m, "call") /\ call' = [call EXCEPT !.pc = "insert"]
    /\ UNCHANGED <<kafkaVars, rows>>

CallInsert(m) ==
    /\ call = [at |-> m, pc |-> "insert"]
    /\ call' = [call EXCEPT !.pc = "done"]
    /\ Inserted(m, "call") \/ InsertFailed(m, "call")
    /\ UNCHANGED <<cfg, log, committed, owner, member, deadLetters, givenUp>>

\* The member's memory is gone; inserts under way may or may not arrive.
Wipe(m) ==
    \E arrived \in SUBSET {f \in Flushers : flight[m][f] # <<>>} :
        LET taken(F, e) == MapThenSumSet(LAMBDA f : CountIn(flight[m][f], e), F)
            gone(e) == CountIn(buffer[m], e) + taken(Flushers \ arrived, e)
        IN  /\ rows' = [e \in Tracked |-> rows[e] + taken(arrived, e)]
            /\ givenUp' = [i \in Offsets |-> givenUp[i] \cup IF gone(i) > 0 THEN {"wiped"} ELSE {}]
            /\ buffer' = [buffer EXCEPT ![m] = <<>>]
            /\ flight' = [flight EXCEPT ![m] = [f \in Flushers |-> <<>>]]
            /\ call' = IF call.at = m THEN [call EXCEPT !.pc = "done"] ELSE call

AnalyticsCrash(m) == cfg.service = "analytics" /\ CrashMember(m) /\ Wipe(m)

\* The process exits with whatever came into the buffer after the last flush.
AnalyticsExit(m) ==
    /\ cfg.service = "analytics" /\ flight[m]["ticker"] = <<>>
    /\ CloseGroup(m) /\ Wipe(m)

AnalyticsStep(m) ==
    \/ AnalyticsProcess(m) \/ ConsumerTake(m) \/ ConsumerInsert(m)
    \/ Tick(m) \/ TickInsert(m) \/ CallTake(m) \/ CallInsert(m)

-----------------------------------------------------------------------------
\* Copies of an event in the table and in the members' memory.
Copies(e) ==
    LET held(m) == CountIn(buffer[m], e)
                   + MapThenSumSet(LAMBDA f : CountIn(flight[m][f], e), Flushers)
    IN  rows[e] + MapThenSumSet(held, Members)

\* GetDailyRevenue adds up the rows, whatever they are copies of; a payment
\* counts one unit here.
DailyRevenue == MapThenSumSet(LAMBDA i : IF log[i] = "known" THEN rows[i] ELSE 0, Offsets)
=============================================================================
