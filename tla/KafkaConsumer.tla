---------------------------- MODULE KafkaConsumer ----------------------------
(***************************************************************************)
(* pkg/kafka: a consumer group reading one partition.  Each member is a    *)
(* process with the loop of Consumer.Start; the broker gives the partition *)
(* to one member at a time and keeps its committed offset.  A member that  *)
(* was evicted goes on with what it has in hand until it notices.          *)
(*                                                                         *)
(* What Process does belongs to the service: Analytics and Notification    *)
(* take a member from "process" to Return, "failed" or "rejected".         *)
(***************************************************************************)
EXTENDS Integers, Sequences

CONSTANTS Members,
          NoMember,    \* the partition is not assigned
          Logs,        \* service -> topics to try: sequences of kinds of messages
          MaxMishaps   \* bound on evictions, crashes, stops, time-outs, failed
                       \* writes and gRPC calls

ASSUME ConsumerAssumption == NoMember \notin Members /\ MaxMishaps \in Nat

VARIABLES cfg,         \* the service's settings, fixed at the start
          log,         \* the messages of the partition
          committed,   \* the group's offset: how many messages are done with
          owner,       \* the member the partition is assigned to
          member,      \* what each member is doing
          deadLetters, \* offsets that are in the dead letter topic
          givenUp,     \* history: offset -> how its handling was cut short
          mishaps

kafkaVars == <<cfg, log, committed, owner, member, deadLetters, givenUp, mishaps>>

Offsets == 1..Len(log)

\* Messages of the topic: a known event type; an order as order-service
\* publishes it, which has no event_type; no JSON at all; a known type whose
\* recipient is no address.
Kinds == {"known", "order", "poison", "badAddress"}

Config == [service: {"analytics", "notification"}, dlqTopic: BOOLEAN,
           maxRetries: Nat, dlqUp: BOOLEAN, smtp: BOOLEAN]

\* Config.setDefaults, on what fxmodules.KafkaConsumer passes on.
SetDefaults(c) == [c EXCEPT !.maxRetries = IF @ < 0 THEN 0 ELSE @]

\* NewConsumer: a producer for the dead letter topic is made only if there is a
\* topic, and the consumer does without if it cannot be made.
NewConsumer(c) ==
    {[SetDefaults(c) EXCEPT !.dlqUp = up] : up \in IF c.dlqTopic THEN BOOLEAN ELSE {FALSE}}

\* stage: the process is up, has flushed its buffer for good, has closed the
\* dead letter producer, or is down.  loop: the goroutine of Start runs.
FreshMember == [stage |-> "up", loop |-> TRUE, session |-> FALSE, pc |-> "idle",
          pos |-> 0, marked |-> 0, attempt |-> 0]

KafkaInit(c) ==
    /\ cfg \in NewConsumer(c)
    /\ log \in Logs[c.service]
    /\ committed = 0
    /\ owner = CHOOSE m \in Members : TRUE
    /\ member = [m \in Members |-> [FreshMember EXCEPT !.session = (m = owner)]]
    /\ deadLetters = {} /\ givenUp = [i \in Offsets |-> {}]
    /\ mishaps = 0

-----------------------------------------------------------------------------
Mishap == mishaps < MaxMishaps /\ mishaps' = mishaps + 1

At(m, pc) == member[m].pc = pc
Current(m) == member[m].pos + 1
Set(m, r) == member' = [member EXCEPT ![m] = r]
MemberGoto(m, pc) == Set(m, [member[m] EXCEPT !.pc = pc])
Lose(i, why) == givenUp' = [givenUp EXCEPT ![i] = @ \cup {why}]

\* process returns; the offset after the message is marked, or not.
ProcessReturns(m, mark) ==
    LET next == Current(m)
    IN  Set(m, [member[m] EXCEPT !.pc = "idle", !.pos = next,
                                 !.marked = IF mark THEN next ELSE @])

\* Consumer.Start: join the group; reading starts at the committed offset.
Consume(m) ==
    /\ member[m].loop /\ ~member[m].session /\ owner = NoMember
    /\ owner' = m
    /\ Set(m, [member[m] EXCEPT !.session = TRUE, !.pos = committed, !.marked = committed])
    /\ UNCHANGED <<cfg, log, committed, deadLetters, givenUp, mishaps>>

\* ConsumeClaim takes the next message of the claim, whatever became of the
\* last one.
ConsumeClaim(m) ==
    /\ member[m].session /\ At(m, "idle") /\ Current(m) \in Offsets
    /\ Set(m, [member[m] EXCEPT !.pc = "process", !.attempt = 0])
    /\ UNCHANGED <<cfg, log, committed, owner, deadLetters, givenUp, mishaps>>

\* sendToDLQ: without a topic or a producer, and when the send fails, the
\* message is dropped.
SendToDLQ(m) ==
    LET i == Current(m)
    IN  \/ /\ cfg.dlqTopic /\ cfg.dlqUp /\ member[m].stage # "closing"
           /\ deadLetters' = deadLetters \cup {i}
           /\ UNCHANGED <<givenUp, mishaps>>
        \/ /\ \/ ~cfg.dlqTopic /\ UNCHANGED mishaps
              \/ ~cfg.dlqUp /\ cfg.dlqTopic /\ UNCHANGED mishaps
              \/ member[m].stage = "closing" /\ UNCHANGED mishaps
              \/ cfg.dlqUp /\ member[m].stage # "closing" /\ Mishap
           /\ Lose(i, "dropped")
           /\ UNCHANGED deadLetters

\* After Process returned an error: a permanent one, or the last attempt's,
\* goes to the dead letter topic.
HandleError(m) ==
    /\ \/ At(m, "rejected") /\ SendToDLQ(m) /\ ProcessReturns(m, TRUE)
       \/ /\ At(m, "failed") /\ member[m].attempt < cfg.maxRetries
          /\ MemberGoto(m, "backoff") /\ UNCHANGED <<deadLetters, givenUp, mishaps>>
       \/ /\ At(m, "failed") /\ member[m].attempt = cfg.maxRetries
          /\ SendToDLQ(m) /\ ProcessReturns(m, cfg.dlqTopic)
    /\ UNCHANGED <<cfg, log, committed, owner>>

\* Mutant: attempts are not counted.
BackoffUncounted(m) ==
    /\ At(m, "backoff")
    /\ \/ MemberGoto(m, "process") /\ UNCHANGED <<givenUp, mishaps>>
       \/ ProcessReturns(m, FALSE) /\ Lose(Current(m), "abandoned") /\ Mishap
    /\ UNCHANGED <<cfg, log, committed, owner, deadLetters>>

\* The pause between attempts; if the message's context ends first, process
\* returns without marking, and the claim goes on.
Backoff(m) ==
    /\ At(m, "backoff")
    /\ \/ /\ Set(m, [member[m] EXCEPT !.pc = "process", !.attempt = @ + 1])
          /\ UNCHANGED <<givenUp, mishaps>>
       \/ ProcessReturns(m, FALSE) /\ Lose(Current(m), "abandoned") /\ Mishap
    /\ UNCHANGED <<cfg, log, committed, owner, deadLetters>>

\* Mutant: the offset read is committed, not the offset marked.
AutoCommitRead(m) ==
    /\ owner = m /\ member[m].pos > committed
    /\ committed' = member[m].pos
    /\ UNCHANGED <<cfg, log, owner, member, deadLetters, givenUp, mishaps>>

\* sarama commits the marked offset every second.  The broker takes commits
\* from the owner only.
AutoCommit(m) ==
    /\ owner = m /\ member[m].marked > committed
    /\ committed' = member[m].marked
    /\ UNCHANGED <<cfg, log, owner, member, deadLetters, givenUp, mishaps>>

\* A session ends in order: the message in hand is finished, marks are committed.
ReleasePartition(m) ==
    IF owner = m
    THEN /\ owner' = NoMember
         /\ committed' = IF member[m].marked > committed THEN member[m].marked ELSE committed
    ELSE UNCHANGED <<owner, committed>>

Rebalance(m) ==
    /\ owner = m /\ At(m, "idle") /\ Mishap
    /\ ReleasePartition(m)
    /\ Set(m, [member[m] EXCEPT !.session = FALSE])
    /\ UNCHANGED <<cfg, log, deadLetters, givenUp>>

\* The broker misses the member's heartbeats.
Evict(m) ==
    /\ owner = m /\ Mishap
    /\ owner' = NoMember
    /\ UNCHANGED <<cfg, log, committed, member, deadLetters, givenUp>>

\* The evicted member notices; its loop joins again.
EndSession(m) ==
    /\ member[m].session /\ owner # m /\ At(m, "idle")
    /\ Set(m, [member[m] EXCEPT !.session = FALSE])
    /\ UNCHANGED <<cfg, log, committed, owner, deadLetters, givenUp, mishaps>>

\* The context of OnStart, under which Start loops, is done.
ConsumerLoopEnds(m) ==
    /\ member[m].loop /\ At(m, "idle") /\ Mishap
    /\ ReleasePartition(m)
    /\ Set(m, [member[m] EXCEPT !.loop = FALSE, !.session = FALSE])
    /\ UNCHANGED <<cfg, log, deadLetters, givenUp>>

\* OnStop of fxmodules.KafkaConsumer: Close closes the dead letter producer and
\* then the group, which waits for the message in hand.
CloseDLQ(m) ==
    /\ \/ cfg.service = "analytics" /\ member[m].stage = "flushed" /\ UNCHANGED mishaps
       \/ cfg.service = "notification" /\ member[m].stage = "up" /\ Mishap
    /\ Set(m, [member[m] EXCEPT !.stage = "closing"])
    /\ UNCHANGED <<cfg, log, committed, owner, deadLetters, givenUp>>

CloseGroup(m) ==
    /\ member[m].stage = "closing" /\ At(m, "idle")
    /\ ReleasePartition(m)
    /\ Set(m, [FreshMember EXCEPT !.stage = "down", !.loop = FALSE])
    /\ UNCHANGED <<cfg, log, deadLetters, mishaps>>

\* The process dies and is started again.
CrashMember(m) ==
    /\ member[m].stage # "down" /\ Mishap
    /\ owner' = IF owner = m THEN NoMember ELSE owner
    /\ Set(m, FreshMember)
    /\ UNCHANGED <<cfg, log, committed, deadLetters>>

\* One step of a member that is neither a fault nor the service's.
KafkaStep(m) ==
    \/ Consume(m) \/ ConsumeClaim(m) \/ HandleError(m) \/ Backoff(m)
    \/ AutoCommit(m) \/ EndSession(m)

KafkaTrouble(m) == Rebalance(m) \/ Evict(m) \/ ConsumerLoopEnds(m)
=============================================================================
