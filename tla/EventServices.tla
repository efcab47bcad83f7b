----------------------------- MODULE EventServices -----------------------------
(***************************************************************************)
(* The two services that consume order events, on the consumer of          *)
(* pkg/kafka.  A behaviour is about one of them: they are in different     *)
(* groups and share nothing but the topic.                                 *)
(***************************************************************************)
EXTENDS Analytics, Notification

eventVars == <<kafkaVars, analyticsVars, notificationVars>>

EventInit ==
    /\ \E c \in {AnalyticsConfig} \cup NotificationConfig : KafkaInit(c)
    /\ AnalyticsInit /\ NotificationInit

\* What the fair scheduling of goroutines keeps going.
Step(m) ==
    \/ KafkaStep(m) /\ UNCHANGED <<analyticsVars, notificationVars>>
    \/ AnalyticsStep(m) /\ UNCHANGED notificationVars
    \/ NotificationProcess(m) /\ UNCHANGED analyticsVars

\* Shutdown, once it has begun.
Shutdown(m) ==
    \/ member[m].stage = "flushed" /\ CloseDLQ(m) /\ UNCHANGED <<analyticsVars, notificationVars>>
    \/ AnalyticsExit(m) /\ UNCHANGED notificationVars
    \/ NotificationExit(m) /\ UNCHANGED analyticsVars

Other(m) ==
    \/ KafkaTrouble(m) /\ UNCHANGED <<analyticsVars, notificationVars>>
    \/ (TrackEvent(m) \/ StopBatcher(m) \/ AnalyticsCrash(m)) /\ UNCHANGED notificationVars
    \/ member[m].stage = "up" /\ CloseDLQ(m) /\ UNCHANGED <<analyticsVars, notificationVars>>
    \/ /\ \E s, v \in BOOLEAN : SendEmail(m, s, v)
       /\ UNCHANGED analyticsVars
    \/ (LateSend(m) \/ NotificationCrash(m)) /\ UNCHANGED analyticsVars

EventNext == \E m \in Members : Step(m) \/ Shutdown(m) \/ Other(m)

EventSpec == EventInit /\ [][EventNext]_eventVars

\* Goroutines run, the broker assigns a free partition, sarama commits.
EventFairness == \A m \in Members : WF_eventVars(Step(m)) /\ WF_eventVars(Shutdown(m))
EventFairSpec == EventSpec /\ EventFairness

-----------------------------------------------------------------------------
\* The service did what it does for the message, or put it in the dead letter
\* topic.  notification-service ignores messages it does not know.
MessageHandled(i) ==
    \/ i \in deadLetters
    \/ cfg.service = "analytics" /\ Copies(i) > 0
    \/ cfg.service = "notification" /\ (mails[i] > 0 \/ ~cfg.smtp \/ ~MessageFor(log[i]))

\* An offset is committed only past messages that were handled: a message below
\* it that was not was abandoned when its time ran out, dropped for want of a
\* dead letter topic, or was in a buffer that a crash or an exit wiped.  In
\* undisturbed processes only messages analytics-service cannot read are lost.
\* The last message below the offset was marked itself, so it is never one that
\* was abandoned, or refused without a dead letter topic.
CommittedIsHandled ==
    \A i \in Offsets : i <= committed /\ ~MessageHandled(i) =>
        /\ givenUp[i] # {}
        /\ mishaps = 0 /\ (\A m \in Members : member[m].stage = "up") =>
              IF cfg.service = "analytics" THEN ~MapEventType(log[i]) ELSE ~cfg.dlqUp
        /\ i = committed => "wiped" \in givenUp[i] \/ ("dropped" \in givenUp[i] /\ cfg.dlqTopic)

\* However the consumer, the ticker and a gRPC call interleave their flushes, an event
\* is stored once as long as nothing goes wrong (the call is counted with the mishaps,
\* but is none); and a mishap costs one more e-mail at most.
CopiesHaveCauses ==
    /\ mishaps = (IF call = NoCall THEN 0 ELSE 1) => \A e \in Tracked : rows[e] <= 1
    /\ \A e \in Mailed : mails[e] <= 1 + mishaps

\* Every message is handled to an end, committed or given up, as long as some
\* member's loop runs.
EveryMessageIsTried ==
    []<>(\/ \A i \in Offsets : committed >= i \/ givenUp[i] # {}
         \/ \A m \in Members : ~member[m].loop)

-----------------------------------------------------------------------------
(* What the comments in analytics-service say. *)

\* The comment on Process: messages it returns an error for are not committed unless
\* they went to the dead letter topic.
RefusedIsKept ==
    cfg.service = "analytics" =>
        \A i \in Offsets : i <= committed /\ ~MapEventType(log[i]) => i \in deadLetters

\* The comment on the batcher: duplicates are removed where the events are stored, so
\* that revenue counts a payment once.
RevenueCountsOnce ==
    DailyRevenue <= Cardinality({i \in Offsets : log[i] = "known"})

\* At least one of the two comments is right.
ACommentIsRight == RefusedIsKept \/ RevenueCountsOnce
=============================================================================
