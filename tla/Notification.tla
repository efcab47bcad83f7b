----------------------------- MODULE Notification -----------------------------
(***************************************************************************)
(* notification-service: an e-mail per event of a known type.  The SMTP    *)
(* provider sends in a goroutine of its own, which is not stopped when the *)
(* caller gives up waiting.                                                *)
(***************************************************************************)
EXTENDS KafkaConsumer

VARIABLES mails,     \* event -> how often its e-mail was delivered
          sending    \* member -> event -> goroutines nobody waits for any more

notificationVars == <<mails, sending>>

\* Event 0 is the e-mail another service asks for by gRPC.
Mailed == 0..Len(log)

\* Settings of the service; without an SMTP host e-mails are only logged.
NotificationConfig == {[service |-> "notification", dlqTopic |-> TRUE, maxRetries |-> 2,
                        dlqUp |-> FALSE, smtp |-> s] : s \in BOOLEAN}

NotificationInit ==
    /\ mails = [e \in Mailed |-> 0]
    /\ sending = [m \in Members |-> [e \in Mailed |-> 0]]

-----------------------------------------------------------------------------
\* messageFor has a text for the event.
MessageFor(kind) == kind \in {"known", "badAddress"}

\* validateSendEmail: mail.ParseAddress accepts the recipient.
ValidAddress(kind) == kind # "badAddress"

\* Provider.Send by SMTP: delivered, refused, or not finished when the caller's
\* context ends.
Send(m, e, result) ==
    \/ /\ result = "ok"
       /\ mails' = [mails EXCEPT ![e] = IF cfg.smtp THEN @ + 1 ELSE @]
       /\ UNCHANGED sending
    \/ cfg.smtp /\ result = "error" /\ UNCHANGED <<mails, sending>>
    \/ /\ cfg.smtp /\ result = "timeout"
       /\ sending' = [sending EXCEPT ![m][e] = @ + 1]
       /\ UNCHANGED mails

\* notificationUsecase.SendEmail: validation, then the provider.
Deliver(m, e, valid, result) ==
    \/ ~valid /\ result = "invalid" /\ UNCHANGED notificationVars
    \/ valid /\ Send(m, e, result)

Results == {"ok", "error", "timeout", "invalid"}

\* Processor.Process: unknown events are done with; an invalid argument is a
\* permanent error.
NotificationProcess(m) ==
    /\ cfg.service = "notification" /\ At(m, "process")
    /\ LET kind == log[Current(m)]
       IN  \/ ~MessageFor(kind) /\ ProcessReturns(m, TRUE) /\ UNCHANGED <<notificationVars, mishaps>>
           \/ \E result \in Results :
                 /\ MessageFor(kind)
                 /\ Deliver(m, Current(m), ValidAddress(kind), result)
                 /\ \/ result = "ok" /\ ProcessReturns(m, TRUE)
                    \/ result = "invalid" /\ MemberGoto(m, "rejected")
                    \/ result \in {"error", "timeout"} /\ MemberGoto(m, "failed")
                 /\ IF result = "timeout" THEN Mishap ELSE UNCHANGED mishaps
    /\ UNCHANGED <<cfg, log, committed, owner, deadLetters, givenUp>>

\* The gRPC handler SendEmail: services only (until it succeeds once).
SendEmail(m, isService, valid) ==
    /\ cfg.service = "notification" /\ member[m].stage # "down" /\ mails[0] = 0
    /\ isService /\ Mishap
    /\ \E result \in Results : Deliver(m, 0, valid, result)
    /\ UNCHANGED <<cfg, log, committed, owner, member, deadLetters, givenUp>>

\* A goroutine that nobody waits for delivers after all, or fails.
LateSend(m) ==
    /\ \E e \in Mailed :
          /\ sending[m][e] > 0
          /\ sending' = [sending EXCEPT ![m][e] = @ - 1]
          /\ \/ mails' = [mails EXCEPT ![e] = @ + 1]
             \/ UNCHANGED mails
    /\ UNCHANGED kafkaVars

ForgetSends(m) == sending' = [sending EXCEPT ![m] = [e \in Mailed |-> 0]]

NotificationCrash(m) ==
    /\ cfg.service = "notification" /\ CrashMember(m) /\ ForgetSends(m)
    /\ UNCHANGED <<givenUp, mails>>

NotificationExit(m) ==
    /\ cfg.service = "notification" /\ CloseGroup(m) /\ ForgetSends(m)
    /\ UNCHANGED <<givenUp, mails>>
=============================================================================
