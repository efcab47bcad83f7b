------------------------------ MODULE Background ------------------------------
(***************************************************************************)
(* The work that goes on after a request was answered, or without one: the *)
(* sagas of order-service with their recovery, the relays of its outbox,   *)
(* and the consumers of the events they publish.  They share no table, so  *)
(* a behaviour moves one of the three and the others stay at rest.         *)
(***************************************************************************)
EXTENDS Saga, OrderOutbox, EventServices

VARIABLE active

backgroundVars == <<active, vars, outboxVars, eventVars>>

\* An empty topic keeps the consumers at rest.
BackgroundInit ==
    /\ active \in {"sagas", "outbox", "events"}
    /\ Init /\ OutboxInit /\ EventInit
    /\ active = "events" <=> log # <<>>

SagasMove == active = "sagas" /\ Next /\ UNCHANGED <<active, outboxVars, eventVars>>
OutboxMoves == active = "outbox" /\ OutboxNext /\ UNCHANGED <<active, vars, eventVars>>
EventsMove == active = "events" /\ EventNext /\ UNCHANGED <<active, vars, outboxVars>>

BackgroundNext == SagasMove \/ OutboxMoves \/ EventsMove

\* Each part with its own fairness.
BackgroundSpec ==
    /\ BackgroundInit /\ [][BackgroundNext]_backgroundVars
    /\ Fairness /\ OutboxFairness /\ EventFairness
=============================================================================
