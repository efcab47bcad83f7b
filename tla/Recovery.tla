------------------------------- MODULE Recovery -------------------------------
(***************************************************************************)
(* The recovery workers of order-service's replicas: the advisory lock     *)
(* they share, taken and released through a pool of sessions, and the      *)
(* rounds they make over the incomplete sagas.  What a round does to one   *)
(* saga is the module Saga; here a saga is open until some visit ends it.  *)
(*                                                                         *)
(* An advisory lock belongs to a session.  A session that holds it gets it *)
(* again, and must give it back as often.  The pool hands out any session, *)
(* so Unlock may come to one that does not hold the lock, which PostgreSQL *)
(* answers without an error.                                               *)
(***************************************************************************)
EXTENDS Naturals, Sequences, FiniteSets

CONSTANTS Workers, Sessions,  \* replicas, and the sessions of each pool
          OpenSagas,          \* how many sagas are incomplete at first
          ListLimit,          \* ListIncomplete's limit
          MaxRounds, MaxRecoveryFaults  \* bounds

ASSUME RecoveryAssumption ==
    /\ OpenSagas \in Nat /\ ListLimit \in Nat \ {0}
    /\ MaxRounds \in Nat /\ MaxRecoveryFaults \in Nat

VARIABLES held,    \* pg_locks: how often a session of a worker's pool holds the lock
          worker,  \* pc, whether its context is live, the session it locked with,
                   \* whether that session was lost, the sagas left to visit
          open,    \* incomplete sagas, the oldest first
          rounds, recoveryFaults

recoveryVars == <<held, worker, open, rounds, recoveryFaults>>

Asleep == [pc |-> "off", live |-> FALSE, with |-> {}, lost |-> FALSE, todo |-> <<>>]

RecoveryInit ==
    /\ held = [w \in Workers |-> [s \in Sessions |-> 0]]
    /\ worker = [w \in Workers |-> Asleep]
    /\ open = [i \in 1..OpenSagas |-> i]
    /\ rounds = 0 /\ recoveryFaults = 0

RecoveryFault == recoveryFaults < MaxRecoveryFaults /\ recoveryFaults' = recoveryFaults + 1

InRound(w) == worker[w].pc \in {"listing", "visiting", "unlocking"}

\* RecoveryWorker.Start: recoverOnce before the loop.  The context is fx's start context.
StartWorker(w) ==
    /\ worker[w].pc = "off" /\ rounds < MaxRounds /\ rounds' = rounds + 1
    /\ worker' = [worker EXCEPT ![w] = [Asleep EXCEPT !.pc = "trying", !.live = TRUE]]
    /\ UNCHANGED <<held, open, recoveryFaults>>

\* loop: the next tick.
RecoveryTick(w) ==
    /\ worker[w].pc = "idle" /\ rounds < MaxRounds /\ rounds' = rounds + 1
    /\ worker' = [worker EXCEPT ![w].pc = "trying"]
    /\ UNCHANGED <<held, open, recoveryFaults>>

\* loop: Stop was called, or the context is over.
RecoveryLoopEnds(w) ==
    /\ worker[w].pc = "idle"
    /\ worker' = [worker EXCEPT ![w].pc = "ended"]
    /\ UNCHANGED <<held, open, rounds, recoveryFaults>>

\* The start context ends while the process runs on.
ContextEnds(w) ==
    /\ worker[w].live
    /\ worker' = [worker EXCEPT ![w].live = FALSE]
    /\ UNCHANGED <<held, open, rounds, recoveryFaults>>

\* pg_try_advisory_lock.
Grants(w, s) == \A v \in Workers, t \in Sessions : <<v, t>> # <<w, s>> => held[v][t] = 0

\* Mutant: only the error of the query is looked at.
TryLockIgnored(w, s) ==
    /\ worker[w].pc = "trying" /\ worker[w].live
    /\ held' = IF Grants(w, s) THEN [held EXCEPT ![w][s] = @ + 1] ELSE held
    /\ worker' = [worker EXCEPT ![w].pc = "listing", ![w].with = {s}]
    /\ UNCHANGED <<open, rounds, recoveryFaults>>

\* recoverOnce takes the lock.
TryLock(w, s) ==
    /\ worker[w].pc = "trying" /\ worker[w].live
    /\ IF Grants(w, s)
       THEN /\ held' = [held EXCEPT ![w][s] = @ + 1]
            /\ worker' = [worker EXCEPT ![w].pc = "listing", ![w].with = {s}]
       ELSE worker' = [worker EXCEPT ![w].pc = "idle"] /\ UNCHANGED held
    /\ UNCHANGED <<open, rounds, recoveryFaults>>

\* TryLock returns an error: the context is over, or the answer of the query
\* is lost, perhaps after the lock was granted.
TryLockFails(w, s) ==
    /\ worker[w].pc = "trying"
    /\ \/ ~worker[w].live /\ UNCHANGED <<held, recoveryFaults>>
       \/ RecoveryFault /\ Grants(w, s) /\ held' = [held EXCEPT ![w][s] = @ + 1]
    /\ worker' = [worker EXCEPT ![w].pc = "idle"]
    /\ UNCHANGED <<open, rounds>>

\* Recover: the oldest incomplete sagas, or an error.
ListIncomplete(w) ==
    /\ worker[w].pc = "listing"
    /\ \/ /\ worker[w].live /\ UNCHANGED recoveryFaults
          /\ worker' = [worker EXCEPT
                ![w].pc = "visiting",
                ![w].todo = SubSeq(open, 1, IF Len(open) < ListLimit THEN Len(open) ELSE ListLimit)]
       \/ /\ (RecoveryFault \/ (~worker[w].live /\ UNCHANGED recoveryFaults))
          /\ worker' = [worker EXCEPT ![w].pc = "unlocking"]
    /\ UNCHANGED <<held, open, rounds>>

\* GetByID and ProcessOrder for the next saga; errors are logged and the round goes on.
Visit(w) ==
    /\ worker[w].pc = "visiting" /\ worker[w].todo # <<>>
    /\ \/ worker[w].live /\ open' = SelectSeq(open, LAMBDA saga : saga # Head(worker[w].todo))
       \/ UNCHANGED open
    /\ worker' = [worker EXCEPT ![w].todo = Tail(@)]
    /\ UNCHANGED <<held, rounds, recoveryFaults>>

RoundEnds(w) ==
    /\ worker[w].pc = "visiting" /\ worker[w].todo = <<>>
    /\ worker' = [worker EXCEPT ![w].pc = "unlocking"]
    /\ UNCHANGED <<held, open, rounds, recoveryFaults>>

\* The deferred Unlock, on whatever session the pool gives; nothing is released
\* when the context is over.
Unlock(w, s) ==
    /\ worker[w].pc = "unlocking"
    /\ held' = IF worker[w].live /\ held[w][s] > 0 THEN [held EXCEPT ![w][s] = @ - 1] ELSE held
    /\ worker' = [worker EXCEPT ![w].pc = "idle", ![w].with = {}, ![w].lost = FALSE]
    /\ UNCHANGED <<open, rounds, recoveryFaults>>

\* The pool loses a session, and PostgreSQL the locks it held.
SessionLost(w, s) ==
    /\ RecoveryFault /\ held' = [held EXCEPT ![w][s] = 0]
    /\ worker' = [worker EXCEPT ![w].lost = @ \/ (InRound(w) /\ s \in worker[w].with)]
    /\ UNCHANGED <<open, rounds>>

\* The process ends: its sessions are closed.
WorkerExits(w) ==
    /\ worker[w].pc # "off"
    /\ \/ worker[w].pc = "ended" /\ UNCHANGED recoveryFaults
       \/ worker[w].pc # "ended" /\ RecoveryFault
    /\ worker' = [worker EXCEPT ![w] = Asleep]
    /\ held' = [held EXCEPT ![w] = [s \in Sessions |-> 0]]
    /\ UNCHANGED <<open, rounds>>

RecoveryNext ==
    \E w \in Workers :
        \/ StartWorker(w) \/ RecoveryTick(w) \/ RecoveryLoopEnds(w) \/ ContextEnds(w)
        \/ ListIncomplete(w) \/ Visit(w) \/ RoundEnds(w) \/ WorkerExits(w)
        \/ \E s \in Sessions : TryLock(w, s) \/ TryLockFails(w, s) \/ Unlock(w, s) \/ SessionLost(w, s)

RecoverySpec == RecoveryInit /\ [][RecoveryNext]_recoveryVars

-----------------------------------------------------------------------------
\* Two replicas recover sagas at the same time only if one of them lost the
\* session it took the lock with during its round.  Unlocking on other
\* sessions, contexts that end, lost answers and restarts leave locks behind;
\* they never let a second round in.
OneRecoveryAtATime ==
    \A v, w \in Workers :
        v # w /\ InRound(v) /\ InRound(w) => worker[v].lost \/ worker[w].lost
=============================================================================
