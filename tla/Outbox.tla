------------------------------- MODULE Outbox -------------------------------
(***************************************************************************)
(* What the outbox promises its users, free of pollers, claims, attempts   *)
(* and crashes: once a service has committed an event, every subscriber of *)
(* that event is owed exactly one piece of background work, all of them    *)
(* from the same step; that work stays owed until it is done, dead-        *)
(* lettered for an administrator to see, or dropped by an administrator,   *)
(* and what is done is never owed again.  JobQueue implements it.          *)
(***************************************************************************)
EXTENDS FiniteSets

CONSTANTS Events,      \* the events services may commit
          Targets,     \* whom an event may fan out to
          Permanent    \* the targets subscribed throughout

VARIABLES published,   \* the events committed so far
          fanned,      \* those already turned into work
          duty         \* duty[e][t]: what became of the work e owes t

outboxVars == <<published, fanned, duty>>

DutyState == {"none", "owed", "done", "dead", "dropped"}

OutboxInit ==
    /\ published = {}
    /\ fanned = {}
    /\ duty = [e \in Events |-> [t \in Targets |-> "none"]]

\* A service commits an event with its own state change.
Publish(e) ==
    /\ e \notin published
    /\ published' = published \union {e}
    /\ UNCHANGED <<fanned, duty>>

\* All the work of an event becomes owed in one step, once.
FanOutOnce(e, ts) ==
    /\ e \in published \ fanned
    /\ Permanent \subseteq ts
    /\ fanned' = fanned \union {e}
    /\ duty' = [duty EXCEPT ![e] = [t \in Targets |->
                    IF t \in ts THEN "owed" ELSE "none"]]
    /\ UNCHANGED published

\* The work of one target moves on: executed, given up, put back, dropped.
Settle(e, t) ==
    /\ \/ /\ duty[e][t] = "owed"
          /\ \E s \in {"done", "dead"} : duty' = [duty EXCEPT ![e][t] = s]
       \/ /\ duty[e][t] = "dead"
          /\ duty' = [duty EXCEPT ![e][t] = "owed"]
       \/ /\ duty[e][t] \in {"owed", "done", "dead"}
          /\ duty' = [duty EXCEPT ![e][t] = "dropped"]
    /\ UNCHANGED <<published, fanned>>

OutboxNext ==
    \E e \in Events :
        \/ Publish(e)
        \/ \E ts \in SUBSET Targets : FanOutOnce(e, ts)
        \/ \E t \in Targets : Settle(e, t)

OutboxSpec == OutboxInit /\ [][OutboxNext]_outboxVars
=============================================================================
