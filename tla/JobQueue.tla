------------------------------ MODULE JobQueue ------------------------------
(***************************************************************************)
(* Background work in edda: the `events` outbox, the dispatcher that turns *)
(* an event into rows of `jobs`, the poller that claims and runs them, the *)
(* administrator's requeue and delete, and the life of the process they    *)
(* run in (edda-jobs, the job and event repositories of edda-db, main.rs). *)
(*                                                                         *)
(* The two tables survive a crash; everything else lives in a process.     *)
(* `run_at <= now` is the flag `due`: a retry clears it, Wake sets it.     *)
(* The order of rows inside one batch (ORDER BY run_at, ORDER BY           *)
(* occurred_at) is left open.                                              *)
(***************************************************************************)
EXTENDS Integers, FiniteSets

CONSTANTS Procs,          \* server processes sharing the database
          Events,         \* events services may append
          Targets,        \* webhooks and users an event may fan out to
          Permanent,      \* the targets that never unsubscribe
          None,           \* no event, no target, nothing in hand
          JobIds,         \* job rows that may ever exist (a bound)
          MaxAttempts,    \* DEFAULT_MAX_ATTEMPTS
          BatchSize,      \* rows one poll takes
          MaxConcurrent,  \* permits of the poller's semaphore
          MaxFaults,      \* bound: crashes, aborted drains, lost writes
          MaxGlitches,    \* bound: errors the next poll makes good
          MaxStops,       \* bound: graceful shutdowns
          MaxRequeues     \* bound: administrator's requeues

ASSUME JobQueueAssumption ==
    /\ Permanent \subseteq Targets
    /\ None \notin Events \union Targets
    /\ MaxAttempts \in Nat \ {0}
    /\ BatchSize \in Nat \ {0}
    /\ MaxConcurrent \in Nat \ {0}
    /\ {MaxFaults, MaxGlitches, MaxStops, MaxRequeues} \subseteq Nat

VARIABLES
    events,      \* events table: none, pending (processed_at NULL), processed
    jobs,        \* jobs table
    subscribed,  \* targets whose subscription is on
    proc,        \* up, draining (token cancelled) or down
    backlog,     \* dispatcher: the rest of the batch it fetched
    fanout,      \* dispatcher: the event in hand and the targets read for it
    candidates,  \* poller: rows its SELECT returned, not yet tried
    claimed,     \* poller: rows it claimed, not yet spawned
    tasks,       \* poller: the JoinSet
    runs,        \* history: handler runs since the row was (re)queued
    budget       \* what is left of the bounds above

tables == <<events, jobs, subscribed>>
dispatcherVars == <<backlog, fanout>>
pollerVars == <<candidates, claimed, tasks>>
history == runs
vars == <<tables, proc, dispatcherVars, pollerVars, history, budget>>

-----------------------------------------------------------------------------
EventState == {"none", "pending", "processed"}
JobStatus == {"unused", "pending", "running", "succeeded", "failed", "deleted"}
Job == [status : JobStatus, event : Events \union {None},
        target : Targets \union {None}, attempts : Nat, due : BOOLEAN]

\* A row as a SELECT saw it: the poller goes on using these attempts.
Claim == [job : JobIds, attempts : Nat]
Task == [job : JobIds, attempts : Nat, stage : {"running", "ok", "err"}]
FanOutRead == [event : Events, targets : SUBSET Targets]
Budget == [faults : 0..MaxFaults, glitches : 0..MaxGlitches,
           stops : 0..MaxStops, requeues : 0..MaxRequeues]

TypeOK ==
    /\ events \in [Events -> EventState]
    /\ jobs \in [JobIds -> Job]
    /\ subscribed \in SUBSET Targets
    /\ proc \in [Procs -> {"up", "draining", "down"}]
    /\ backlog \in [Procs -> SUBSET Events]
    /\ fanout \in [Procs -> FanOutRead \union {None}]
    /\ candidates \in [Procs -> SUBSET Claim]
    /\ claimed \in [Procs -> SUBSET Claim]
    /\ tasks \in [Procs -> SUBSET Task]
    /\ runs \in [JobIds -> Nat]
    /\ budget \in Budget

Unused == {j \in JobIds : jobs[j].status = "unused"}
Due == {j \in JobIds : jobs[j].status = "pending" /\ jobs[j].due}
PendingEvents == {e \in Events : events[e] = "pending"}

NewJob(e, t) == [status |-> "pending", event |-> e, target |-> t,
                 attempts |-> 0, due |-> TRUE]

\* At most BatchSize rows, and as many as there are: ... LIMIT n.
Batch_ShortLimit(rows) == {b \in SUBSET rows : b # {} /\ Cardinality(b) < BatchSize}
Batch(rows) == {b \in SUBSET rows :
                  /\ b # {}
                  /\ Cardinality(b) <= BatchSize
                  /\ Cardinality(b) = BatchSize \/ b = rows}

Spend(b) == budget[b] > 0 /\ budget' = [budget EXCEPT ![b] = @ - 1]

-----------------------------------------------------------------------------
Init ==
    /\ events = [e \in Events |-> "none"]
    /\ jobs = [j \in JobIds |-> [status |-> "unused", event |-> None,
                                 target |-> None, attempts |-> 0, due |-> FALSE]]
    /\ subscribed = Targets
    /\ proc = [p \in Procs |-> "up"]
    /\ backlog = [p \in Procs |-> {}]
    /\ fanout = [p \in Procs |-> None]
    /\ candidates = [p \in Procs |-> {}]
    /\ claimed = [p \in Procs |-> {}]
    /\ tasks = [p \in Procs |-> {}]
    /\ runs = [j \in JobIds |-> 0]
    /\ budget = [faults |-> MaxFaults, glitches |-> MaxGlitches,
                 stops |-> MaxStops, requeues |-> MaxRequeues]

-----------------------------------------------------------------------------
(* Services and users *)

\* A service commits a state change and its event in one transaction.
AppendEvent(e) ==
    /\ events[e] = "none"
    /\ events' = [events EXCEPT ![e] = "pending"]
    /\ UNCHANGED <<jobs, subscribed, proc, dispatcherVars, pollerVars, history, budget>>

\* After a push: the BranchPushed event and an UpdateRepoSize job, together.
RecordPush(e, j) ==
    /\ events[e] = "none"
    /\ jobs[j].status = "unused"
    /\ events' = [events EXCEPT ![e] = "pending"]
    /\ jobs' = [jobs EXCEPT ![j] = NewJob(None, None)]
    /\ UNCHANGED <<subscribed, proc, dispatcherVars, pollerVars, history, budget>>

\* A webhook is created or deleted, a user changes a watch level.
ToggleSubscription(t) ==
    /\ t \in Targets \ Permanent
    /\ subscribed' = IF t \in subscribed THEN subscribed \ {t} ELSE subscribed \union {t}
    /\ UNCHANGED <<events, jobs, proc, dispatcherVars, pollerVars, history, budget>>

-----------------------------------------------------------------------------
(* Dispatcher: events -> jobs *)

DispatcherIdle(p) == backlog[p] = {} /\ fanout[p] = None

FetchUnprocessed(p) ==
    /\ proc[p] = "up"
    /\ DispatcherIdle(p)
    /\ \E b \in Batch(PendingEvents) : backlog' = [backlog EXCEPT ![p] = b]
    /\ UNCHANGED <<tables, proc, fanout, pollerVars, history, budget>>

\* The reads that build the fan-out, before the transaction opens.
ReadFanOut(p, e) ==
    /\ fanout[p] = None
    /\ e \in backlog[p]
    /\ backlog' = [backlog EXCEPT ![p] = @ \ {e}]
    /\ fanout' = [fanout EXCEPT ![p] = [event |-> e, targets |-> subscribed]]
    /\ UNCHANGED <<tables, proc, pollerVars, history, budget>>

\* The compare-and-swap of mark_processed: only an unprocessed event is won.
WinsEvent_NoCas(e) == TRUE
WinsEvent(e) == events[e] = "pending"

\* A fresh JobId for each target.
FreshIds(ts) == {f \in [ts -> Unused] :
                    \A s, t \in ts : s # t => f[s] # f[t]}

EnqueueAll(e, ts) ==
    LET ids == CHOOSE f \in FreshIds(ts) : TRUE
    IN  jobs' = [j \in JobIds |->
                   IF \E t \in ts : ids[t] = j
                   THEN NewJob(e, CHOOSE t \in ts : ids[t] = j)
                   ELSE jobs[j]]

\* One transaction: claim the event and enqueue everything it implies,
\* or roll back because another dispatcher has it.
CommitFanOut(p) ==
    /\ fanout[p] # None
    /\ LET e == fanout[p].event
           ts == fanout[p].targets
       IN  \/ /\ WinsEvent(e)
              /\ FreshIds(ts) # {}
              /\ events' = [events EXCEPT ![e] = "processed"]
              /\ EnqueueAll(e, ts)
           \/ /\ ~WinsEvent(e)
              /\ UNCHANGED <<events, jobs>>
    /\ fanout' = [fanout EXCEPT ![p] = None]
    /\ UNCHANGED <<subscribed, proc, backlog, pollerVars, history, budget>>

\* A read or the transaction fails: the event stays for the next poll.
FanOutFails(p) ==
    /\ fanout[p] # None
    /\ fanout' = [fanout EXCEPT ![p] = None]
    /\ Spend("glitches")
    /\ UNCHANGED <<tables, proc, backlog, pollerVars, history>>

-----------------------------------------------------------------------------
(* Poller: claim, run, record *)

PollerIdle(p) == candidates[p] = {} /\ claimed[p] = {}

SelectDue(p) ==
    /\ proc[p] = "up"
    /\ PollerIdle(p)
    /\ \E b \in Batch(Due) :
         candidates' = [candidates EXCEPT ![p] =
                           {[job |-> j, attempts |-> jobs[j].attempts] : j \in b}]
    /\ UNCHANGED <<tables, proc, dispatcherVars, claimed, tasks, history, budget>>

\* UPDATE ... SET status = 'running' WHERE status = 'pending'.
WinsJob_NoCas(j) == jobs[j].status # "deleted"
WinsJob(j) == jobs[j].status = "pending"

ClaimRow(p, c) ==
    /\ c \in candidates[p]
    /\ candidates' = [candidates EXCEPT ![p] = @ \ {c}]
    /\ \/ /\ WinsJob(c.job)
          /\ jobs' = [jobs EXCEPT ![c.job].status = "running"]
          /\ claimed' = [claimed EXCEPT ![p] = @ \union {c}]
       \/ /\ ~WinsJob(c.job)
          /\ UNCHANGED <<jobs, claimed>>
    /\ UNCHANGED <<events, subscribed, proc, dispatcherVars, tasks, history, budget>>

\* claim_batch returns the error of one UPDATE; the rows it had already
\* claimed are returned to nobody.
ClaimFails(p) ==
    /\ candidates[p] # {}
    /\ candidates' = [candidates EXCEPT ![p] = {}]
    /\ claimed' = [claimed EXCEPT ![p] = {}]
    /\ Spend("faults")
    /\ UNCHANGED <<tables, proc, dispatcherVars, tasks, history>>

\* One permit per running task; the poller waits here for a free one.
SpawnTask(p, c) ==
    /\ candidates[p] = {}
    /\ c \in claimed[p]
    /\ Cardinality(tasks[p]) < MaxConcurrent
    /\ claimed' = [claimed EXCEPT ![p] = @ \ {c}]
    /\ tasks' = [tasks EXCEPT ![p] = @ \union
                    {[job |-> c.job, attempts |-> c.attempts, stage |-> "running"]}]
    /\ UNCHANGED <<tables, proc, dispatcherVars, candidates, history, budget>>

\* A handler ends with Ok - it may find nothing to do (a webhook made
\* inactive, no mailer, a notification already there) - or with Err, before
\* or after it has reached the outside world.
HandlerOutcomes == {"ok", "err"}

RunHandler(p, k) ==
    /\ k \in tasks[p]
    /\ k.stage = "running"
    /\ \E o \in HandlerOutcomes :
         tasks' = [tasks EXCEPT ![p] = (@ \ {k}) \union {[k EXCEPT !.stage = o]}]
    /\ runs' = [runs EXCEPT ![k.job] = @ + 1]
    /\ UNCHANGED <<tables, proc, dispatcherVars, candidates, claimed, budget>>

\* if next_attempts >= max_attempts: mark_dead, else mark_retry.
Exhausted_OffByOne(n) == n > MaxAttempts
Exhausted(n) == n >= MaxAttempts

\* mark_succeeded, mark_dead and mark_retry write the row by its id alone.
Recorded_StaysRunning(row, k) ==
    IF k.stage = "ok" THEN [row EXCEPT !.status = "succeeded"]
    ELSE IF Exhausted(k.attempts + 1)
    THEN [row EXCEPT !.status = "failed", !.attempts = k.attempts + 1]
    ELSE [row EXCEPT !.attempts = k.attempts + 1, !.due = FALSE]
Recorded(row, k) ==
    IF row.status = "deleted" THEN row
    ELSE IF k.stage = "ok" THEN [row EXCEPT !.status = "succeeded"]
    ELSE IF Exhausted(k.attempts + 1)
    THEN [row EXCEPT !.status = "failed", !.attempts = k.attempts + 1]
    ELSE [row EXCEPT !.status = "pending", !.attempts = k.attempts + 1, !.due = FALSE]

RecordResult(p, k) ==
    /\ k \in tasks[p]
    /\ k.stage # "running"
    /\ jobs' = [jobs EXCEPT ![k.job] = Recorded(@, k)]
    /\ tasks' = [tasks EXCEPT ![p] = @ \ {k}]
    /\ UNCHANGED <<events, subscribed, proc, dispatcherVars, candidates, claimed,
                   history, budget>>

\* The handler panics; or the write fails and its error is discarded
\* (let _ = ...).
RecordLost(p, k) ==
    /\ k \in tasks[p]
    /\ tasks' = [tasks EXCEPT ![p] = @ \ {k}]
    /\ Spend("faults")
    /\ UNCHANGED <<tables, proc, dispatcherVars, candidates, claimed, history>>

\* Time passes a retry's run_at.
Wake(j) ==
    /\ jobs[j].status = "pending"
    /\ ~jobs[j].due
    /\ jobs' = [jobs EXCEPT ![j].due = TRUE]
    /\ UNCHANGED <<events, subscribed, proc, dispatcherVars, pollerVars, history, budget>>

-----------------------------------------------------------------------------
(* Administrator *)

\* UPDATE ... WHERE status = 'failed'.
MayRequeue_Finished(j) == jobs[j].status \in {"failed", "succeeded"}
MayRequeue(j) == jobs[j].status = "failed"

Requeue(j) ==
    /\ MayRequeue(j)
    /\ jobs' = [jobs EXCEPT ![j].status = "pending", ![j].attempts = 0, ![j].due = TRUE]
    /\ runs' = [runs EXCEPT ![j] = 0]
    /\ Spend("requeues")
    /\ UNCHANGED <<events, subscribed, proc, dispatcherVars, pollerVars>>

\* DELETE ... WHERE status <> 'running'.
MayDelete(j) == jobs[j].status \notin {"unused", "deleted", "running"}

DeleteJob(j) ==
    /\ MayDelete(j)
    /\ jobs' = [jobs EXCEPT ![j].status = "deleted"]
    /\ UNCHANGED <<events, subscribed, proc, dispatcherVars, pollerVars, history, budget>>

-----------------------------------------------------------------------------
(* The process *)

\* SIGTERM cancels the token: no new batch is fetched or claimed.
Shutdown(p) ==
    /\ proc[p] = "up"
    /\ proc' = [proc EXCEPT ![p] = "draining"]
    /\ Spend("stops")
    /\ UNCHANGED <<tables, dispatcherVars, pollerVars, history>>

\* Dispatcher and poller have landed what they had: the process exits.
Drained(p) ==
    /\ proc[p] = "draining"
    /\ DispatcherIdle(p) /\ PollerIdle(p) /\ tasks[p] = {}
    /\ proc' = [proc EXCEPT ![p] = "down"]
    /\ UNCHANGED <<tables, dispatcherVars, pollerVars, history, budget>>

\* POLLER_DRAIN_GRACE is over: the JoinSet is dropped, its tasks aborted.
DrainGraceExpires(p) ==
    /\ proc[p] = "draining"
    /\ PollerIdle(p) /\ tasks[p] # {}
    /\ tasks' = [tasks EXCEPT ![p] = {}]
    /\ Spend("faults")
    /\ UNCHANGED <<tables, proc, dispatcherVars, candidates, claimed, history>>

\* The process dies, or SHUTDOWN_DRAIN_GRACE is over and main returns.
Crash(p) ==
    /\ proc[p] # "down"
    /\ proc' = [proc EXCEPT ![p] = "down"]
    /\ backlog' = [backlog EXCEPT ![p] = {}]
    /\ fanout' = [fanout EXCEPT ![p] = None]
    /\ candidates' = [candidates EXCEPT ![p] = {}]
    /\ claimed' = [claimed EXCEPT ![p] = {}]
    /\ tasks' = [tasks EXCEPT ![p] = {}]
    /\ Spend("faults")
    /\ UNCHANGED <<tables, history>>

\* Startup reads nothing back: it only spawns the loops.
Restart(p) ==
    /\ proc[p] = "down"
    /\ proc' = [proc EXCEPT ![p] = "up"]
    /\ UNCHANGED <<tables, dispatcherVars, pollerVars, history, budget>>

-----------------------------------------------------------------------------
Dispatch(p) ==
    \/ FetchUnprocessed(p)
    \/ \E e \in Events : ReadFanOut(p, e)
    \/ CommitFanOut(p)

Poll(p) ==
    \/ SelectDue(p)
    \/ \E c \in candidates[p] : ClaimRow(p, c)
    \/ \E c \in claimed[p] : SpawnTask(p, c)

Work(p) == \E k \in tasks[p] : RunHandler(p, k) \/ RecordResult(p, k)

Fault(p) ==
    \/ FanOutFails(p)
    \/ ClaimFails(p)
    \/ \E k \in tasks[p] : RecordLost(p, k)
    \/ DrainGraceExpires(p)
    \/ Crash(p)

Next ==
    \/ \E e \in Events : AppendEvent(e) \/ \E j \in JobIds : RecordPush(e, j)
    \/ \E t \in Targets : ToggleSubscription(t)
    \/ \E p \in Procs : \/ Dispatch(p) \/ Poll(p) \/ Work(p) \/ Fault(p)
                        \/ Shutdown(p) \/ Drained(p) \/ Restart(p)
    \/ \E j \in JobIds : Wake(j) \/ Requeue(j) \/ DeleteJob(j)

Spec == Init /\ [][Next]_vars

\* The loops are polled by tokio and time passes: each step of theirs that
\* stays possible is taken, and a stopped process is started again.  Nothing
\* is assumed of services, users, administrators or faults.
Fairness ==
    /\ \A p \in Procs : /\ WF_vars(Dispatch(p))
                        /\ WF_vars(Poll(p))
                        /\ WF_vars(Work(p))
                        /\ WF_vars(Drained(p))
                        /\ WF_vars(Restart(p))
    /\ \A j \in JobIds : WF_vars(Wake(j))

FairSpec == Spec /\ Fairness

-----------------------------------------------------------------------------
(* Properties *)

Holds(p, j) == \E c \in claimed[p] \union tasks[p] : c.job = j

\* claim_batch: "a job this call returns will never be handed to a second
\* caller, even if two pollers ran concurrently" - nor twice to one.  And a
\* job in somebody's hands is still marked running, so nobody can requeue or
\* delete it underneath.
ExclusiveClaim ==
    /\ \A p, q \in Procs, j \in JobIds : Holds(p, j) /\ Holds(q, j) => p = q
    /\ \A p \in Procs : \A c, d \in claimed[p] \union tasks[p] : c.job = d.job => c = d
    /\ \A p \in Procs, j \in JobIds : Holds(p, j) => jobs[j].status = "running"

\* process_one's transaction: no job exists for an event that is still
\* unprocessed, no target gets the same event twice however many dispatchers
\* fetched it, and no standing subscriber of a processed event is left out.
FanOutExactlyOnce ==
    /\ \A i, j \in JobIds :
         /\ i # j
         /\ jobs[i].event # None
         /\ jobs[i].event = jobs[j].event
         => jobs[i].target # jobs[j].target
    /\ \A j \in JobIds : jobs[j].event # None => events[jobs[j].event] = "processed"
    /\ \A e \in Events, t \in Permanent :
         events[e] = "processed" =>
            \E j \in JobIds : jobs[j].event = e /\ jobs[j].target = t

\* run_one's retry budget: a handler runs at most max_attempts times before
\* an administrator intervenes, a dead letter has had every one of those
\* runs, and a job waiting for a retry has one left.
RetryBudget ==
    \A j \in JobIds :
        /\ runs[j] <= MaxAttempts
        /\ jobs[j].status = "failed" => runs[j] = MaxAttempts
        /\ jobs[j].status = "pending" => runs[j] = jobs[j].attempts /\ runs[j] < MaxAttempts

\* What the outbox and the queue promise together, see Outbox.
RowFor(e, t) == {j \in JobIds : jobs[j].event = e /\ jobs[j].target = t}

DutyOf(j) ==
    CASE jobs[j].status \in {"pending", "running"} -> "owed"
      [] jobs[j].status = "succeeded" -> "done"
      [] jobs[j].status = "failed" -> "dead"
      [] OTHER -> "dropped"

OB == INSTANCE Outbox WITH
    published <- {e \in Events : events[e] # "none"},
    fanned <- {e \in Events : events[e] = "processed"},
    duty <- [e \in Events |-> [t \in Targets |->
                IF RowFor(e, t) = {} THEN "none"
                ELSE DutyOf(CHOOSE j \in RowFor(e, t) : TRUE)]]

\* Claims, attempts, retries, shutdowns and crashes are all invisible to a
\* service that appended an event: what it sees is Outbox.
ImplementsOutbox == OB!OutboxSpec

\* Every committed event is fanned out, whatever its first fan-outs met.
EventsDispatched == \A e \in Events : events[e] = "pending" ~> events[e] = "processed"

\* A queued job comes to an end: done, dead-lettered or deleted.  Holds only
\* while no process dies with the job in its hands and no result is lost.
JobsSettle ==
    \A j \in JobIds : jobs[j].status \in {"pending", "running"} ~>
                        jobs[j].status \in {"succeeded", "failed", "deleted"}
=============================================================================
