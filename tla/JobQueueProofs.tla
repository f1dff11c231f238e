--------------------------- MODULE JobQueueProofs ---------------------------
(***************************************************************************)
(* Theorems about JobQueue, for any number of processes, events, targets   *)
(* and rows, any batch and pool size, and any number of faults.            *)
(***************************************************************************)
EXTENDS JobQueue, TLAPS

USE JobQueueAssumption

\* A non-empty set of injections has the one CHOOSE picks.
LEMMA FreshIdsChosen ==
    ASSUME NEW ts, FreshIds(ts) # {}
    PROVE  LET ids == CHOOSE f \in FreshIds(ts) : TRUE
           IN  /\ ids \in [ts -> Unused]
               /\ \A s, t \in ts : s # t => ids[s] # ids[t]
  <1> DEFINE ids == CHOOSE f \in FreshIds(ts) : TRUE
  <1>1. ids \in FreshIds(ts)
    OBVIOUS
  <1> QED
    BY <1>1 DEF FreshIds

\* What the enqueues of one fan-out do: a row of its own, unused until now,
\* becomes the pending job of each target; every other row stays as it is.
LEMMA EnqueueAllEffect ==
    ASSUME NEW e, NEW ts, FreshIds(ts) # {}, EnqueueAll(e, ts)
    PROVE  \E ids \in [ts -> JobIds] :
              /\ \A s, t \in ts : ids[s] = ids[t] => s = t
              /\ \A t \in ts : /\ jobs[ids[t]].status = "unused"
                               /\ jobs'[ids[t]] = NewJob(e, t)
              /\ jobs' = [j \in JobIds |-> jobs'[j]]
              /\ \A j \in JobIds : (\A t \in ts : ids[t] # j) => jobs'[j] = jobs[j]
  <1> DEFINE ids == CHOOSE f \in FreshIds(ts) : TRUE
  <1>1. /\ ids \in [ts -> Unused]
        /\ \A s, t \in ts : s # t => ids[s] # ids[t]
    BY FreshIdsChosen
  <1> HIDE DEF ids
  <1>2. jobs' = [j \in JobIds |-> IF \E t \in ts : ids[t] = j
                                  THEN NewJob(e, CHOOSE t \in ts : ids[t] = j)
                                  ELSE jobs[j]]
    BY DEF EnqueueAll, ids
  <1>3. \A t \in ts : ids[t] \in JobIds /\ jobs[ids[t]].status = "unused"
    BY <1>1 DEF Unused
  <1>4. ASSUME NEW t \in ts
        PROVE  jobs'[ids[t]] = NewJob(e, t)
    <2>1. (CHOOSE s \in ts : ids[s] = ids[t]) = t
      BY <1>1
    <2> QED
      BY <1>2, <1>3, <2>1
  <1>5. ids \in [ts -> JobIds]
    BY <1>1, <1>3
  <1>6. ASSUME NEW j \in JobIds, \A t \in ts : ids[t] # j
        PROVE  jobs'[j] = jobs[j]
    BY <1>2, <1>6
  <1>7. jobs' = [j \in JobIds |-> jobs'[j]]
    BY <1>2
  <1> QED
    BY <1>1, <1>3, <1>4, <1>5, <1>6, <1>7

-----------------------------------------------------------------------------
(* Types *)

LEMMA NewJobType ==
    ASSUME NEW e \in Events \union {None}, NEW t \in Targets \union {None}
    PROVE  NewJob(e, t) \in Job
  BY DEF NewJob, Job, JobStatus

\* The columns an UPDATE sets keep a row a row.
LEMMA RowType ==
    ASSUME NEW row \in Job, NEW s \in JobStatus, NEW n \in Nat, NEW d \in BOOLEAN
    PROVE  /\ [row EXCEPT !.status = s] \in Job
           /\ [row EXCEPT !.due = d] \in Job
           /\ [row EXCEPT !.status = s, !.attempts = n] \in Job
           /\ [row EXCEPT !.status = s, !.attempts = n, !.due = d] \in Job
  BY DEF Job

LEMMA SpendType ==
    ASSUME TypeOK, NEW b \in {"faults", "glitches", "stops", "requeues"}, Spend(b)
    PROVE  budget' \in Budget
  BY DEF TypeOK, Budget, Spend

\* TypeOK needs no strengthening: each action of services, dispatcher,
\* poller, administrator and process keeps every variable in its type.
THEOREM TypeCorrect == Spec => []TypeOK
  <1>1. Init => TypeOK
    BY DEF Init, TypeOK, EventState, Job, JobStatus, Budget
  <1>2. TypeOK /\ [Next]_vars => TypeOK'
    <2> SUFFICES ASSUME TypeOK, [Next]_vars
                 PROVE  TypeOK'
      OBVIOUS
    <2> USE DEF tables, dispatcherVars, pollerVars, history
    <2>1. ASSUME NEW e \in Events, AppendEvent(e)
          PROVE  TypeOK'
      BY <2>1 DEF AppendEvent, TypeOK, EventState
    <2>2. ASSUME NEW e \in Events, NEW j \in JobIds, RecordPush(e, j)
          PROVE  TypeOK'
      <3>1. jobs' \in [JobIds -> Job]
        BY <2>2, NewJobType DEF RecordPush, TypeOK
      <3> QED
        BY <2>2, <3>1 DEF RecordPush, TypeOK, EventState
    <2>3. ASSUME NEW t \in Targets, ToggleSubscription(t)
          PROVE  TypeOK'
      BY <2>3 DEF ToggleSubscription, TypeOK
    <2>4. ASSUME NEW p \in Procs, FetchUnprocessed(p)
          PROVE  TypeOK'
      <3>1. \A b \in Batch(PendingEvents) : b \in SUBSET Events
        BY DEF Batch, PendingEvents
      <3> QED
        BY <2>4, <3>1 DEF FetchUnprocessed, TypeOK
    <2>5. ASSUME NEW p \in Procs, NEW e \in Events, ReadFanOut(p, e)
          PROVE  TypeOK'
      BY <2>5 DEF ReadFanOut, TypeOK, FanOutRead
    <2>6. ASSUME NEW p \in Procs, CommitFanOut(p)
          PROVE  TypeOK'
      <3>1. fanout[p].event \in Events /\ fanout[p].targets \subseteq Targets
        BY <2>6 DEF CommitFanOut, TypeOK, FanOutRead
      <3> DEFINE e == fanout[p].event
                 ts == fanout[p].targets
      <3>2. ASSUME FreshIds(ts) # {}, EnqueueAll(e, ts)
            PROVE  jobs' \in [JobIds -> Job]
        <4>1. PICK ids \in [ts -> JobIds] :
                 /\ \A t \in ts : jobs'[ids[t]] = NewJob(e, t)
                 /\ jobs' = [j \in JobIds |-> jobs'[j]]
                 /\ \A j \in JobIds : (\A t \in ts : ids[t] # j) => jobs'[j] = jobs[j]
          BY <3>2, EnqueueAllEffect
        <4>2. \A t \in ts : NewJob(e, t) \in Job
          BY <3>1, NewJobType
        <4>3. \A j \in JobIds : jobs'[j] \in Job
          BY <4>1, <4>2 DEF TypeOK
        <4> HIDE DEF e, ts
        <4> QED
          BY <4>1, <4>3
      <3>3. events' \in [Events -> EventState] /\ jobs' \in [JobIds -> Job]
        BY <2>6, <3>1, <3>2 DEF CommitFanOut, TypeOK, EventState
      <3> QED
        BY <2>6, <3>3 DEF CommitFanOut, TypeOK
    <2>7. ASSUME NEW p \in Procs, FanOutFails(p)
          PROVE  TypeOK'
      BY <2>7, SpendType DEF FanOutFails, TypeOK
    <2>8. ASSUME NEW p \in Procs, SelectDue(p)
          PROVE  TypeOK'
      <3>1. PICK b \in Batch(Due) :
               candidates' = [candidates EXCEPT ![p] =
                                {[job |-> j, attempts |-> jobs[j].attempts] : j \in b}]
        BY <2>8 DEF SelectDue
      <3>2. b \subseteq JobIds
        BY DEF Batch, Due
      <3>3. {[job |-> j, attempts |-> jobs[j].attempts] : j \in b} \in SUBSET Claim
        BY <3>2 DEF TypeOK, Job, Claim
      <3> QED
        BY <2>8, <3>1, <3>3 DEF SelectDue, TypeOK
    <2>9. ASSUME NEW p \in Procs, NEW c \in candidates[p], ClaimRow(p, c)
          PROVE  TypeOK'
      <3>1. c \in Claim
        BY DEF TypeOK
      <3>2. jobs[c.job] \in Job /\ "running" \in JobStatus
        BY <3>1 DEF TypeOK, Claim, JobStatus
      <3>3. [jobs[c.job] EXCEPT !.status = "running"] \in Job
        BY <3>2, RowType
      <3>4. jobs' \in [JobIds -> Job] /\ claimed' \in [Procs -> SUBSET Claim]
        BY <2>9, <3>1, <3>3 DEF ClaimRow, TypeOK
      <3> QED
        BY <2>9, <3>4 DEF ClaimRow, TypeOK
    <2>10. ASSUME NEW p \in Procs, ClaimFails(p)
           PROVE  TypeOK'
      BY <2>10, SpendType DEF ClaimFails, TypeOK
    <2>11. ASSUME NEW p \in Procs, NEW c \in claimed[p], SpawnTask(p, c)
           PROVE  TypeOK'
      BY <2>11 DEF SpawnTask, TypeOK, Claim, Task
    <2>12. ASSUME NEW p \in Procs, NEW k \in tasks[p], RunHandler(p, k)
           PROVE  TypeOK'
      <3>1. k \in Task
        BY DEF TypeOK
      <3>2. PICK o \in HandlerOutcomes :
              tasks' = [tasks EXCEPT ![p] = (@ \ {k}) \union {[k EXCEPT !.stage = o]}]
        BY <2>12 DEF RunHandler
      <3>3. o \in {"ok", "err"}
        BY <3>2 DEF HandlerOutcomes
      <3>4. tasks' \in [Procs -> SUBSET Task]
        BY <3>1, <3>2, <3>3 DEF TypeOK, Task
      <3>5. runs' \in [JobIds -> Nat]
        BY <2>12, <3>1 DEF RunHandler, TypeOK, Task
      <3> QED
        BY <2>12, <3>4, <3>5 DEF RunHandler, TypeOK
    <2>13. ASSUME NEW p \in Procs, NEW k \in tasks[p], RecordResult(p, k)
           PROVE  TypeOK'
      <3>1. k \in Task
        BY DEF TypeOK
      <3>2. jobs[k.job] \in Job => Recorded(jobs[k.job], k) \in Job
        <4>1. {"succeeded", "failed", "pending"} \subseteq JobStatus
              /\ k.attempts + 1 \in Nat /\ FALSE \in BOOLEAN
          BY <3>1 DEF JobStatus, Task
        <4> QED
          BY <4>1, RowType DEF Recorded
      <3>3. jobs' \in [JobIds -> Job]
        BY <2>13, <3>1, <3>2 DEF RecordResult, TypeOK, Task
      <3> QED
        BY <2>13, <3>3 DEF RecordResult, TypeOK
    <2>14. ASSUME NEW p \in Procs, NEW k \in tasks[p], RecordLost(p, k)
           PROVE  TypeOK'
      BY <2>14, SpendType DEF RecordLost, TypeOK
    <2>15. ASSUME NEW j \in JobIds, Wake(j) \/ DeleteJob(j)
           PROVE  TypeOK'
      <3>1. jobs[j] \in Job /\ "deleted" \in JobStatus /\ TRUE \in BOOLEAN
        BY DEF TypeOK, JobStatus
      <3>2. /\ [jobs[j] EXCEPT !.due = TRUE] \in Job
            /\ [jobs[j] EXCEPT !.status = "deleted"] \in Job
        BY <3>1, RowType
      <3>3. jobs' \in [JobIds -> Job]
        BY <2>15, <3>2 DEF Wake, DeleteJob, TypeOK
      <3> QED
        BY <2>15, <3>3 DEF Wake, DeleteJob, TypeOK
    <2>16. ASSUME NEW j \in JobIds, Requeue(j)
           PROVE  TypeOK'
      <3>1. jobs' \in [JobIds -> Job]
        <4>1. jobs[j] \in Job /\ "pending" \in JobStatus /\ TRUE \in BOOLEAN /\ 0 \in Nat
          BY DEF TypeOK, JobStatus
        <4>2. [jobs[j] EXCEPT !.status = "pending", !.attempts = 0, !.due = TRUE] \in Job
          BY <4>1, RowType
        <4> QED
          BY <2>16, <4>2 DEF Requeue, TypeOK
      <3> QED
        BY <2>16, <3>1, SpendType DEF Requeue, TypeOK
    <2>17. ASSUME NEW p \in Procs, Shutdown(p)
           PROVE  TypeOK'
      BY <2>17, SpendType DEF Shutdown, TypeOK
    <2>18. ASSUME NEW p \in Procs, Drained(p) \/ Restart(p)
           PROVE  TypeOK'
      BY <2>18 DEF Drained, Restart, TypeOK
    <2>19. ASSUME NEW p \in Procs, DrainGraceExpires(p)
           PROVE  TypeOK'
      BY <2>19, SpendType DEF DrainGraceExpires, TypeOK
    <2>20. ASSUME NEW p \in Procs, Crash(p)
           PROVE  TypeOK'
      BY <2>20, SpendType DEF Crash, TypeOK
    <2>21. CASE UNCHANGED vars
      BY <2>21 DEF vars, TypeOK
    <2> QED
      BY <2>1, <2>2, <2>3, <2>4, <2>5, <2>6, <2>7, <2>8, <2>9, <2>10, <2>11, <2>12,
         <2>13, <2>14, <2>15, <2>16, <2>17, <2>18, <2>19, <2>20, <2>21
         DEF Next, Dispatch, Poll, Work, Fault
  <1> QED
    BY <1>1, <1>2, PTL DEF Spec

-----------------------------------------------------------------------------
(* Exclusive claims *)

\* Nothing is added to anybody's hands and no running row changes status.
LEMMA HandsShrink ==
    ASSUME ExclusiveClaim,
           \A p \in Procs : claimed'[p] \subseteq claimed[p] /\ tasks'[p] \subseteq tasks[p],
           \A j \in JobIds : jobs[j].status = "running" => jobs'[j].status = "running"
    PROVE  ExclusiveClaim'
  BY DEF ExclusiveClaim, Holds

\* A claimed row and a running task are never the same record.
LEMMA ClaimIsNoTask ==
    ASSUME TypeOK, NEW p \in Procs, NEW c \in claimed[p], NEW k \in tasks[p]
    PROVE  c # k
  <1>1. c \in Claim /\ k \in Task
    BY DEF TypeOK
  <1>2. DOMAIN c = {"job", "attempts"} /\ DOMAIN k = {"job", "attempts", "stage"}
    BY <1>1 DEF Claim, Task
  <1>3. "stage" \notin {"job", "attempts"}
    OBVIOUS
  <1> QED
    BY <1>2, <1>3

\* Rows are created from unused ones only, so running rows stay.
LEMMA EnqueueKeepsRunning ==
    ASSUME NEW e, NEW ts, FreshIds(ts) # {}, EnqueueAll(e, ts)
    PROVE  \A j \in JobIds : jobs[j].status = "running" => jobs'[j].status = "running"
  <1>1. PICK ids \in [ts -> JobIds] :
           /\ \A t \in ts : jobs[ids[t]].status = "unused"
           /\ \A j \in JobIds : (\A t \in ts : ids[t] # j) => jobs'[j] = jobs[j]
    BY EnqueueAllEffect
  <1> QED
    BY <1>1

\* ExclusiveClaim is inductive: a row is taken only while it is pending, what
\* anybody holds is running, and what is held changes status only by the
\* hand of its holder.
THEOREM ExclusiveClaims == Spec => []ExclusiveClaim
  <1>1. Init => ExclusiveClaim
    BY DEF Init, ExclusiveClaim, Holds
  <1>2. TypeOK /\ ExclusiveClaim /\ [Next]_vars => ExclusiveClaim'
    <2> SUFFICES ASSUME TypeOK, ExclusiveClaim, [Next]_vars
                 PROVE  ExclusiveClaim'
      OBVIOUS
    <2> USE DEF tables, dispatcherVars, pollerVars, history
    <2>1. ASSUME NEW e \in Events, AppendEvent(e)
          PROVE  ExclusiveClaim'
      BY <2>1, HandsShrink DEF AppendEvent
    <2>2. ASSUME NEW e \in Events, NEW j \in JobIds, RecordPush(e, j)
          PROVE  ExclusiveClaim'
      BY <2>2, HandsShrink DEF RecordPush, TypeOK
    <2>3. ASSUME NEW t \in Targets, ToggleSubscription(t)
          PROVE  ExclusiveClaim'
      BY <2>3, HandsShrink DEF ToggleSubscription
    <2>4. ASSUME NEW p \in Procs, FetchUnprocessed(p) \/ \E e \in Events : ReadFanOut(p, e)
          PROVE  ExclusiveClaim'
      BY <2>4, HandsShrink DEF FetchUnprocessed, ReadFanOut
    <2>5. ASSUME NEW p \in Procs, CommitFanOut(p)
          PROVE  ExclusiveClaim'
      <3>1. \A j \in JobIds : jobs[j].status = "running" => jobs'[j].status = "running"
        BY <2>5, EnqueueKeepsRunning DEF CommitFanOut
      <3> QED
        BY <2>5, <3>1, HandsShrink DEF CommitFanOut
    <2>6. ASSUME NEW p \in Procs, FanOutFails(p) \/ SelectDue(p)
          PROVE  ExclusiveClaim'
      BY <2>6, HandsShrink DEF FanOutFails, SelectDue
    <2>7. ASSUME NEW p \in Procs, NEW c \in candidates[p], ClaimRow(p, c)
          PROVE  ExclusiveClaim'
      <3>1. c.job \in JobIds
        BY DEF TypeOK, Claim
      <3>2. CASE ~WinsJob(c.job)
        BY <2>7, <3>2, HandsShrink DEF ClaimRow
      <3>3. CASE WinsJob(c.job)
        <4>1. /\ jobs[c.job].status = "pending"
              /\ jobs' = [jobs EXCEPT ![c.job].status = "running"]
              /\ claimed' = [claimed EXCEPT ![p] = @ \union {c}]
              /\ tasks' = tasks
          BY <2>7, <3>3 DEF ClaimRow, WinsJob
        <4>2. \A q \in Procs : ~Holds(q, c.job)
          BY <3>1, <4>1 DEF ExclusiveClaim
        <4>3. \A q \in Procs : claimed'[q] = IF q = p THEN claimed[q] \union {c} ELSE claimed[q]
          BY <4>1 DEF TypeOK
        <4>4. \A q \in Procs, j \in JobIds :
                 Holds(q, j)' <=> Holds(q, j) \/ (q = p /\ j = c.job)
          <5>1. \A q \in Procs : claimed'[q] \union tasks'[q]
                  = (claimed[q] \union tasks[q]) \union (IF q = p THEN {c} ELSE {})
            BY <4>1, <4>3
          <5> QED
            BY <5>1 DEF Holds
        <4>5. \A q \in Procs, j \in JobIds : Holds(q, j)' => jobs'[j].status = "running"
          BY <3>1, <4>1, <4>4 DEF ExclusiveClaim, TypeOK
        <4>6. \A q, r \in Procs, j \in JobIds : Holds(q, j)' /\ Holds(r, j)' => q = r
          BY <4>2, <4>4 DEF ExclusiveClaim
        <4>7. \A q \in Procs : \A b, d \in claimed'[q] \union tasks'[q] :
                 b.job = d.job => b = d
          <5> SUFFICES ASSUME NEW q \in Procs, NEW b \in claimed'[q] \union tasks'[q],
                              NEW d \in claimed'[q] \union tasks'[q], b.job = d.job
                       PROVE  b = d
            OBVIOUS
          <5>1. b = c \/ b \in claimed[q] \union tasks[q]
            BY <4>1, <4>3
          <5>2. d = c \/ d \in claimed[q] \union tasks[q]
            BY <4>1, <4>3
          <5>3. \A a \in claimed[q] \union tasks[q] : a.job # c.job
            BY <4>2 DEF Holds
          <5> QED
            BY <5>1, <5>2, <5>3 DEF ExclusiveClaim
        <4> QED
          BY <4>5, <4>6, <4>7 DEF ExclusiveClaim
      <3> QED
        BY <3>2, <3>3
    <2>8. ASSUME NEW p \in Procs, ClaimFails(p) \/ DrainGraceExpires(p) \/ Crash(p)
          PROVE  ExclusiveClaim'
      BY <2>8, HandsShrink DEF ClaimFails, DrainGraceExpires, Crash, TypeOK
    <2>9. ASSUME NEW p \in Procs, NEW c \in claimed[p], SpawnTask(p, c)
          PROVE  ExclusiveClaim'
      <3> DEFINE k == [job |-> c.job, attempts |-> c.attempts, stage |-> "running"]
      <3>1. /\ claimed' = [claimed EXCEPT ![p] = @ \ {c}]
            /\ tasks' = [tasks EXCEPT ![p] = @ \union {k}]
            /\ jobs' = jobs
        BY <2>9 DEF SpawnTask
      <3>2. k.job = c.job
        OBVIOUS
      <3> HIDE DEF k
      <3>3. \A q \in Procs :
               /\ claimed'[q] = IF q = p THEN claimed[q] \ {c} ELSE claimed[q]
               /\ tasks'[q] = IF q = p THEN tasks[q] \union {k} ELSE tasks[q]
        BY <3>1 DEF TypeOK
      <3>4. \A q \in Procs, j \in JobIds : Holds(q, j)' => Holds(q, j)
        BY <3>2, <3>3 DEF Holds
      <3>5. \A q \in Procs : \A b, d \in claimed'[q] \union tasks'[q] :
               b.job = d.job => b = d
        <4> SUFFICES ASSUME NEW q \in Procs, NEW b \in claimed'[q] \union tasks'[q],
                            NEW d \in claimed'[q] \union tasks'[q], b.job = d.job
                     PROVE  b = d
          OBVIOUS
        <4>1. CASE q # p
          BY <4>1, <3>3 DEF ExclusiveClaim
        <4>2. CASE q = p
          <5>1. \A a \in (claimed[p] \union tasks[p]) \ {c} : a.job # c.job
            BY DEF ExclusiveClaim
          <5>2. c \notin tasks[p]
            BY ClaimIsNoTask
          <5>3. claimed'[p] \union tasks'[p] = ((claimed[p] \union tasks[p]) \ {c}) \union {k}
            BY <3>3, <5>2
          <5>4. {b, d} \subseteq ((claimed[p] \union tasks[p]) \ {c}) \union {k}
            BY <4>2, <5>3
          <5> QED
            BY <3>2, <5>1, <5>4 DEF ExclusiveClaim
        <4> QED
          BY <4>1, <4>2
      <3> QED
        BY <3>1, <3>4, <3>5 DEF ExclusiveClaim
    <2>10. ASSUME NEW p \in Procs, NEW k \in tasks[p], RunHandler(p, k)
           PROVE  ExclusiveClaim'
      <3>1. PICK o \in HandlerOutcomes :
              tasks' = [tasks EXCEPT ![p] = (@ \ {k}) \union {[k EXCEPT !.stage = o]}]
        BY <2>10 DEF RunHandler
      <3> DEFINE m == [k EXCEPT !.stage = o]
      <3>2. m.job = k.job
        BY DEF TypeOK, Task
      <3> HIDE DEF m
      <3>3. \A q \in Procs :
               tasks'[q] = IF q = p THEN (tasks[q] \ {k}) \union {m} ELSE tasks[q]
        BY <3>1 DEF TypeOK, m
      <3>4. claimed' = claimed /\ jobs' = jobs
        BY <2>10 DEF RunHandler
      <3>5. \A q \in Procs, j \in JobIds : Holds(q, j)' => Holds(q, j)
        BY <3>2, <3>3, <3>4 DEF Holds
      <3>6. \A q \in Procs : \A b, d \in claimed'[q] \union tasks'[q] :
               b.job = d.job => b = d
        <4> SUFFICES ASSUME NEW q \in Procs, NEW b \in claimed'[q] \union tasks'[q],
                            NEW d \in claimed'[q] \union tasks'[q], b.job = d.job
                     PROVE  b = d
          OBVIOUS
        <4>1. CASE q # p
          BY <4>1, <3>3, <3>4 DEF ExclusiveClaim
        <4>2. CASE q = p
          <5>1. \A a \in (claimed[p] \union tasks[p]) \ {k} : a.job # k.job
            BY DEF ExclusiveClaim
          <5>2. k \notin claimed[p]
            BY ClaimIsNoTask
          <5>3. claimed'[p] \union tasks'[p] = ((claimed[p] \union tasks[p]) \ {k}) \union {m}
            BY <3>3, <3>4, <5>2
          <5>4. {b, d} \subseteq ((claimed[p] \union tasks[p]) \ {k}) \union {m}
            BY <4>2, <5>3
          <5> QED
            BY <3>2, <5>1, <5>4 DEF ExclusiveClaim
        <4> QED
          BY <4>1, <4>2
      <3> QED
        BY <3>4, <3>5, <3>6 DEF ExclusiveClaim
    <2>11. ASSUME NEW p \in Procs, NEW k \in tasks[p], RecordResult(p, k)
           PROVE  ExclusiveClaim'
      <3>1. /\ jobs' = [jobs EXCEPT ![k.job] = Recorded(@, k)]
            /\ tasks' = [tasks EXCEPT ![p] = @ \ {k}]
            /\ claimed' = claimed
        BY <2>11 DEF RecordResult
      <3>2. k.job \in JobIds /\ k \notin claimed[p]
        <4>1. k \in Task
          BY DEF TypeOK
        <4> QED
          BY <4>1, ClaimIsNoTask DEF Task
      <3>3. \A q \in Procs : tasks'[q] = IF q = p THEN tasks[q] \ {k} ELSE tasks[q]
        BY <3>1 DEF TypeOK
      <3>4. Holds(p, k.job)
        BY DEF Holds
      <3>5. \A q \in Procs : ~Holds(q, k.job)'
        <4> SUFFICES ASSUME NEW q \in Procs, NEW c \in claimed'[q] \union tasks'[q],
                            c.job = k.job
                     PROVE  FALSE
          BY DEF Holds
        <4>1. c \in claimed[q] \union tasks[q] /\ (q = p => c # k)
          BY <3>1, <3>2, <3>3
        <4>2. q = p
          BY <3>2, <3>4, <4>1 DEF ExclusiveClaim, Holds
        <4> QED
          BY <4>1, <4>2 DEF ExclusiveClaim
      <3>6. \A q \in Procs, j \in JobIds : Holds(q, j)' => Holds(q, j) /\ j # k.job
        BY <3>1, <3>3, <3>5 DEF Holds
      <3>7. \A j \in JobIds : j # k.job => jobs'[j] = jobs[j]
        BY <3>1 DEF TypeOK
      <3> QED
        BY <3>1, <3>3, <3>6, <3>7 DEF ExclusiveClaim
    <2>12. ASSUME NEW p \in Procs, NEW k \in tasks[p], RecordLost(p, k)
           PROVE  ExclusiveClaim'
      BY <2>12, HandsShrink DEF RecordLost, TypeOK
    <2>13. ASSUME NEW j \in JobIds, Wake(j) \/ Requeue(j) \/ DeleteJob(j)
           PROVE  ExclusiveClaim'
      <3>1. \A i \in JobIds : jobs[i].status = "running" => jobs'[i].status = "running"
        BY <2>13 DEF Wake, Requeue, DeleteJob, MayRequeue, MayDelete, TypeOK, Job
      <3> QED
        BY <2>13, <3>1, HandsShrink DEF Wake, Requeue, DeleteJob
    <2>14. ASSUME NEW p \in Procs, Shutdown(p) \/ Drained(p) \/ Restart(p)
           PROVE  ExclusiveClaim'
      BY <2>14, HandsShrink DEF Shutdown, Drained, Restart
    <2>15. CASE UNCHANGED vars
      BY <2>15, HandsShrink DEF vars
    <2> QED
      BY <2>1, <2>2, <2>3, <2>4, <2>5, <2>6, <2>7, <2>8, <2>9, <2>10, <2>11, <2>12,
         <2>13, <2>14, <2>15 DEF Next, Dispatch, Poll, Work, Fault
  <1> QED
    BY <1>1, <1>2, TypeCorrect, PTL DEF Spec

-----------------------------------------------------------------------------
(* Fan-out *)

\* FanOutExactlyOnce is not inductive: a commit relies on what was read for
\* it, and on a row nobody has used belonging to no event.
FanOutInv ==
    /\ FanOutExactlyOnce
    /\ \A j \in JobIds : jobs[j].status = "unused" => jobs[j].event = None
    /\ Permanent \subseteq subscribed
    /\ \A p \in Procs : fanout[p] # None => Permanent \subseteq fanout[p].targets

\* A step keeps it that fans nothing out: rows keep their event and target,
\* no event becomes processed, and no dispatcher takes an event in hand.
LEMMA NothingFannedOut ==
    ASSUME FanOutInv,
           \A j \in JobIds :
              /\ jobs'[j].event = jobs[j].event
              /\ jobs[j].event # None => jobs'[j].target = jobs[j].target
              /\ jobs'[j].status = "unused" => jobs[j].status = "unused",
           \A e \in Events : events'[e] = "processed" <=> events[e] = "processed",
           TypeOK,
           Permanent \subseteq subscribed',
           \A p \in Procs : fanout'[p] = fanout[p] \/ fanout'[p] = None
    PROVE  FanOutInv'
  <1>1. \A j \in JobIds : jobs[j].event # None => jobs[j].event \in Events
    BY DEF TypeOK, Job
  <1>2. FanOutExactlyOnce'
    BY <1>1 DEF FanOutInv, FanOutExactlyOnce
  <1> QED
    BY <1>2 DEF FanOutInv

\* Fanning out a pending event keeps it: no row belongs to the event yet, and
\* each target read for it gets one.
LEMMA FannedOutOnce ==
    ASSUME TypeOK, FanOutInv, NEW e \in Events, NEW ts \in SUBSET Targets,
           events[e] = "pending", Permanent \subseteq ts,
           FreshIds(ts) # {}, EnqueueAll(e, ts),
           events' = [events EXCEPT ![e] = "processed"]
    PROVE  /\ FanOutExactlyOnce'
           /\ \A j \in JobIds : jobs'[j].status = "unused" => jobs'[j].event = None
  <1>1. PICK ids \in [ts -> JobIds] :
           /\ \A s, t \in ts : ids[s] = ids[t] => s = t
           /\ \A t \in ts : /\ jobs[ids[t]].status = "unused"
                            /\ jobs'[ids[t]] = NewJob(e, t)
           /\ \A j \in JobIds : (\A t \in ts : ids[t] # j) => jobs'[j] = jobs[j]
    BY EnqueueAllEffect
  <1>2. \A j \in JobIds : jobs[j].event # e
    BY DEF FanOutInv, FanOutExactlyOnce
  <1>3. \A t \in ts : /\ jobs'[ids[t]].event = e
                      /\ jobs'[ids[t]].target = t
                      /\ jobs'[ids[t]].status = "pending"
    <2>1. \A t : /\ NewJob(e, t).event = e
                 /\ NewJob(e, t).target = t
                 /\ NewJob(e, t).status = "pending"
      BY DEF NewJob
    <2> QED
      BY <1>1, <2>1
  <1>4. \A j \in JobIds : jobs[j].event # None => jobs'[j] = jobs[j]
    BY <1>1 DEF FanOutInv
  <1>5. \A j \in JobIds : (\E t \in ts : ids[t] = j) \/ jobs'[j] = jobs[j]
    BY <1>1
  <1>6. e # None /\ \A x \in Events : events'[x] = "processed" <=> x = e \/ events[x] = "processed"
    BY DEF TypeOK
  <1>7. ASSUME NEW i \in JobIds, NEW j \in JobIds, i # j,
               jobs'[i].event # None, jobs'[i].event = jobs'[j].event
        PROVE  jobs'[i].target # jobs'[j].target
    <2>1. CASE jobs'[i].event = e
      <3>1. \E t \in ts : ids[t] = i
        BY <2>1, <1>2, <1>5
      <3>2. \E t \in ts : ids[t] = j
        BY <2>1, <1>2, <1>5, <1>7
      <3> QED
        BY <3>1, <3>2, <1>3, <1>7
    <2>2. CASE jobs'[i].event # e
      <3>1. jobs'[i] = jobs[i] /\ jobs'[j] = jobs[j]
        BY <2>2, <1>3, <1>5, <1>7
      <3> QED
        BY <3>1, <1>7 DEF FanOutInv, FanOutExactlyOnce
    <2> QED
      BY <2>1, <2>2
  <1>8. ASSUME NEW j \in JobIds, jobs'[j].event # None
        PROVE  events'[jobs'[j].event] = "processed"
    <2>1. CASE jobs'[j].event = e
      BY <2>1, <1>6
    <2>2. CASE jobs'[j].event # e
      <3>1. jobs'[j] = jobs[j]
        BY <2>2, <1>3, <1>5
      <3>2. jobs[j].event \in Events
        BY <3>1, <1>8 DEF TypeOK, Job
      <3> QED
        BY <3>1, <3>2, <1>6, <1>8 DEF FanOutInv, FanOutExactlyOnce
    <2> QED
      BY <2>1, <2>2
  <1>9. ASSUME NEW x \in Events, NEW t \in Permanent, events'[x] = "processed"
        PROVE  \E j \in JobIds : jobs'[j].event = x /\ jobs'[j].target = t
    <2>1. CASE x = e
      BY <2>1, <1>1, <1>3
    <2>2. CASE x # e
      <3>1. PICK j \in JobIds : jobs[j].event = x /\ jobs[j].target = t
        BY <2>2, <1>6, <1>9 DEF FanOutInv, FanOutExactlyOnce
      <3> QED
        BY <3>1, <1>4
    <2> QED
      BY <2>1, <2>2
  <1>10. \A j \in JobIds : jobs'[j].status = "unused" => jobs'[j].event = None
    BY <1>3, <1>5 DEF FanOutInv
  <1> QED
    BY <1>7, <1>8, <1>9, <1>10 DEF FanOutExactlyOnce

\* Two dispatchers may hold the same event; the one whose compare-and-swap
\* comes second enqueues nothing.
LEMMA FanOutInvariant == Spec => []FanOutInv
  <1>1. Init => FanOutInv
    BY DEF Init, FanOutInv, FanOutExactlyOnce
  <1>2. TypeOK /\ FanOutInv /\ [Next]_vars => FanOutInv'
    <2> SUFFICES ASSUME TypeOK, FanOutInv, [Next]_vars
                 PROVE  FanOutInv'
      OBVIOUS
    <2> USE DEF tables, dispatcherVars, pollerVars, history
    <2>0. Permanent \subseteq subscribed
      BY DEF FanOutInv
    <2>1. ASSUME NEW e \in Events, AppendEvent(e)
          PROVE  FanOutInv'
      <3>1. \A x \in Events : events'[x] = "processed" <=> events[x] = "processed"
        BY <2>1 DEF AppendEvent, TypeOK
      <3> QED
        BY <2>0, <2>1, <3>1, NothingFannedOut DEF AppendEvent
    <2>2. ASSUME NEW e \in Events, NEW j \in JobIds, RecordPush(e, j)
          PROVE  FanOutInv'
      <3>1. \A x \in Events : events'[x] = "processed" <=> events[x] = "processed"
        BY <2>2 DEF RecordPush, TypeOK
      <3>2. jobs[j].event = None
        BY <2>2 DEF RecordPush, FanOutInv
      <3>3. \A i \in JobIds : jobs'[i] = IF i = j THEN NewJob(None, None) ELSE jobs[i]
        BY <2>2 DEF RecordPush, TypeOK
      <3>4. \A i \in JobIds :
               /\ jobs'[i].event = jobs[i].event
               /\ jobs[i].event # None => jobs'[i].target = jobs[i].target
               /\ jobs'[i].status = "unused" => jobs[i].status = "unused"
        BY <2>2, <3>2, <3>3 DEF RecordPush, NewJob
      <3> QED
        BY <2>0, <2>2, <3>1, <3>4, NothingFannedOut DEF RecordPush
    <2>3. ASSUME NEW t \in Targets, ToggleSubscription(t)
          PROVE  FanOutInv'
      <3>1. Permanent \subseteq subscribed'
        BY <2>0, <2>3 DEF ToggleSubscription
      <3> QED
        BY <2>3, <3>1, NothingFannedOut DEF ToggleSubscription
    <2>4. ASSUME NEW p \in Procs, NEW e \in Events, ReadFanOut(p, e)
          PROVE  FanOutInv'
      <3>1. \A q \in Procs : fanout'[q] = IF q = p THEN [event |-> e, targets |-> subscribed]
                                                   ELSE fanout[q]
        BY <2>4 DEF ReadFanOut, TypeOK
      <3>2. \A q \in Procs : fanout'[q] # None => Permanent \subseteq fanout'[q].targets
        BY <2>0, <3>1 DEF FanOutInv
      <3> QED
        BY <2>4, <3>2 DEF ReadFanOut, FanOutInv, FanOutExactlyOnce
    <2>5. ASSUME NEW p \in Procs, CommitFanOut(p)
          PROVE  FanOutInv'
      <3> DEFINE e == fanout[p].event
                 ts == fanout[p].targets
      <3>1. \A q \in Procs : fanout'[q] = fanout[q] \/ fanout'[q] = None
        BY <2>5 DEF CommitFanOut, TypeOK
      <3>2. CASE WinsEvent(e)
        <4>1. /\ FreshIds(ts) # {}
              /\ EnqueueAll(e, ts)
              /\ events' = [events EXCEPT ![e] = "processed"]
              /\ subscribed' = subscribed
          BY <2>5, <3>2 DEF CommitFanOut
        <4>2. e \in Events /\ ts \in SUBSET Targets /\ Permanent \subseteq ts
          BY <2>5 DEF CommitFanOut, TypeOK, FanOutRead, FanOutInv
        <4>3. events[e] = "pending"
          BY <3>2 DEF WinsEvent
        <4> HIDE DEF e, ts
        <4>4. /\ FanOutExactlyOnce'
              /\ \A j \in JobIds : jobs'[j].status = "unused" => jobs'[j].event = None
          BY <4>1, <4>2, <4>3, FannedOutOnce
        <4> QED
          BY <2>0, <3>1, <4>1, <4>4 DEF FanOutInv
      <3>3. CASE ~WinsEvent(e)
        BY <2>0, <2>5, <3>1, <3>3, NothingFannedOut DEF CommitFanOut
      <3> QED
        BY <3>2, <3>3
    <2>6. ASSUME NEW p \in Procs, NEW c \in candidates[p], ClaimRow(p, c)
          PROVE  FanOutInv'
      <3>1. c.job \in JobIds
        BY DEF TypeOK, Claim
      <3>2. \A j \in JobIds :
               /\ jobs'[j].event = jobs[j].event
               /\ jobs'[j].target = jobs[j].target
               /\ jobs'[j].status = "unused" => jobs[j].status = "unused"
        BY <2>6, <3>1 DEF ClaimRow, TypeOK, Job
      <3> QED
        BY <2>0, <2>6, <3>2, NothingFannedOut DEF ClaimRow
    <2>7. ASSUME NEW p \in Procs, NEW k \in tasks[p], RecordResult(p, k)
          PROVE  FanOutInv'
      <3>1. k.job \in JobIds
        BY DEF TypeOK, Task
      <3>2. \A j \in JobIds : jobs'[j] = IF j = k.job THEN Recorded(jobs[j], k) ELSE jobs[j]
        BY <2>7, <3>1 DEF RecordResult, TypeOK
      <3>3. \A row \in Job : /\ Recorded(row, k).event = row.event
                             /\ Recorded(row, k).target = row.target
                             /\ Recorded(row, k).status = "unused" => row.status = "unused"
        BY DEF Recorded, Job
      <3>4. \A j \in JobIds :
               /\ jobs'[j].event = jobs[j].event
               /\ jobs'[j].target = jobs[j].target
               /\ jobs'[j].status = "unused" => jobs[j].status = "unused"
        BY <3>2, <3>3 DEF TypeOK
      <3> QED
        BY <2>0, <2>7, <3>4, NothingFannedOut DEF RecordResult
    <2>8. ASSUME NEW j \in JobIds, Wake(j) \/ Requeue(j) \/ DeleteJob(j)
          PROVE  FanOutInv'
      <3>1. \A i \in JobIds :
               /\ jobs'[i].event = jobs[i].event
               /\ jobs'[i].target = jobs[i].target
               /\ jobs'[i].status = "unused" => jobs[i].status = "unused"
        <4>1. \A i \in JobIds : i # j => jobs'[i] = jobs[i]
          BY <2>8 DEF Wake, Requeue, DeleteJob, TypeOK
        <4>2. jobs[j] \in Job
          BY DEF TypeOK
        <4>3. /\ jobs'[j].event = jobs[j].event
              /\ jobs'[j].target = jobs[j].target
              /\ jobs'[j].status = "unused" => jobs[j].status = "unused"
          BY <2>8, <4>2 DEF Wake, Requeue, DeleteJob, TypeOK, Job
        <4> QED
          BY <4>1, <4>3
      <3> QED
        BY <2>0, <2>8, <3>1, NothingFannedOut DEF Wake, Requeue, DeleteJob
    <2>9. ASSUME NEW p \in Procs, FanOutFails(p) \/ Crash(p)
          PROVE  FanOutInv'
      BY <2>0, <2>9, NothingFannedOut DEF FanOutFails, Crash, TypeOK
    <2>10. ASSUME NEW p \in Procs,
                  \/ FetchUnprocessed(p) \/ SelectDue(p) \/ ClaimFails(p)
                  \/ \E c \in claimed[p] : SpawnTask(p, c)
                  \/ \E k \in tasks[p] : RunHandler(p, k) \/ RecordLost(p, k)
                  \/ DrainGraceExpires(p) \/ Shutdown(p) \/ Drained(p) \/ Restart(p)
           PROVE  FanOutInv'
      <3>1. UNCHANGED <<events, jobs, subscribed, fanout>>
        BY <2>10 DEF FetchUnprocessed, SelectDue, ClaimFails, SpawnTask, RunHandler,
                     RecordLost, DrainGraceExpires, Shutdown, Drained, Restart
      <3> QED
        BY <2>0, <3>1, NothingFannedOut
    <2>11. CASE UNCHANGED vars
      BY <2>0, <2>11, NothingFannedOut DEF vars
    <2> QED
      BY <2>1, <2>2, <2>3, <2>4, <2>5, <2>6, <2>7, <2>8, <2>9, <2>10, <2>11
         DEF Next, Dispatch, Poll, Work, Fault
  <1> QED
    BY <1>1, <1>2, TypeCorrect, PTL DEF Spec

\* An event's jobs are one for each target that was read, all of one step, and
\* every standing subscriber is among them (process_one, mark_processed).
THEOREM FansOutExactlyOnce == Spec => []FanOutExactlyOnce
  <1>1. FanOutInv => FanOutExactlyOnce
    BY DEF FanOutInv
  <1> QED
    BY <1>1, FanOutInvariant, PTL

-----------------------------------------------------------------------------
(* The queue implements Outbox *)

\* JobQueue's tables, as Outbox sees them.
Published == {e \in Events : events[e] # "none"}
Fanned == {e \in Events : events[e] = "processed"}
Duties == [e \in Events |-> [t \in Targets |->
              IF RowFor(e, t) = {} THEN "none"
              ELSE DutyOf(CHOOSE j \in RowFor(e, t) : TRUE)]]

\* Steps that change no row's event, target or duty.
LEMMA DutiesKept ==
    ASSUME \A j \in JobIds :
              /\ jobs'[j].event = jobs[j].event
              /\ jobs[j].event # None => jobs'[j].target = jobs[j].target
              /\ jobs[j].event # None /\ jobs[j].target # None => DutyOf(j)' = DutyOf(j)
    PROVE  Duties' = Duties
  <1>1. ASSUME NEW e \in Events, NEW t \in Targets
        PROVE  /\ RowFor(e, t)' = RowFor(e, t)
               /\ RowFor(e, t) # {} => DutyOf(CHOOSE j \in RowFor(e, t) : TRUE)'
                                         = DutyOf(CHOOSE j \in RowFor(e, t) : TRUE)
    <2>1. e # None /\ t # None
      OBVIOUS
    <2>2. RowFor(e, t)' = RowFor(e, t)
      BY <2>1 DEF RowFor
    <2>3. \A j \in RowFor(e, t) : DutyOf(j)' = DutyOf(j)
      BY <2>1 DEF RowFor
    <2> QED
      BY <2>2, <2>3
  <1> QED
    BY <1>1 DEF Duties

\* No two rows belong to one event and target.
LEMMA OneRow ==
    ASSUME FanOutExactlyOnce, NEW i \in JobIds, jobs[i].event # None
    PROVE  RowFor(jobs[i].event, jobs[i].target) = {i}
  BY DEF FanOutExactlyOnce, RowFor

\* An update of one row moves that row's duty and no other.
LEMMA OneDutyMoves ==
    ASSUME FanOutExactlyOnce, NEW i \in JobIds, NEW e \in Events, NEW t \in Targets,
           jobs[i].event = e, jobs[i].target = t,
           \A j \in JobIds : /\ jobs'[j].event = jobs[j].event
                             /\ jobs'[j].target = jobs[j].target
                             /\ j # i => DutyOf(j)' = DutyOf(j)
    PROVE  /\ Duties[e][t] = DutyOf(i)
           /\ Duties' = [Duties EXCEPT ![e][t] = DutyOf(i)']
  <1>1. e # None
    OBVIOUS
  <1>2. RowFor(e, t) = {i}
    BY <1>1, OneRow
  <1>3. \A x \in Events, u \in Targets : RowFor(x, u)' = RowFor(x, u)
    BY DEF RowFor
  <1>4. ASSUME NEW x \in Events, NEW u \in Targets, ~(x = e /\ u = t)
        PROVE  Duties'[x][u] = Duties[x][u]
    <2>1. \A j \in RowFor(x, u) : j \in JobIds /\ j # i
      BY <1>4 DEF RowFor
    <2>2. \A j \in RowFor(x, u) : DutyOf(j)' = DutyOf(j)
      BY <2>1
    <2>3. RowFor(x, u) # {} => DutyOf(CHOOSE j \in RowFor(x, u) : TRUE)'
                                 = DutyOf(CHOOSE j \in RowFor(x, u) : TRUE)
      BY <1>3, <2>2
    <2> QED
      BY <1>3, <2>3 DEF Duties
  <1>5. (CHOOSE j \in {i} : TRUE) = i
    OBVIOUS
  <1>6. Duties[e][t] = DutyOf(i) /\ Duties'[e][t] = DutyOf(i)'
    BY <1>2, <1>3, <1>5 DEF Duties
  <1>7. /\ Duties = [x \in Events |-> [u \in Targets |-> Duties[x][u]]]
        /\ Duties' = [x \in Events |-> [u \in Targets |-> Duties'[x][u]]]
    BY DEF Duties
  <1> HIDE DEF Duties
  <1> QED
    BY <1>4, <1>6, <1>7

\* What an update of one row is to Outbox: the settling of its duty, or nothing.
MayMove(a, b) ==
    \/ a = "owed" /\ b \in {"done", "dead"}
    \/ a = "dead" /\ b = "owed"
    \/ a \in {"owed", "done", "dead"} /\ b = "dropped"

LEMMA RowUpdate ==
    ASSUME TypeOK, FanOutExactlyOnce, NEW i \in JobIds, events' = events,
           \A j \in JobIds : /\ jobs'[j].event = jobs[j].event
                             /\ jobs'[j].target = jobs[j].target
                             /\ j # i => DutyOf(j)' = DutyOf(j),
           DutyOf(i)' = DutyOf(i) \/ MayMove(DutyOf(i), DutyOf(i)')
    PROVE  [OB!OutboxNext]_(OB!outboxVars)
  <1>1. Published' = Published /\ Fanned' = Fanned
    BY DEF Published, Fanned
  <1>2. CASE DutyOf(i)' = DutyOf(i) \/ jobs[i].event = None \/ jobs[i].target = None
    <2>1. Duties' = Duties
      BY <1>2, DutiesKept
    <2> QED
      BY <1>1, <2>1 DEF OB!outboxVars, Published, Fanned, Duties
  <1>3. CASE MayMove(DutyOf(i), DutyOf(i)') /\ jobs[i].event # None /\ jobs[i].target # None
    <2>1. PICK e \in Events : e = jobs[i].event
      BY <1>3 DEF TypeOK, Job
    <2>2. PICK t \in Targets : t = jobs[i].target
      BY <1>3 DEF TypeOK, Job
    <2>3. Duties[e][t] = DutyOf(i) /\ Duties' = [Duties EXCEPT ![e][t] = DutyOf(i)']
      BY <2>1, <2>2, OneDutyMoves
    <2>4. \/ /\ Duties[e][t] = "owed"
             /\ \E s \in {"done", "dead"} : Duties' = [Duties EXCEPT ![e][t] = s]
          \/ /\ Duties[e][t] = "dead"
             /\ Duties' = [Duties EXCEPT ![e][t] = "owed"]
          \/ /\ Duties[e][t] \in {"owed", "done", "dead"}
             /\ Duties' = [Duties EXCEPT ![e][t] = "dropped"]
      <3> DEFINE a == DutyOf(i)
                 b == DutyOf(i)'
      <3> HIDE DEF a, b
      <3> QED
        BY <1>3, <2>3 DEF MayMove, a, b
    <2>5. OB!Settle(e, t)
      BY <1>1, <2>4 DEF OB!Settle, Published, Fanned, Duties
    <2> QED
      BY <2>5 DEF OB!OutboxNext
  <1> QED
    BY <1>2, <1>3

\* What a winning commit is to Outbox: all the work of its event, owed at once.
LEMMA FanOutIsOneStep ==
    ASSUME TypeOK, FanOutInv, NEW e \in Events, NEW ts \in SUBSET Targets,
           events[e] = "pending", Permanent \subseteq ts,
           FreshIds(ts) # {}, EnqueueAll(e, ts),
           events' = [events EXCEPT ![e] = "processed"]
    PROVE  OB!FanOutOnce(e, ts)
  <1>1. PICK ids \in [ts -> JobIds] :
           /\ \A s, t \in ts : ids[s] = ids[t] => s = t
           /\ \A t \in ts : /\ jobs[ids[t]].status = "unused"
                            /\ jobs'[ids[t]] = NewJob(e, t)
           /\ jobs' = [j \in JobIds |-> jobs'[j]]
           /\ \A j \in JobIds : (\A t \in ts : ids[t] # j) => jobs'[j] = jobs[j]
    BY EnqueueAllEffect
  <1>2. e # None /\ \A j \in JobIds : jobs[j].event # e
    BY DEF FanOutInv, FanOutExactlyOnce
  <1>3. \A t \in ts : /\ jobs[ids[t]].event = None
                      /\ jobs'[ids[t]].event = e /\ jobs'[ids[t]].target = t
                      /\ jobs'[ids[t]].status = "pending"
    <2>1. \A t : /\ NewJob(e, t).event = e /\ NewJob(e, t).target = t
                 /\ NewJob(e, t).status = "pending"
      BY DEF NewJob
    <2> QED
      BY <1>1, <2>1 DEF FanOutInv
  <1>4. \A t \in ts : RowFor(e, t)' = {ids[t]} /\ DutyOf(ids[t])' = "owed"
    <2>1. ASSUME NEW t \in ts
          PROVE  RowFor(e, t)' = {ids[t]}
      BY <1>1, <1>2, <1>3 DEF RowFor
    <2>2. ASSUME NEW t \in ts
          PROVE  DutyOf(ids[t])' = "owed"
      BY <1>3 DEF DutyOf
    <2> QED
      BY <2>1, <2>2
  <1>5. \A t \in Targets \ ts : RowFor(e, t)' = {}
    BY <1>1, <1>2, <1>3 DEF RowFor
  <1>6. ASSUME NEW x \in Events \ {e}, NEW t \in Targets
        PROVE  Duties'[x][t] = Duties[x][t]
    <2>1. x # None
      OBVIOUS
    <2>2. RowFor(x, t)' = RowFor(x, t) /\ \A j \in RowFor(x, t) : jobs'[j] = jobs[j]
      BY <1>1, <1>3, <2>1 DEF RowFor
    <2>3. \A j \in RowFor(x, t) : DutyOf(j)' = DutyOf(j)
      BY <2>2 DEF DutyOf
    <2>4. RowFor(x, t) # {} => (CHOOSE j \in RowFor(x, t) : TRUE) \in RowFor(x, t)
      OBVIOUS
    <2> QED
      BY <2>2, <2>3, <2>4 DEF Duties
  <1>7. ASSUME NEW t \in Targets
        PROVE  Duties'[e][t] = IF t \in ts THEN "owed" ELSE "none"
    <2>1. CASE t \in ts
      <3>1. (CHOOSE j \in {ids[t]} : TRUE) = ids[t]
        OBVIOUS
      <3> QED
        BY <1>4, <2>1, <3>1 DEF Duties
    <2>2. CASE t \notin ts
      BY <1>5, <2>2 DEF Duties
    <2> QED
      BY <2>1, <2>2
  <1>8. /\ Duties = [x \in Events |-> [t \in Targets |-> Duties[x][t]]]
        /\ Duties' = [x \in Events |-> [t \in Targets |-> Duties'[x][t]]]
    BY DEF Duties
  <1>9. Duties' = [Duties EXCEPT ![e] = [t \in Targets |->
                                            IF t \in ts THEN "owed" ELSE "none"]]
    <2> HIDE DEF Duties
    <2> QED
      BY <1>6, <1>7, <1>8
  <1>10. /\ e \in Published \ Fanned
         /\ Published' = Published
         /\ Fanned' = Fanned \union {e}
    BY DEF Published, Fanned, TypeOK
  <1> QED
    BY <1>9, <1>10 DEF OB!FanOutOnce, Published, Fanned, Duties

\* What a committed event is to Outbox, whatever is enqueued beside it.
LEMMA AppendPublishes ==
    ASSUME TypeOK, NEW e \in Events, events[e] = "none",
           events' = [events EXCEPT ![e] = "pending"], Duties' = Duties
    PROVE  OB!Publish(e)
  <1>1. e \notin Published /\ Published' = Published \union {e} /\ Fanned' = Fanned
    BY DEF Published, Fanned, TypeOK
  <1> QED
    BY <1>1 DEF OB!Publish, Published, Fanned, Duties

LEMMA OutboxStep ==
    ASSUME TypeOK, ExclusiveClaim, FanOutInv, [Next]_vars
    PROVE  [OB!OutboxNext]_(OB!outboxVars)
  <1> USE DEF tables, dispatcherVars, pollerVars, history
  <1>a. FanOutExactlyOnce
    BY DEF FanOutInv
  <1>b. UNCHANGED <<events, jobs>> => UNCHANGED OB!outboxVars
    BY DEF OB!outboxVars, RowFor, DutyOf
  <1>1. ASSUME NEW e \in Events, AppendEvent(e)
        PROVE  OB!Publish(e)
    <2>1. Duties' = Duties
      BY <1>1 DEF AppendEvent, Duties, RowFor, DutyOf
    <2> QED
      BY <1>1, <2>1, AppendPublishes DEF AppendEvent
  <1>2. ASSUME NEW e \in Events, NEW j \in JobIds, RecordPush(e, j)
        PROVE  OB!Publish(e)
    <2>1. \A i \in JobIds : /\ i # j => jobs'[i] = jobs[i]
                            /\ jobs'[j].event = None
      BY <1>2 DEF RecordPush, TypeOK, NewJob
    <2>2. jobs[j].event = None
      BY <1>2 DEF RecordPush, FanOutInv
    <2>3. \A i \in JobIds : i # j => DutyOf(i)' = DutyOf(i)
      BY <2>1 DEF DutyOf
    <2>4. Duties' = Duties
      BY <2>1, <2>2, <2>3, DutiesKept
    <2> QED
      BY <1>2, <2>4, AppendPublishes DEF RecordPush
  <1>3. ASSUME NEW p \in Procs, CommitFanOut(p)
        PROVE  [OB!OutboxNext]_(OB!outboxVars)
    <2>1. PICK e \in Events : e = fanout[p].event
      BY <1>3 DEF CommitFanOut, TypeOK, FanOutRead
    <2>2. PICK ts \in SUBSET Targets : ts = fanout[p].targets /\ Permanent \subseteq ts
      BY <1>3 DEF CommitFanOut, TypeOK, FanOutRead, FanOutInv
    <2>3. CASE WinsEvent(e)
      <3>1. /\ FreshIds(ts) # {} /\ EnqueueAll(e, ts) /\ events[e] = "pending"
            /\ events' = [events EXCEPT ![e] = "processed"]
        BY <1>3, <2>1, <2>2, <2>3 DEF CommitFanOut, WinsEvent
      <3>2. OB!FanOutOnce(e, ts)
        BY <2>2, <3>1, FanOutIsOneStep
      <3> QED
        BY <3>2 DEF OB!OutboxNext
    <2>4. CASE ~WinsEvent(e)
      <3>1. UNCHANGED <<events, jobs>>
        BY <1>3, <2>1, <2>4 DEF CommitFanOut
      <3> QED
        BY <1>b, <3>1
    <2> QED
      BY <2>3, <2>4
  <1>4. ASSUME NEW p \in Procs, NEW c \in candidates[p], ClaimRow(p, c)
        PROVE  [OB!OutboxNext]_(OB!outboxVars)
    <2>1. CASE ~WinsJob(c.job)
      BY <1>4, <1>b, <2>1 DEF ClaimRow
    <2>2. CASE WinsJob(c.job)
      <3>1. PICK i \in JobIds : i = c.job
        BY DEF TypeOK, Claim
      <3>2. /\ jobs[i].status = "pending" /\ events' = events
            /\ jobs' = [jobs EXCEPT ![i].status = "running"]
        BY <1>4, <2>2, <3>1 DEF ClaimRow, WinsJob
      <3>3. \A j \in JobIds : /\ j # i => jobs'[j] = jobs[j]
                              /\ jobs'[j].event = jobs[j].event
                              /\ jobs'[j].target = jobs[j].target
                              /\ jobs'[i].status = "running"
        BY <3>2 DEF TypeOK, Job
      <3>4. \A j \in JobIds : DutyOf(j)' = DutyOf(j)
        BY <3>2, <3>3 DEF DutyOf
      <3> QED
        BY <1>a, <3>2, <3>3, <3>4, RowUpdate
    <2> QED
      BY <2>1, <2>2
  <1>5. ASSUME NEW p \in Procs, NEW k \in tasks[p], RecordResult(p, k)
        PROVE  [OB!OutboxNext]_(OB!outboxVars)
    <2>1. PICK i \in JobIds : i = k.job
      BY DEF TypeOK, Task
    <2>2. jobs[i].status = "running" /\ jobs[i] \in Job
      BY <2>1 DEF ExclusiveClaim, Holds, TypeOK
    <2>3. /\ events' = events
          /\ \A j \in JobIds : jobs'[j] = IF j = i THEN Recorded(jobs[i], k) ELSE jobs[j]
      BY <1>5, <2>1 DEF RecordResult, TypeOK
    <2>4. /\ Recorded(jobs[i], k).event = jobs[i].event
          /\ Recorded(jobs[i], k).target = jobs[i].target
          /\ Recorded(jobs[i], k).status \in {"succeeded", "failed", "pending"}
      BY <2>2 DEF Recorded, Job
    <2>5. \A j \in JobIds : /\ jobs'[j].event = jobs[j].event
                            /\ jobs'[j].target = jobs[j].target
                            /\ j # i => DutyOf(j)' = DutyOf(j)
      BY <2>3, <2>4 DEF DutyOf
    <2>6. DutyOf(i) = "owed"
      BY <2>2 DEF DutyOf
    <2>7. jobs'[i].status \in {"succeeded", "failed", "pending"}
      BY <2>3, <2>4
    <2>8. DutyOf(i)' \in {"done", "dead", "owed"}
      BY <2>7 DEF DutyOf
    <2>9. DutyOf(i)' = DutyOf(i) \/ MayMove(DutyOf(i), DutyOf(i)')
      BY <2>6, <2>8 DEF MayMove
    <2> QED
      BY <1>a, <2>3, <2>5, <2>9, RowUpdate
  <1>6. ASSUME NEW i \in JobIds, Wake(i) \/ Requeue(i) \/ DeleteJob(i)
        PROVE  [OB!OutboxNext]_(OB!outboxVars)
    <2>1. jobs[i] \in Job /\ events' = events
      BY <1>6 DEF Wake, Requeue, DeleteJob, TypeOK
    <2>2. \A j \in JobIds : j # i => jobs'[j] = jobs[j]
      BY <1>6 DEF Wake, Requeue, DeleteJob, TypeOK
    <2>3. /\ jobs'[i].event = jobs[i].event
          /\ jobs'[i].target = jobs[i].target
          /\ \/ jobs'[i].status = jobs[i].status
             \/ jobs[i].status = "failed" /\ jobs'[i].status = "pending"
             \/ /\ jobs[i].status \in {"pending", "succeeded", "failed"}
                /\ jobs'[i].status = "deleted"
      BY <1>6, <2>1 DEF Wake, Requeue, MayRequeue, DeleteJob, MayDelete, TypeOK, Job, JobStatus
    <2>4. \A j \in JobIds : /\ jobs'[j].event = jobs[j].event
                            /\ jobs'[j].target = jobs[j].target
                            /\ j # i => DutyOf(j)' = DutyOf(j)
      BY <2>2, <2>3 DEF DutyOf
    <2>5. DutyOf(i)' = DutyOf(i) \/ MayMove(DutyOf(i), DutyOf(i)')
      BY <2>3 DEF DutyOf, MayMove
    <2> QED
      BY <1>a, <2>1, <2>4, <2>5, RowUpdate
  <1>7. ASSUME NEW p \in Procs,
               \/ FetchUnprocessed(p) \/ FanOutFails(p) \/ SelectDue(p) \/ ClaimFails(p)
               \/ \E e \in Events : ReadFanOut(p, e)
               \/ \E c \in claimed[p] : SpawnTask(p, c)
               \/ \E k \in tasks[p] : RunHandler(p, k) \/ RecordLost(p, k)
               \/ DrainGraceExpires(p) \/ Crash(p)
               \/ Shutdown(p) \/ Drained(p) \/ Restart(p)
        PROVE  UNCHANGED <<events, jobs>>
    BY <1>7 DEF FetchUnprocessed, FanOutFails, SelectDue, ClaimFails, ReadFanOut, SpawnTask,
                RunHandler, RecordLost, DrainGraceExpires, Crash, Shutdown, Drained, Restart
  <1>8. ASSUME (\E t \in Targets : ToggleSubscription(t)) \/ UNCHANGED vars
        PROVE  UNCHANGED <<events, jobs>>
    BY <1>8 DEF ToggleSubscription, vars
  <1>9. CASE \E e \in Events : AppendEvent(e) \/ \E j \in JobIds : RecordPush(e, j)
    BY <1>1, <1>2, <1>9 DEF OB!OutboxNext
  <1> QED
    BY <1>b, <1>3, <1>4, <1>5, <1>6, <1>7, <1>8, <1>9
       DEF Next, Dispatch, Poll, Work, Fault

\* Through claims, retries, lost results, shutdowns and crashes, what a service
\* sees of its events is Outbox: the work of an event becomes owed in one step,
\* once, and what is done is never owed again.
THEOREM QueueIsOutbox == Spec => ImplementsOutbox
  <1>1. Init => OB!OutboxInit
    BY DEF Init, OB!OutboxInit, RowFor
  <1>2. TypeOK /\ ExclusiveClaim /\ FanOutInv /\ [Next]_vars
          => [OB!OutboxNext]_(OB!outboxVars)
    BY OutboxStep
  <1> QED
    BY <1>1, <1>2, TypeCorrect, ExclusiveClaims, FanOutInvariant, PTL
       DEF Spec, ImplementsOutbox, OB!OutboxSpec

-----------------------------------------------------------------------------
(* The retry budget.  With one poller at a time, what it has read of a row   *)
(* stays true until it is done with it: a candidate's attempts are the row's *)
(* while the row is pending, a claim's are its runs, and a task's are its    *)
(* runs until its own has ended.                                             *)

\* A row nobody has used has not run.
RowCounts(j) ==
    /\ runs[j] <= MaxAttempts
    /\ jobs[j].status = "unused" => runs[j] = 0
    /\ jobs[j].status = "failed" => runs[j] = MaxAttempts
    /\ jobs[j].status = "pending" => runs[j] = jobs[j].attempts /\ runs[j] < MaxAttempts

CandidateCounts(c) ==
    /\ jobs[c.job].status \in {"pending", "deleted"}
    /\ jobs[c.job].status = "pending" => c.attempts = jobs[c.job].attempts

ClaimCounts(c) == runs[c.job] = c.attempts /\ c.attempts < MaxAttempts

TaskCounts(k) ==
    /\ k.attempts < MaxAttempts
    /\ runs[k.job] = IF k.stage = "running" THEN k.attempts ELSE k.attempts + 1

BudgetInv ==
    /\ \A j \in JobIds : RowCounts(j)
    /\ \A p \in Procs : \A c \in candidates[p] : CandidateCounts(c)
    /\ \A p \in Procs : \A b, c \in candidates[p] : b.job = c.job => b = c
    /\ \A p \in Procs : \A c \in claimed[p] : ClaimCounts(c)
    /\ \A p \in Procs : \A k \in tasks[p] : TaskCounts(k)

\* Nothing new is taken in hand; of a row that is, only what is not counted changes.
LEMMA BudgetKept ==
    ASSUME TypeOK, BudgetInv,
           \A p \in Procs : /\ candidates'[p] \subseteq candidates[p]
                            /\ claimed'[p] \subseteq claimed[p]
                            /\ tasks'[p] \subseteq tasks[p],
           runs' = runs,
           \A j \in JobIds :
              \/ jobs'[j].status = jobs[j].status /\ jobs'[j].attempts = jobs[j].attempts
              \/ jobs'[j].status = "deleted"
              \/ /\ jobs[j].status = "unused"
                 /\ jobs'[j].status = "pending" /\ jobs'[j].attempts = 0
    PROVE  BudgetInv'
  <1>1. \A j \in JobIds : RowCounts(j)'
    BY DEF BudgetInv, RowCounts
  <1>2. ASSUME NEW p \in Procs, NEW c \in candidates'[p]
        PROVE  CandidateCounts(c)'
    <2>1. c \in candidates[p] /\ c.job \in JobIds
      BY DEF TypeOK, Claim
    <2>2. CandidateCounts(c)
      BY <2>1 DEF BudgetInv
    <2> QED
      BY <2>1, <2>2 DEF CandidateCounts
  <1>3. \A p \in Procs : \A c \in claimed'[p] : ClaimCounts(c)'
    BY DEF BudgetInv, ClaimCounts
  <1>4. \A p \in Procs : \A k \in tasks'[p] : TaskCounts(k)'
    BY DEF BudgetInv, TaskCounts
  <1> QED
    BY <1>1, <1>2, <1>3, <1>4 DEF BudgetInv

\* A handler runs at most MAX_ATTEMPTS times before an administrator steps in,
\* as long as one process polls: of two, the second may win a row that the first
\* has put back since it was selected, and record the attempts it read then.
THEOREM RetriesBounded ==
    ASSUME \A p, q \in Procs : p = q
    PROVE  Spec => []RetryBudget
  <1>1. Init => BudgetInv
    BY DEF Init, BudgetInv, RowCounts
  <1>2. TypeOK /\ ExclusiveClaim /\ BudgetInv /\ [Next]_vars => BudgetInv'
    <2> SUFFICES ASSUME TypeOK, ExclusiveClaim, BudgetInv, [Next]_vars
                 PROVE  BudgetInv'
      OBVIOUS
    <2> USE DEF tables, dispatcherVars, pollerVars, history
    <2>1. ASSUME NEW e \in Events, AppendEvent(e) \/ (\E p \in Procs : ReadFanOut(p, e))
          PROVE  BudgetInv'
      BY <2>1, BudgetKept DEF AppendEvent, ReadFanOut
    <2>2. ASSUME NEW e \in Events, NEW j \in JobIds, RecordPush(e, j)
          PROVE  BudgetInv'
      <3>1. \A i \in JobIds : jobs'[i] = IF i = j THEN NewJob(None, None) ELSE jobs[i]
        BY <2>2 DEF RecordPush, TypeOK
      <3> QED
        BY <2>2, <3>1, BudgetKept DEF RecordPush, NewJob
    <2>3. ASSUME NEW p \in Procs, CommitFanOut(p)
          PROVE  BudgetInv'
      <3> DEFINE e == fanout[p].event
                 ts == fanout[p].targets
      <3>1. CASE WinsEvent(e)
        <4>1. FreshIds(ts) # {} /\ EnqueueAll(e, ts) /\ UNCHANGED <<candidates, claimed, tasks, runs>>
          BY <2>3, <3>1 DEF CommitFanOut
        <4> HIDE DEF e, ts
        <4>2. PICK ids \in [ts -> JobIds] :
                 /\ \A t \in ts : /\ jobs[ids[t]].status = "unused"
                                  /\ jobs'[ids[t]] = NewJob(e, t)
                 /\ \A j \in JobIds : (\A t \in ts : ids[t] # j) => jobs'[j] = jobs[j]
          BY <4>1, EnqueueAllEffect
        <4>3. \A t : NewJob(e, t).status = "pending" /\ NewJob(e, t).attempts = 0
          BY DEF NewJob
        <4> QED
          BY <4>1, <4>2, <4>3, BudgetKept
      <3>2. CASE ~WinsEvent(e)
        BY <2>3, <3>2, BudgetKept DEF CommitFanOut
      <3> QED
        BY <3>1, <3>2
    <2>4. ASSUME NEW p \in Procs, SelectDue(p)
          PROVE  BudgetInv'
      <3>1. PICK b \in Batch(Due) :
               candidates' = [candidates EXCEPT ![p] =
                                {[job |-> j, attempts |-> jobs[j].attempts] : j \in b}]
        BY <2>4 DEF SelectDue
      <3>2. b \subseteq Due
        BY DEF Batch
      <3>3. UNCHANGED <<jobs, runs, claimed, tasks>>
        BY <2>4 DEF SelectDue
      <3> DEFINE Seen(j) == [job |-> j, attempts |-> jobs[j].attempts]
                 rows == {Seen(j) : j \in b}
      <3>4. \A c \in rows : \E j \in b : c = Seen(j)
        OBVIOUS
      <3>5. \A j : Seen(j).job = j /\ Seen(j).attempts = jobs[j].attempts
        OBVIOUS
      <3>6. candidates' = [candidates EXCEPT ![p] = rows]
        BY <3>1
      <3> HIDE DEF rows, Seen
      <3>7. \A q \in Procs : candidates'[q] = IF q = p THEN rows ELSE candidates[q]
        BY <3>6 DEF TypeOK
      <3>8. \A c \in rows : CandidateCounts(c)
        BY <3>2, <3>4, <3>5 DEF CandidateCounts, Due
      <3>9. \A q \in Procs : \A c \in candidates'[q] : CandidateCounts(c)'
        BY <3>3, <3>7, <3>8 DEF CandidateCounts, BudgetInv
      <3>10. \A c, d \in rows : c.job = d.job => c = d
        BY <3>4, <3>5
      <3>11. \A q \in Procs : \A c, d \in candidates'[q] : c.job = d.job => c = d
        BY <3>7, <3>10 DEF BudgetInv
      <3> QED
        BY <3>3, <3>9, <3>11 DEF BudgetInv, RowCounts, ClaimCounts, TaskCounts
    <2>5. ASSUME NEW p \in Procs, NEW c \in candidates[p], ClaimRow(p, c)
          PROVE  BudgetInv'
      <3>1. c.job \in JobIds
        BY DEF TypeOK, Claim
      <3>2. CASE ~WinsJob(c.job)
        BY <2>5, <3>2, BudgetKept DEF ClaimRow, TypeOK
      <3>3. CASE WinsJob(c.job)
        <4>1. /\ jobs[c.job].status = "pending"
              /\ jobs' = [jobs EXCEPT ![c.job].status = "running"]
              /\ claimed' = [claimed EXCEPT ![p] = @ \union {c}]
              /\ candidates' = [candidates EXCEPT ![p] = @ \ {c}]
              /\ tasks' = tasks /\ runs' = runs
          BY <2>5, <3>3 DEF ClaimRow, WinsJob
        <4>2. \A j \in JobIds : /\ j = c.job => jobs'[j].status = "running"
                                /\ j # c.job => jobs'[j] = jobs[j]
          BY <3>1, <4>1 DEF TypeOK, Job
        <4>3. \A q \in Procs : /\ claimed'[q] \subseteq claimed[q] \union {c}
                               /\ candidates'[q] = candidates[q] \ (IF q = p THEN {c} ELSE {})
          BY <4>1 DEF TypeOK
        <4>4. \A j \in JobIds : RowCounts(j)'
          BY <4>1, <4>2 DEF BudgetInv, RowCounts
        <4>5. ASSUME NEW q \in Procs, NEW d \in candidates'[q]
              PROVE  CandidateCounts(d)'
          <5>1. q = p /\ d \in candidates[p] /\ d # c
            BY <4>3
          <5>2. d.job # c.job /\ d.job \in JobIds
            BY <5>1 DEF BudgetInv, TypeOK, Claim
          <5> QED
            BY <4>2, <5>1, <5>2 DEF BudgetInv, CandidateCounts
        <4>6. runs[c.job] = c.attempts /\ c.attempts < MaxAttempts
          BY <3>1, <4>1 DEF BudgetInv, CandidateCounts, RowCounts
        <4>7. \A q \in Procs : \A d \in claimed'[q] : ClaimCounts(d)'
          BY <4>1, <4>3, <4>6 DEF BudgetInv, ClaimCounts
        <4> QED
          BY <4>1, <4>3, <4>4, <4>5, <4>7 DEF BudgetInv, TaskCounts
      <3> QED
        BY <3>2, <3>3
    <2>6. ASSUME NEW p \in Procs, NEW c \in claimed[p], SpawnTask(p, c)
          PROVE  BudgetInv'
      <3> DEFINE k == [job |-> c.job, attempts |-> c.attempts, stage |-> "running"]
      <3>1. /\ UNCHANGED <<jobs, runs, candidates>>
            /\ \A q \in Procs : /\ claimed'[q] \subseteq claimed[q]
                                 /\ tasks'[q] \subseteq tasks[q] \union {k}
        BY <2>6 DEF SpawnTask, TypeOK
      <3>2. TaskCounts(k)'
        BY <3>1 DEF BudgetInv, ClaimCounts, TaskCounts
      <3> HIDE DEF k
      <3> QED
        BY <3>1, <3>2 DEF BudgetInv, RowCounts, CandidateCounts, ClaimCounts, TaskCounts
    <2>7. ASSUME NEW p \in Procs, NEW k \in tasks[p], RunHandler(p, k)
          PROVE  BudgetInv'
      <3>1. PICK o \in HandlerOutcomes :
              tasks' = [tasks EXCEPT ![p] = (@ \ {k}) \union {[k EXCEPT !.stage = o]}]
        BY <2>7 DEF RunHandler
      <3> DEFINE m == [k EXCEPT !.stage = o]
      <3>2. k \in Task /\ k.job \in JobIds /\ o # "running"
        BY <3>1 DEF TypeOK, Task, HandlerOutcomes
      <3>3. m.job = k.job /\ m.attempts = k.attempts /\ m.stage = o
        BY <3>2 DEF Task
      <3> HIDE DEF m
      <3>4. \A q \in Procs :
               tasks'[q] = IF q = p THEN (tasks[q] \ {k}) \union {m} ELSE tasks[q]
        BY <3>1 DEF TypeOK, m
      <3>5. /\ UNCHANGED <<jobs, candidates, claimed>> /\ k.stage = "running"
            /\ \A j \in JobIds : runs'[j] = IF j = k.job THEN runs[j] + 1 ELSE runs[j]
        BY <2>7, <3>2 DEF RunHandler, TypeOK
      <3>6. /\ jobs[k.job].status = "running"
            /\ runs[k.job] = k.attempts /\ k.attempts < MaxAttempts
        <4>1. Holds(p, k.job)
          BY DEF Holds
        <4>2. jobs[k.job].status = "running"
          BY <3>2, <4>1 DEF ExclusiveClaim
        <4>3. TaskCounts(k)
          BY DEF BudgetInv
        <4> QED
          BY <3>5, <4>2, <4>3 DEF TaskCounts
      <3>7. k.attempts \in Nat /\ k.attempts + 1 <= MaxAttempts
        BY <3>2, <3>6 DEF Task
      <3>8. \A j \in JobIds : RowCounts(j)'
        BY <3>5, <3>6, <3>7 DEF BudgetInv, RowCounts
      <3>9. \A q \in Procs : \A c \in candidates'[q] : CandidateCounts(c)'
        BY <3>5 DEF BudgetInv, CandidateCounts
      <3>10. ASSUME NEW q \in Procs, NEW c \in claimed'[q]
             PROVE  ClaimCounts(c)'
        <4>1. c \in claimed[p] /\ c.job \in JobIds
          BY <3>5 DEF TypeOK, Claim
        <4>2. c # k
          BY <4>1, ClaimIsNoTask
        <4>3. c.job # k.job
          BY <4>1, <4>2 DEF ExclusiveClaim
        <4> QED
          BY <3>5, <4>1, <4>3 DEF BudgetInv, ClaimCounts
      <3>11. ASSUME NEW q \in Procs, NEW n \in tasks'[q]
             PROVE  TaskCounts(n)'
        <4>1. CASE n = m
          BY <3>2, <3>3, <3>5, <3>6, <4>1 DEF TaskCounts
        <4>2. CASE n # m
          <5>1. q = p /\ n \in tasks[p] /\ n # k
            BY <3>4, <4>2
          <5>3. n \in Task /\ n.job \in JobIds
            BY <5>1 DEF TypeOK, Task
          <5>2. n.job # k.job
            BY <5>1 DEF ExclusiveClaim
          <5> QED
            BY <3>5, <5>1, <5>2, <5>3 DEF BudgetInv, TaskCounts
        <4> QED
          BY <4>1, <4>2
      <3> QED
        BY <3>5, <3>8, <3>9, <3>10, <3>11 DEF BudgetInv
    <2>8. ASSUME NEW p \in Procs, NEW k \in tasks[p], RecordResult(p, k)
          PROVE  BudgetInv'
      <3>1. k \in Task /\ k.job \in JobIds /\ k.attempts \in Nat
        BY DEF TypeOK, Task
      <3>2. /\ UNCHANGED <<candidates, claimed, runs>> /\ k.stage # "running"
            /\ \A j \in JobIds : jobs'[j] = IF j = k.job THEN Recorded(jobs[j], k) ELSE jobs[j]
            /\ \A q \in Procs : tasks'[q] \subseteq tasks[q]
        BY <2>8, <3>1 DEF RecordResult, TypeOK
      <3>3. jobs[k.job].status = "running" /\ jobs[k.job] \in Job
        BY <3>1 DEF ExclusiveClaim, Holds, TypeOK
      <3>4. k.attempts < MaxAttempts /\ runs[k.job] = k.attempts + 1
        BY <3>2 DEF BudgetInv, TaskCounts
      <3>5. LET row == Recorded(jobs[k.job], k)
            IN  \/ row.status = "succeeded"
                \/ row.status = "failed" /\ k.attempts + 1 >= MaxAttempts
                \/ row.status = "pending" /\ row.attempts = k.attempts + 1 /\ k.attempts + 1 < MaxAttempts
        BY <3>1, <3>3 DEF Recorded, Exhausted, Job
      <3>6. \A j \in JobIds : RowCounts(j)'
        BY <3>1, <3>2, <3>4, <3>5 DEF BudgetInv, RowCounts
      <3>7. ASSUME NEW q \in Procs, NEW c \in candidates'[q]
            PROVE  CandidateCounts(c)'
        <4>1. c \in candidates[q] /\ c.job \in JobIds
          BY <3>2 DEF TypeOK, Claim
        <4>2. c.job # k.job
          BY <3>3, <4>1 DEF BudgetInv, CandidateCounts
        <4> QED
          BY <3>2, <4>1, <4>2 DEF BudgetInv, CandidateCounts
      <3> QED
        BY <3>2, <3>6, <3>7 DEF BudgetInv, ClaimCounts, TaskCounts
    <2>9. ASSUME NEW j \in JobIds, Wake(j) \/ DeleteJob(j)
          PROVE  BudgetInv'
      <3>1. \A i \in JobIds : \/ jobs'[i].status = jobs[i].status /\ jobs'[i].attempts = jobs[i].attempts
                              \/ jobs'[i].status = "deleted"
        <4>1. jobs[j] \in Job /\ \A i \in JobIds : i # j => jobs'[i] = jobs[i]
          BY <2>9 DEF Wake, DeleteJob, TypeOK
        <4> QED
          BY <2>9, <4>1 DEF Wake, DeleteJob, TypeOK, Job
      <3> QED
        BY <2>9, <3>1, BudgetKept DEF Wake, DeleteJob
    <2>10. ASSUME NEW j \in JobIds, Requeue(j)
           PROVE  BudgetInv'
      <3>1. /\ UNCHANGED <<candidates, claimed, tasks>> /\ jobs[j].status = "failed"
            /\ \A i \in JobIds : i # j => jobs'[i] = jobs[i] /\ runs'[i] = runs[i]
            /\ jobs'[j].status = "pending" /\ jobs'[j].attempts = 0 /\ runs'[j] = 0
        BY <2>10 DEF Requeue, MayRequeue, TypeOK, Job
      <3>2. \A i \in JobIds : RowCounts(i)'
        BY <3>1 DEF BudgetInv, RowCounts
      <3>3. ASSUME NEW q \in Procs, NEW c \in candidates'[q]
            PROVE  CandidateCounts(c)'
        <4>1. c.job \in JobIds /\ CandidateCounts(c)
          BY <3>1 DEF TypeOK, Claim, BudgetInv
        <4> QED
          BY <3>1, <4>1 DEF CandidateCounts
      <3>4. \A q \in Procs : \A c \in claimed[q] \union tasks[q] : c.job \in JobIds /\ c.job # j
        BY <3>1 DEF ExclusiveClaim, Holds, TypeOK, Claim, Task
      <3> QED
        BY <3>1, <3>2, <3>3, <3>4 DEF BudgetInv, ClaimCounts, TaskCounts
    <2>11. ASSUME NEW p \in Procs, ClaimFails(p) \/ DrainGraceExpires(p) \/ Crash(p)
                                   \/ (\E k \in tasks[p] : RecordLost(p, k))
           PROVE  BudgetInv'
      BY <2>11, BudgetKept DEF ClaimFails, DrainGraceExpires, Crash, RecordLost, TypeOK
    <2>12. ASSUME NEW p \in Procs, FetchUnprocessed(p) \/ FanOutFails(p)
                                   \/ Shutdown(p) \/ Drained(p) \/ Restart(p)
           PROVE  BudgetInv'
      BY <2>12, BudgetKept DEF FetchUnprocessed, FanOutFails, Shutdown, Drained, Restart
    <2>13. CASE (\E t \in Targets : ToggleSubscription(t)) \/ UNCHANGED vars
      BY <2>13, BudgetKept DEF ToggleSubscription, vars
    <2> QED
      BY <2>1, <2>2, <2>3, <2>4, <2>5, <2>6, <2>7, <2>8, <2>9, <2>10, <2>11, <2>12, <2>13
         DEF Next, Dispatch, Poll, Work, Fault
  <1>3. BudgetInv => RetryBudget
    BY DEF BudgetInv, RowCounts, RetryBudget
  <1> QED
    BY <1>1, <1>2, <1>3, TypeCorrect, ExclusiveClaims, PTL DEF Spec
=============================================================================
