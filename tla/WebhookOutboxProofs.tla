------------------------- MODULE WebhookOutboxProofs -------------------------
(***************************************************************************)
(* Theorems about webhook deliveries, for any number of deliveries, jobs   *)
(* and workers, any lease length and any bounds.  What JobQueue's proofs   *)
(* show of the queue is used through the instance QP: without              *)
(* recover_stuck_jobs.py --force, which is no action of WebhookOutbox.     *)
(***************************************************************************)
EXTENDS WebhookOutbox, FiniteSetTheorems, WellFoundedInduction, TLAPS

QP == INSTANCE JobQueueProofs WITH Forceable <- FALSE

-----------------------------------------------------------------------------
(***************************************************************************)
(* The queue inside.  Queue and QP are instances of the same module, so    *)
(* that what either says of the same variables is the same.                *)
(***************************************************************************)

\* What QP's lemmas ask of the constants.
LEMMA QPConstants ==
  /\ NoJob \notin Jobs /\ NoWorker \notin Workers
  /\ Lease \in Nat \ {0} /\ MaxAttempts \in Nat \ {0}
  /\ MaxDelay \in Nat /\ MaxFaults \in Nat
  /\ Punctual \in BOOLEAN /\ FALSE \in BOOLEAN
  BY QueueConstantsOK DEF Queue!ConstantsOK

\* The types ...
LEMMA SameTypes == QP!TypeOK <=> Queue!TypeOK
  BY DEF QP!TypeOK, QP!Row, QP!Agent, QP!Status, QP!Phase, QP!Terminal, QP!Lapsed, QP!Unset,
         Queue!TypeOK, Queue!Row, Queue!Agent, Queue!Status, Queue!Phase, Queue!Terminal,
         Queue!Lapsed, Queue!Unset

\* ... and who holds a job.
LEMMA SameState ==
  /\ QP!TypeOK <=> Queue!TypeOK
  /\ \A w \in Workers, j \in Jobs : QP!Holds(w, j) <=> Queue!Holds(w, j)
  BY SameTypes DEF QP!Holds, Queue!Holds

\* The steps that concern one worker and no job, or none.
LEMMA SameSteps ==
  ASSUME NEW w \in Workers
  PROVE  /\ Queue!ReapBeforePoll(w) <=> QP!ReapBeforePoll(w)
         /\ Queue!EmptyPoll(w) <=> QP!EmptyPoll(w)
         /\ Queue!Kill(w) <=> QP!Kill(w)
         /\ Queue!Escape(w) <=> QP!Escape(w)
         /\ Queue!Restart(w) <=> QP!Restart(w)
<1>1. Queue!ReapBeforePoll(w) <=> QP!ReapBeforePoll(w)
  BY DEF Queue!ReapBeforePoll, Queue!Reaped, Queue!Stale, Queue!Idle, Queue!Reset, Queue!Lapsed,
         QP!ReapBeforePoll, QP!Reaped, QP!Stale, QP!Idle, QP!Reset, QP!Lapsed
<1>2. Queue!EmptyPoll(w) <=> QP!EmptyPoll(w)
  BY DEF Queue!EmptyPoll, Queue!Due, Queue!Idle, QP!EmptyPoll, QP!Due, QP!Idle
<1>3. Queue!Kill(w) <=> QP!Kill(w)
  BY DEF Queue!Kill, Queue!Drop, Queue!Idle, QP!Kill, QP!Drop, QP!Idle
<1>4. Queue!Escape(w) <=> QP!Escape(w)
  BY DEF Queue!Escape, Queue!Drop, Queue!Idle, QP!Escape, QP!Drop, QP!Idle
<1>5. Queue!Restart(w) <=> QP!Restart(w)
  BY DEF Queue!Restart, Queue!Idle, QP!Restart, QP!Idle
<1> QED
  BY <1>1, <1>2, <1>3, <1>4, <1>5

\* The reaper's route and the clock.
LEMMA SameAround == (Queue!ReapRoute <=> QP!ReapRoute) /\ (Queue!Tick <=> QP!Tick)
<1>1. Queue!ReapRoute <=> QP!ReapRoute
  BY DEF Queue!ReapRoute, Queue!Reaped, Queue!Stale, Queue!Reset, Queue!Lapsed,
         QP!ReapRoute, QP!Reaped, QP!Stale, QP!Reset, QP!Lapsed
<1>2. Queue!Tick <=> QP!Tick
  BY DEF Queue!Tick, Queue!Holds, Queue!Lapsed, QP!Tick, QP!Holds, QP!Lapsed
<1> QED
  BY <1>1, <1>2

\* The steps of requests on a job.
LEMMA SameRequests ==
  ASSUME NEW j \in Jobs
  PROVE  /\ \A t : Queue!Enqueue(j, t) <=> QP!Enqueue(j, t)
         /\ Queue!Cancel(j) <=> QP!Cancel(j)
  BY DEF Queue!Enqueue, Queue!Cancel, Queue!Stale, Queue!Reset, Queue!Lapsed,
         QP!Enqueue, QP!Cancel, QP!Stale, QP!Reset, QP!Lapsed

\* The steps of a worker on a job.
LEMMA SameWork ==
  ASSUME NEW w \in Workers, NEW j \in Jobs
  PROVE  /\ Queue!ClaimSelect(w, j) <=> QP!ClaimSelect(w, j)
         /\ Queue!ClaimLost(w, j) <=> QP!ClaimLost(w, j)
         /\ Queue!Claim(w, j) <=> QP!Claim(w, j)
         /\ Queue!Fetch(w, j) <=> QP!Fetch(w, j)
         /\ Queue!Heartbeat(w, j) <=> QP!Heartbeat(w, j)
         /\ Queue!Complete(w, j) <=> QP!Complete(w, j)
         /\ Queue!Fail(w, j) <=> QP!Fail(w, j)
         /\ Queue!Requeue(w, j) <=> QP!Requeue(w, j)
<1>1. Queue!ClaimSelect(w, j) <=> QP!ClaimSelect(w, j)
  BY DEF Queue!ClaimSelect, Queue!Due, QP!ClaimSelect, QP!Due
<1>2. Queue!ClaimLost(w, j) <=> QP!ClaimLost(w, j)
  BY DEF Queue!ClaimLost, Queue!Idle, QP!ClaimLost, QP!Idle
<1>3. Queue!Claim(w, j) <=> QP!Claim(w, j)
  BY DEF Queue!Claim, Queue!Granted, QP!Claim, QP!Granted
<1>4. Queue!Fetch(w, j) <=> QP!Fetch(w, j)
  BY DEF Queue!Fetch, Queue!Holds, Queue!Idle, QP!Fetch, QP!Holds, QP!Idle
<1>5. Queue!Heartbeat(w, j) <=> QP!Heartbeat(w, j)
  BY DEF Queue!Heartbeat, Queue!Holds, Queue!LeaseLive, QP!Heartbeat, QP!Holds, QP!LeaseLive
<1>6. \A s : Queue!Finish(w, j, s) <=> QP!Finish(w, j, s)
  BY DEF Queue!Finish, Queue!Holds, Queue!Ended, Queue!Reset, Queue!Lapsed, Queue!Unset, Queue!Idle,
         QP!Finish, QP!Holds, QP!Ended, QP!Reset, QP!Lapsed, QP!Unset, QP!Idle
<1>7. Queue!Complete(w, j) <=> QP!Complete(w, j)
  BY <1>6 DEF Queue!Complete, QP!Complete
<1>8. Queue!Fail(w, j) <=> QP!Fail(w, j)
  BY <1>6 DEF Queue!Fail, QP!Fail
<1>9. Queue!Requeue(w, j) <=> QP!Requeue(w, j)
  BY <1>6 DEF Queue!Requeue, QP!Requeue
<1> QED
  BY <1>1, <1>2, <1>3, <1>4, <1>5, <1>7, <1>8, <1>9

\* The UPDATE of a queued job's run_after that a retry finds (_schedule_delivery_retry).
Delay(w) ==
  /\ call[w].found # NoJob
  /\ jobs' = [jobs EXCEPT ![call[w].found].delay =
                IF jobs[call[w].found].status = "gone" THEN @ ELSE call[w].runAt]
  /\ UNCHANGED <<agent, arrivals, faults, retries, target>>

\* Every step is one of the queue, or leaves it alone, but for an error and the
\* two writes of webhooks.py to rows of jobs.
LEMMA QueueStep ==
  ASSUME TypeOK, [Next]_vars, ~ \E w \in Workers : Raise(w),
         ~ \E d \in Deliveries : Replay(d) /\ ReuseJob(d),
         ~ \E w \in Workers : ScheduleWrite(w) /\ Delay(w)
  PROVE  [QP!Next]_(QP!vars)
<1> USE QPConstants
<1>1. CASE UNCHANGED qvars
  BY <1>1 DEF qvars, QP!vars
<1>2. ASSUME NEW w \in Workers,
             \/ QP!ReapBeforePoll(w) \/ QP!EmptyPoll(w)
             \/ \E j \in Jobs :
                  \/ QP!ClaimSelect(w, j) \/ QP!ClaimLost(w, j) \/ QP!Claim(w, j)
                  \/ QP!Fetch(w, j) \/ QP!Heartbeat(w, j)
                  \/ QP!Complete(w, j) \/ QP!Fail(w, j) \/ QP!Requeue(w, j)
      PROVE  QP!Next
  BY <1>2 DEF QP!Next, QP!Run
<1>3. ASSUME NEW j \in Jobs, NEW t \in 0 .. Backoff, Queue!Enqueue(j, t) PROVE QP!Next
  <2>1. t \in QP!Unset .. MaxDelay
    BY OutboxConstantsOK DEF QP!Unset
  <2> QED
    BY <1>3, <2>1, SameRequests DEF QP!Next
<1>4. ASSUME NEW d \in Deliveries, Replay(d) \/ \E j \in Jobs : RecordEvent(d, j) PROVE QP!Next
  <2>1. PICK j \in Jobs : Queue!Enqueue(j, 0)
    BY <1>4 DEF Replay, ReuseOrAddJob, RecordEvent, NewJob
  <2>2. 0 \in 0 .. Backoff
    BY OutboxConstantsOK
  <2> QED
    BY <1>3, <2>1, <2>2
<1>5. ASSUME NEW w \in Workers, ScheduleWrite(w) PROVE QP!Next
  <2>1. PICK j \in Jobs : Queue!Enqueue(j, call[w].runAt)
    BY <1>5 DEF ScheduleWrite, Delay, RetryJob, NewJob
  <2>2. call[w].runAt \in 0 .. Backoff
    BY DEF TypeOK, Call
  <2> QED
    BY <1>3, <2>1, <2>2
<1>6. ASSUME NEW w \in Workers, Poll(w) PROVE QP!Next
  BY <1>2, <1>6, SameSteps, SameWork DEF Poll
<1>7. ASSUME NEW w \in Workers, End(w) PROVE QP!Next
  BY <1>2, <1>7, SameWork DEF End
<1>8. ASSUME NEW w \in Workers, Kill(w) \/ Restart(w) PROVE QP!Next
  BY <1>8, SameSteps DEF Kill, Restart, QP!Next
<1>9. CASE Operator \/ Tick
  BY <1>9, SameAround, SameRequests DEF Operator, Tick, QP!Next
<1> QED
  BY <1>1, <1>4, <1>5, <1>6, <1>7, <1>8, <1>9
  DEF Next, DeleteWebhook, Run, Look, Send, MarkSucceeded, MarkFailed, ScheduleRead, vars, QP!vars

\* An error that the queue does not see is counted, and that is all.
LEMMA FaultOnly ==
  ASSUME QP!TypeOK, faults < MaxFaults, faults' = faults + 1,
         UNCHANGED <<jobs, agent, arrivals, retries>>
  PROVE  QP!TypeOK' /\ (QP!OwnInv => QP!OwnInv')
<1>1. QP!TypeOK'
  BY QPConstants DEF QP!TypeOK
<1>2. QP!OwnInv => QP!OwnInv'
  BY DEF QP!OwnInv, QP!IdleHoldsNothing, QP!OneWorkerPerJob, QP!ClaimIsLatest, QP!LeaseMeansRunning,
         QP!Holds, QP!LeaseLive, QP!Claimant
<1> QED
  BY <1>1, <1>2

\* What becomes of a row that is cancelled, put back or deleted.
LEMMA ResetRow ==
  ASSUME NEW row \in QP!Row, NEW s \in QP!Status
  PROVE  /\ Queue!Reset(row, s) \in QP!Row
         /\ Queue!Reset(row, s).status = s
         /\ Queue!Reset(row, s).lease < 0
         /\ Queue!Reset(row, s).delay = row.delay
<1>1. Queue!Reset(row, s) = QP!Reset(row, s)
  BY DEF Queue!Reset, Queue!Lapsed, QP!Reset, QP!Lapsed
<1>2. QP!Reset(row, s) \in QP!Row
  BY QPConstants, QP!ResetType
<1>3. QP!Reset(row, s).status = s /\ QP!Reset(row, s).lease = -1 /\ QP!Reset(row, s).delay = row.delay
  BY DEF QP!Reset, QP!Row, QP!Lapsed
<1> QED
  BY <1>1, <1>2, <1>3

\* A replay touches the delivery's queued jobs: it keeps one, due and fresh, and
\* deletes the others.
LEMMA ReusedRows ==
  ASSUME QP!TypeOK, NEW d \in Deliveries, ReuseJob(d)
  PROVE  /\ jobs' \in [Jobs -> QP!Row]
         /\ \A j \in Jobs :
              \/ jobs'[j] = jobs[j]
              \/ /\ target[j] = d /\ jobs[j].status = "queued"
                 /\ \/ /\ j # Oldest(JobsOf(d, "queued"))
                       /\ jobs'[j].status = "gone" /\ jobs'[j].lease < 0
                    \/ /\ j = Oldest(JobsOf(d, "queued"))
                       /\ jobs'[j].status = "queued" /\ jobs'[j].lease = jobs[j].lease
<1>1. jobs \in [Jobs -> QP!Row] /\ "gone" \in QP!Status
  BY DEF QP!TypeOK, QP!Status
<1>2. \A j \in Jobs : /\ Queue!Reset(jobs[j], "gone") \in QP!Row
                      /\ Queue!Reset(jobs[j], "gone").status = "gone"
                      /\ Queue!Reset(jobs[j], "gone").lease < 0
  BY <1>1, ResetRow
<1>3. 0 \in QP!Unset .. MaxDelay
  BY QPConstants DEF QP!Unset
<1>4. ASSUME NEW j \in Jobs
      PROVE  /\ [jobs[j] EXCEPT !.attempts = 0, !.delay = 0] \in QP!Row
             /\ [jobs[j] EXCEPT !.attempts = 0, !.delay = 0].status = jobs[j].status
             /\ [jobs[j] EXCEPT !.attempts = 0, !.delay = 0].lease = jobs[j].lease
  BY <1>1, <1>3 DEF QP!Row
<1>5. ASSUME NEW j \in Jobs
      PROVE  jobs'[j] = IF j \notin JobsOf(d, "queued") THEN jobs[j]
                        ELSE IF j = Oldest(JobsOf(d, "queued"))
                          THEN [jobs[j] EXCEPT !.attempts = 0, !.delay = 0]
                        ELSE Queue!Reset(jobs[j], "gone")
  BY DEF ReuseJob
<1>6. jobs' = [j \in Jobs |-> jobs'[j]]
  BY DEF ReuseJob
<1>7. \A j \in Jobs : jobs'[j] \in QP!Row
  BY <1>1, <1>2, <1>4, <1>5
<1>8. jobs' \in [Jobs -> QP!Row]
  BY <1>6, <1>7
<1>9. \A j \in Jobs : j \in JobsOf(d, "queued") <=> target[j] = d /\ jobs[j].status = "queued"
  BY DEF JobsOf
<1>10. ASSUME NEW j \in Jobs, j \in JobsOf(d, "queued")
       PROVE  \/ /\ j # Oldest(JobsOf(d, "queued"))
                 /\ jobs'[j].status = "gone" /\ jobs'[j].lease < 0
              \/ /\ j = Oldest(JobsOf(d, "queued"))
                 /\ jobs'[j].status = "queued" /\ jobs'[j].lease = jobs[j].lease
  BY <1>2, <1>4, <1>5, <1>9, <1>10
<1> QED
  BY <1>5, <1>8, <1>9, <1>10

\* A retry moves one row's run_after, and nothing else.
LEMMA DelayedRows ==
  ASSUME TypeOK, QP!TypeOK, NEW w \in Workers, Delay(w)
  PROVE  /\ jobs' \in [Jobs -> QP!Row]
         /\ \A j \in Jobs : /\ jobs'[j].status = jobs[j].status
                            /\ jobs'[j].lease = jobs[j].lease
                            /\ jobs'[j].attempts = jobs[j].attempts
                            /\ jobs'[j].worker = jobs[j].worker
                            /\ j # call[w].found => jobs'[j] = jobs[j]
<1>1. jobs \in [Jobs -> QP!Row] /\ call[w].found \in Jobs
  BY DEF QP!TypeOK, TypeOK, Call, Delay
<1>2. call[w].runAt \in QP!Unset .. MaxDelay
  BY OutboxConstantsOK, QPConstants DEF TypeOK, Call, QP!Unset
<1>3. ASSUME NEW t \in QP!Unset .. MaxDelay, NEW row \in QP!Row
      PROVE  /\ [row EXCEPT !.delay = t] \in QP!Row
             /\ [row EXCEPT !.delay = t].status = row.status
             /\ [row EXCEPT !.delay = t].lease = row.lease
             /\ [row EXCEPT !.delay = t].attempts = row.attempts
             /\ [row EXCEPT !.delay = t].worker = row.worker
  BY DEF QP!Row
<1>4. PICK t \in QP!Unset .. MaxDelay :
        jobs' = [jobs EXCEPT ![call[w].found] = [jobs[call[w].found] EXCEPT !.delay = t]]
  <2>1. jobs[call[w].found].delay \in QP!Unset .. MaxDelay
    BY <1>1 DEF QP!Row
  <2> QED
    BY <1>2, <2>1 DEF Delay
<1> QED
  BY <1>1, <1>3, <1>4

\* The queue's types and, with no worker that outlives its lease, its invariant:
\* a replay writes no row that a worker holds, and a retry no field of it but one.
LEMMA NextQueue ==
  ASSUME TypeOK, [Next]_vars
  PROVE  QP!TypeOK' /\ (Punctual /\ QP!OwnInv => QP!OwnInv')
<1>0. QP!TypeOK
  BY SameState DEF TypeOK
<1>1. ASSUME NEW w \in Workers, Raise(w) PROVE QP!TypeOK' /\ (QP!OwnInv => QP!OwnInv')
  BY <1>0, <1>1, FaultOnly DEF Raise
<1>2. ASSUME [QP!Next]_(QP!vars) PROVE QP!TypeOK' /\ (Punctual /\ QP!OwnInv => QP!OwnInv')
  BY <1>0, <1>2, QPConstants, QP!NextTypeOK, QP!NextOwnInv
<1>3. ASSUME NEW d \in Deliveries, ReuseJob(d) PROVE QP!TypeOK' /\ (QP!OwnInv => QP!OwnInv')
  <2>1. QP!TypeOK'
    BY <1>0, <1>3, ReusedRows DEF ReuseJob, QP!TypeOK
  <2>2. ASSUME QP!OwnInv PROVE QP!OwnInv'
    <3>1. agent' = agent
      BY <1>3 DEF ReuseJob
    <3>2. \A v \in Workers, j \in Jobs : QP!Holds(v, j) => jobs'[j] = jobs[j]
      BY <1>0, <1>3, <2>2, ReusedRows DEF QP!OwnInv, QP!OneWorkerPerJob, QP!LeaseLive
    <3>3. \A j \in Jobs : jobs'[j] = jobs[j] \/ ~(jobs'[j].lease >= 0)
      <4>1. ASSUME NEW j \in Jobs, jobs[j].status = "queued" PROVE ~(jobs[j].lease >= 0)
        BY <2>2, <4>1 DEF QP!OwnInv, QP!LeaseMeansRunning
      <4>2. ASSUME NEW j \in Jobs, jobs'[j].lease < 0 PROVE ~(jobs'[j].lease >= 0)
        BY <2>1, <4>2, QPConstants DEF QP!TypeOK, QP!Row, QP!Lapsed
      <4> QED
        BY <1>0, <1>3, <4>1, <4>2, ReusedRows
    <3>4. QP!OneWorkerPerJob'
      BY <2>2, <3>1, <3>2 DEF QP!OwnInv, QP!OneWorkerPerJob, QP!Holds, QP!LeaseLive
    <3>5. QP!ClaimIsLatest'
      BY <2>2, <3>1, <3>2 DEF QP!OwnInv, QP!ClaimIsLatest, QP!Holds, QP!Claimant
    <3>6. QP!LeaseMeansRunning'
      BY <2>2, <3>3 DEF QP!OwnInv, QP!LeaseMeansRunning
    <3>7. QP!IdleHoldsNothing'
      BY <2>2, <3>1 DEF QP!OwnInv, QP!IdleHoldsNothing
    <3> QED
      BY <3>4, <3>5, <3>6, <3>7 DEF QP!OwnInv
  <2> QED
    BY <2>1, <2>2
<1>4. ASSUME NEW w \in Workers, Delay(w) PROVE QP!TypeOK' /\ (QP!OwnInv => QP!OwnInv')
  <2>1. QP!TypeOK'
    BY <1>0, <1>4, DelayedRows DEF Delay, QP!TypeOK
  <2>2. QP!OwnInv => QP!OwnInv'
    <3>1. agent' = agent
      BY <1>4 DEF Delay
    <3> QED
      BY <1>0, <1>4, <3>1, DelayedRows
      DEF QP!OwnInv, QP!IdleHoldsNothing, QP!OneWorkerPerJob, QP!ClaimIsLatest,
          QP!LeaseMeansRunning, QP!Holds, QP!LeaseLive, QP!Claimant
  <2> QED
    BY <2>1, <2>2
<1> QED
  BY <1>1, <1>2, <1>3, <1>4, QueueStep

-----------------------------------------------------------------------------
(***************************************************************************)
(* What jobs, workers and deliveries always know of each other, punctual   *)
(* or not.                                                                 *)
(***************************************************************************)

\* Every job names a delivery.
JobsNamed == \A j \in Jobs : jobs[j].status # "absent" => target[j] \in Deliveries

\* A worker that is past the SELECT of its claim has a job, which was inserted.
WorkersNamed ==
  \A w \in Workers :
    IF agent[w].pc \in {"loop", "poll", "down"}
      THEN agent[w].job = NoJob
      ELSE agent[w].job \in Jobs /\ jobs[agent[w].job].status # "absent"

\* Only a worker that works on a job is inside deliver_delivery.
CallsAreWork == \A w \in Workers : agent[w].pc # "working" => call[w] = Off

\* A delivery that is still to be made has a try left.
TriesLeft ==
  \A d \in Deliveries :
    /\ deliveries[d].status = "absent" => deliveries[d].attempts = 0
    /\ deliveries[d].status = "queued" => deliveries[d].attempts < MaxTries

Bound == JobsNamed /\ WorkersNamed /\ CallsAreWork /\ TriesLeft

-----------------------------------------------------------------------------
(***************************************************************************)
(* The steps of the queue and of workers on it, but for the clock.         *)
(***************************************************************************)

\* What such a step makes of a row: nothing but, perhaps, a longer lease; a claim,
\* once it is selected; a reaping or a cancellation; an ending.
RowMoves(j) ==
  \/ /\ jobs'[j].status = jobs[j].status /\ jobs'[j].delay = jobs[j].delay
     /\ (jobs'[j].lease = jobs[j].lease \/ jobs'[j].lease = Lease)
  \/ /\ jobs[j].status = "queued" /\ jobs'[j].status = "running"
     /\ \E w \in Workers : agent[w].pc = "selected" /\ agent[w].job = j
  \/ jobs[j].status = "running" /\ jobs[j].lease < 0 /\ jobs'[j].status \in {"queued", "cancelled"}
  \/ jobs[j].status = "queued" /\ jobs'[j].status = "cancelled"
  \/ \E w \in Workers :
       /\ Queue!Holds(w, j)
       /\ \/ call[w].stage = "raised" /\ jobs'[j].status \in {"queued", "failed"}
          \/ call[w].stage = "returned" /\ jobs'[j].status = "done"

\* Such a step inserts no row and deletes none, and makes nobody wait.
RowSteps(j) ==
  /\ RowMoves(j)
  /\ (jobs'[j].delay = jobs[j].delay \/ jobs'[j].delay <= 0)
  /\ jobs[j].status # "absent" => jobs'[j].status # "absent"

\* A worker that has just taken a job is not yet inside the handler.
Takes ==
  \A w \in Workers, j \in Jobs :
    Queue!Holds(w, j)' => \/ Queue!Holds(w, j) /\ call'[w] = call[w]
                          \/ jobs[j].status = "queued" /\ call'[w] = Off

\* A worker lets go of its job at its end, when it is killed, which may cut a retry
\* short, or because the row is gone.
LetsGo ==
  \A w \in Workers, j \in Jobs :
    Queue!Holds(w, j) =>
      \/ Queue!Holds(w, j)' /\ call'[w] = call[w]
      \/ call[w].stage = "returned" /\ jobs'[j].status = "done"
      \/ call[w].stage = "raised"
      \/ /\ call[w].stage \in KillStages /\ faults' = faults + 1
         /\ CutsShort(w, jobs[j].lease + 1)
      \/ jobs[j].status = "gone"

\* A worker selects a job that is due.
Selects ==
  \A w \in Workers :
    agent'[w].pc = "selected" => \/ agent'[w] = agent[w]
                                 \/ agent'[w].job \in Jobs /\ jobs[agent'[w].job].delay <= 0

Moves ==
  /\ \A j \in Jobs : RowSteps(j)
  /\ Takes /\ LetsGo /\ Selects
  /\ UNCHANGED <<deliveries, target, replays, tries>>
  /\ cut \subseteq cut'
  /\ faults' \in {faults, faults + 1}

\* A worker that keeps its job, and its locals with it, or has none before and after.
LEMMA WorkerStays ==
  ASSUME NEW w \in Workers, WorkersNamed, CallsAreWork, NoJob \notin Jobs,
         \A v \in Workers \ {w} : agent'[v] = agent[v] /\ call'[v] = call[v],
         call'[w] = call[w],
         \A j \in Jobs : RowSteps(j),
         \/ /\ agent[w].pc \in {"loop", "poll", "selected"} /\ agent'[w].pc \in {"loop", "poll"}
            /\ agent'[w].job = NoJob
         \/ /\ agent[w].pc = "poll" /\ agent'[w].pc = "selected"
            /\ agent'[w].job \in Jobs /\ jobs[agent'[w].job].status # "absent"
            /\ jobs[agent'[w].job].delay <= 0
         \/ /\ agent[w].pc = "selected" /\ agent'[w].pc = "claimed"
            /\ agent'[w].job = agent[w].job /\ jobs[agent[w].job].status = "queued"
         \/ /\ agent[w].pc = "claimed" /\ agent'[w].pc = "fetched" /\ agent'[w].job = agent[w].job
         \/ /\ agent[w].pc = "fetched" /\ agent'[w].pc = "working" /\ agent'[w].job = agent[w].job
         \/ /\ agent[w].pc = "claimed" /\ agent'[w].pc = "loop" /\ agent'[w].job = NoJob
            /\ jobs[agent[w].job].status = "gone"
  PROVE  Takes /\ LetsGo /\ Selects /\ WorkersNamed' /\ CallsAreWork'
<1>1. WorkersNamed'
  BY DEF WorkersNamed, RowSteps
<1>2. CallsAreWork'
  BY DEF CallsAreWork
<1>3. Takes
  BY DEF Takes, Queue!Holds, WorkersNamed, CallsAreWork
<1>4. LetsGo
  <2>1. ASSUME NEW v \in Workers \ {w}, NEW j \in Jobs, Queue!Holds(v, j)
        PROVE  Queue!Holds(v, j)' /\ call'[v] = call[v]
    BY <2>1 DEF Queue!Holds
  <2>2. ASSUME NEW j \in Jobs, Queue!Holds(w, j)
        PROVE  (Queue!Holds(w, j)' /\ call'[w] = call[w]) \/ jobs[j].status = "gone"
    BY <2>2 DEF Queue!Holds, WorkersNamed
  <2> QED
    BY <2>1, <2>2 DEF LetsGo
<1>5. Selects
  BY DEF Selects
<1> QED
  BY <1>1, <1>2, <1>3, <1>4, <1>5

\* A worker that lets go.
LEMMA WorkerLeaves ==
  ASSUME NEW w \in Workers, WorkersNamed, CallsAreWork, NoJob \notin Jobs,
         \A v \in Workers \ {w} : agent'[v] = agent[v] /\ call'[v] = call[v],
         agent'[w].pc \in {"loop", "down"}, agent'[w].job = NoJob, call'[w] = Off,
         \A j \in Jobs : RowSteps(j),
         \/ call[w].stage = "returned" /\ jobs'[agent[w].job].status = "done"
         \/ call[w].stage = "raised"
         \/ /\ call[w].stage \in KillStages /\ faults' = faults + 1
            /\ CutsShort(w, jobs[agent[w].job].lease + 1)
         \/ jobs[agent[w].job].status = "gone"
         \/ agent[w].pc = "down"
  PROVE  Takes /\ LetsGo /\ Selects /\ WorkersNamed' /\ CallsAreWork'
<1>1. WorkersNamed'
  BY DEF WorkersNamed, RowSteps
<1>2. CallsAreWork'
  BY DEF CallsAreWork
<1>3. Takes
  BY DEF Takes, Queue!Holds
<1>4. LetsGo
  <2>1. ASSUME NEW v \in Workers \ {w}, NEW j \in Jobs, Queue!Holds(v, j)
        PROVE  Queue!Holds(v, j)' /\ call'[v] = call[v]
    BY <2>1 DEF Queue!Holds
  <2>2. ASSUME NEW j \in Jobs, Queue!Holds(w, j)
        PROVE  \/ call[w].stage = "returned" /\ jobs'[j].status = "done"
               \/ call[w].stage = "raised"
               \/ /\ call[w].stage \in KillStages /\ faults' = faults + 1
                  /\ CutsShort(w, jobs[j].lease + 1)
               \/ jobs[j].status = "gone"
    BY <2>2 DEF Queue!Holds, WorkersNamed
  <2> QED
    BY <2>1, <2>2 DEF LetsGo
<1>5. Selects
  BY DEF Selects
<1> QED
  BY <1>1, <1>2, <1>3, <1>4, <1>5

\* A reaper pass puts back what is running under no lease.
LEMMA ReapedRows ==
  ASSUME QP!TypeOK
  PROVE  \A j \in Jobs :
           \/ Queue!Reaped[j] = jobs[j]
           \/ /\ jobs[j].status = "running" /\ jobs[j].lease < 0
              /\ Queue!Reaped[j].status = "queued" /\ Queue!Reaped[j].delay = jobs[j].delay
<1> SUFFICES ASSUME NEW j \in Jobs
             PROVE  \/ Queue!Reaped[j] = jobs[j]
                    \/ /\ jobs[j].status = "running" /\ jobs[j].lease < 0
                       /\ Queue!Reaped[j].status = "queued" /\ Queue!Reaped[j].delay = jobs[j].delay
  OBVIOUS
<1>1. CASE Queue!Stale(j)
  BY <1>1, ResetRow DEF Queue!Reaped, Queue!Stale, QP!TypeOK, QP!Status
<1>2. CASE ~Queue!Stale(j)
  BY <1>2 DEF Queue!Reaped
<1> QED
  BY <1>1, <1>2

\* Polling for a job: the reaper, the claim, the heartbeat.
LEMMA PollMoves ==
  ASSUME QP!TypeOK, WorkersNamed, CallsAreWork, NEW w \in Workers, Poll(w)
  PROVE  Moves /\ WorkersNamed' /\ CallsAreWork'
<1> USE QPConstants
<1>1. UNCHANGED <<deliveries, target, call, replays, tries, cut>> /\ faults' = faults
  BY DEF Poll, ovars, history, Queue!ReapBeforePoll, Queue!EmptyPoll, Queue!ClaimSelect, Queue!ClaimLost,
         Queue!Claim, Queue!Fetch, Queue!Heartbeat
<1>2. CASE Queue!ReapBeforePoll(w)
  <2>1. /\ jobs' = Queue!Reaped
        /\ agent[w].pc = "loop" /\ agent'[w].pc = "poll" /\ agent'[w].job = NoJob
        /\ \A v \in Workers \ {w} : agent'[v] = agent[v]
    BY <1>2 DEF Queue!ReapBeforePoll, Queue!Idle, QP!TypeOK
  <2>2. \A j \in Jobs : RowSteps(j)
    BY <2>1, ReapedRows DEF RowSteps, RowMoves
  <2> QED
    BY <1>1, <2>1, <2>2, WorkerStays DEF Moves
<1>3. ASSUME jobs' = jobs,
             \/ Queue!EmptyPoll(w)
             \/ \E j \in Jobs : Queue!ClaimSelect(w, j) \/ Queue!ClaimLost(w, j) \/ Queue!Fetch(w, j)
      PROVE  Moves /\ WorkersNamed' /\ CallsAreWork'
  <2>1. \A j \in Jobs : RowSteps(j)
    BY <1>3 DEF RowSteps, RowMoves
  <2>2. \A v \in Workers \ {w} : agent'[v] = agent[v]
    BY <1>3
    DEF Queue!EmptyPoll, Queue!ClaimSelect, Queue!ClaimLost, Queue!Fetch, QP!TypeOK
  <2>3. CASE Queue!EmptyPoll(w)
    <3>1. agent[w].pc = "poll" /\ agent'[w].pc = "loop" /\ agent'[w].job = NoJob
      BY <2>3 DEF Queue!EmptyPoll, Queue!Idle, QP!TypeOK
    <3> QED
      BY <1>1, <2>1, <2>2, <3>1, WorkerStays DEF Moves
  <2>4. ASSUME NEW j \in Jobs, Queue!ClaimSelect(w, j)
        PROVE  Moves /\ WorkersNamed' /\ CallsAreWork'
    <3>1. /\ agent[w].pc = "poll" /\ agent'[w].pc = "selected" /\ agent'[w].job = j
          /\ jobs[j].status # "absent" /\ jobs[j].delay <= 0
      BY <2>4 DEF Queue!ClaimSelect, Queue!Due, QP!TypeOK, QP!Agent
    <3> QED
      BY <1>1, <2>1, <2>2, <3>1, WorkerStays DEF Moves
  <2>5. ASSUME NEW j \in Jobs, Queue!ClaimLost(w, j)
        PROVE  Moves /\ WorkersNamed' /\ CallsAreWork'
    <3>1. agent[w].pc = "selected" /\ agent'[w].pc = "loop" /\ agent'[w].job = NoJob
      BY <2>5 DEF Queue!ClaimLost, Queue!Idle, QP!TypeOK
    <3> QED
      BY <1>1, <2>1, <2>2, <3>1, WorkerStays DEF Moves
  <2>6. ASSUME NEW j \in Jobs, Queue!Fetch(w, j)
        PROVE  Moves /\ WorkersNamed' /\ CallsAreWork'
    <3>1. /\ agent[w].pc = "claimed" /\ agent[w].job = j
          /\ \/ agent'[w].pc = "fetched" /\ agent'[w].job = agent[w].job
             \/ agent'[w].pc = "loop" /\ agent'[w].job = NoJob /\ jobs[j].status = "gone"
      BY <2>6 DEF Queue!Fetch, Queue!Holds, Queue!Idle, QP!TypeOK, QP!Agent
    <3> QED
      BY <1>1, <2>1, <2>2, <3>1, WorkerStays DEF Moves
  <2> QED
    BY <1>3, <2>3, <2>4, <2>5, <2>6
<1>4. ASSUME NEW j \in Jobs, Queue!Claim(w, j) PROVE Moves /\ WorkersNamed' /\ CallsAreWork'
  <2>1. /\ jobs[j].status = "queued" /\ jobs'[j].status = "running"
        /\ \A k \in Jobs \ {j} : jobs'[k] = jobs[k]
        /\ agent[w].pc = "selected" /\ agent'[w].pc = "claimed"
        /\ agent[w].job = j /\ agent'[w].job = j
        /\ jobs'[j].delay = jobs[j].delay
        /\ \A v \in Workers \ {w} : agent'[v] = agent[v]
    BY <1>4 DEF Queue!Claim, Queue!Granted, QP!TypeOK, QP!Row
  <2>2. \A k \in Jobs : RowSteps(k)
    BY <2>1 DEF RowSteps, RowMoves
  <2> QED
    BY <1>1, <2>1, <2>2, WorkerStays DEF Moves
<1>5. ASSUME NEW j \in Jobs, Queue!Heartbeat(w, j) PROVE Moves /\ WorkersNamed' /\ CallsAreWork'
  <2>1. /\ jobs'[j].status = jobs[j].status /\ jobs'[j].delay = jobs[j].delay
        /\ (jobs'[j].lease = jobs[j].lease \/ jobs'[j].lease = Lease)
        /\ \A k \in Jobs \ {j} : jobs'[k] = jobs[k]
        /\ agent[w].pc = "fetched" /\ agent'[w].pc = "working" /\ agent'[w].job = agent[w].job
        /\ \A v \in Workers \ {w} : agent'[v] = agent[v]
    BY <1>5 DEF Queue!Heartbeat, Queue!Holds, QP!TypeOK, QP!Row, QP!Agent
  <2>2. \A k \in Jobs : RowSteps(k)
    BY <2>1 DEF RowSteps, RowMoves
  <2> QED
    BY <1>1, <2>1, <2>2, WorkerStays DEF Moves
<1>6. Queue!EmptyPoll(w) => jobs' = jobs
  BY DEF Queue!EmptyPoll
<1>7. \A j \in Jobs : Queue!ClaimSelect(w, j) \/ Queue!ClaimLost(w, j) \/ Queue!Fetch(w, j) => jobs' = jobs
  BY DEF Queue!ClaimSelect, Queue!ClaimLost, Queue!Fetch
<1> QED
  BY <1>2, <1>3, <1>4, <1>5, <1>6, <1>7 DEF Poll

\* The end of the handler, whichever it is.
LEMMA EndMoves ==
  ASSUME QP!TypeOK, call \in [Workers -> Call], WorkersNamed, CallsAreWork,
         NEW w \in Workers, End(w)
  PROVE  Moves /\ WorkersNamed' /\ CallsAreWork'
<1> USE QPConstants
<1>1. PICK j \in Jobs, s \in {"queued", "done", "failed"} :
        /\ Queue!Finish(w, j, s)
        /\ IF s = "done" THEN call[w].stage = "returned" ELSE call[w].stage = "raised"
  BY DEF End, Queue!Complete, Queue!Requeue, Queue!Fail
<1>2. /\ jobs' = [jobs EXCEPT ![j] = Queue!Ended(jobs[j], s)]
      /\ Queue!Holds(w, j) /\ faults' = faults
      /\ agent[w].pc = "working" /\ agent[w].job = j
      /\ agent'[w].pc = "loop" /\ agent'[w].job = NoJob
      /\ \A v \in Workers \ {w} : agent'[v] = agent[v]
  BY <1>1 DEF Queue!Finish, Queue!Holds, Queue!Idle, QP!TypeOK
<1>3. /\ \A k \in Jobs \ {j} : jobs'[k] = jobs[k]
      /\ \/ jobs'[j] = jobs[j] /\ jobs[j].status = "gone"
         \/ jobs'[j].status = s /\ (jobs'[j].delay = jobs[j].delay \/ jobs'[j].delay <= 0)
  <2>1. Queue!Ended(jobs[j], s) = QP!Ended(jobs[j], s)
    BY DEF Queue!Ended, Queue!Reset, Queue!Lapsed, Queue!Unset, QP!Ended, QP!Reset, QP!Lapsed, QP!Unset
  <2>2. IF jobs[j].status = "gone" THEN QP!Ended(jobs[j], s) = jobs[j]
        ELSE QP!Ended(jobs[j], s).status = s
    BY QP!EndedRow DEF QP!TypeOK
  <2>3. QP!Ended(jobs[j], s).delay = jobs[j].delay \/ QP!Ended(jobs[j], s).delay <= 0
    <3>1. jobs[j] \in QP!Row
      BY DEF QP!TypeOK
    <3>2. QP!Reset(jobs[j], s) \in [status : {s}, attempts : Nat, worker : Workers \cup {NoWorker},
                                    lease : {QP!Lapsed}, delay : {jobs[j].delay}, created : Nat]
      BY <3>1 DEF QP!Reset, QP!Row
    <3>3. [QP!Reset(jobs[j], s) EXCEPT !.delay = QP!Unset].delay = QP!Unset
      BY <3>2
    <3>4. [jobs[j] EXCEPT !.status = s, !.lease = QP!Lapsed].delay = jobs[j].delay
      BY <3>1 DEF QP!Row
    <3> QED
      BY <3>3, <3>4 DEF QP!Ended, QP!Unset
  <2> QED
    BY <1>2, <2>1, <2>2, <2>3 DEF QP!TypeOK
<1>4. jobs[j].status # "absent"
  BY <1>2 DEF WorkersNamed
<1>5. \A k \in Jobs : RowSteps(k)
  <2>1. RowMoves(j)
    BY <1>1, <1>2, <1>3 DEF RowMoves
  <2> QED
    BY <1>3, <1>4, <2>1 DEF RowSteps, RowMoves
<1>6. \/ call[w].stage = "returned" /\ jobs'[j].status = "done"
      \/ call[w].stage = "raised"
      \/ jobs[j].status = "gone"
  BY <1>1, <1>3
<1> QED
  BY <1>2, <1>5, <1>6, WorkerLeaves DEF End, Leave, Moves

\* A kill, an error that escapes, the operator, a restart.
LEMMA OutsideMoves ==
  ASSUME QP!TypeOK, call \in [Workers -> Call], WorkersNamed, CallsAreWork,
         Operator \/ \E w \in Workers : Kill(w) \/ Restart(w)
  PROVE  Moves /\ WorkersNamed' /\ CallsAreWork'
<1> USE QPConstants
<1>1. ASSUME NEW w \in Workers, Kill(w) PROVE Moves /\ WorkersNamed' /\ CallsAreWork'
  <2>1. PICK p \in {"down", "loop"} : Queue!Drop(w, p)
    BY <1>1 DEF Kill, Queue!Kill, Queue!Escape
  <2>2. /\ jobs' = jobs /\ agent'[w].pc \in {"loop", "down"} /\ agent'[w].job = NoJob
        /\ \A v \in Workers \ {w} : agent'[v] = agent[v]
        /\ faults' = faults + 1 /\ call[w].stage \in KillStages
    BY <1>1, <2>1 DEF Kill, Queue!Drop, Queue!Idle, QP!TypeOK
  <2>3. cut \subseteq cut' /\ CutsShort(w, jobs[agent[w].job].lease + 1)
    BY <1>1 DEF Kill, CutsShort
  <2>4. \A j \in Jobs : RowSteps(j)
    BY <2>2 DEF RowSteps, RowMoves
  <2> QED
    BY <1>1, <2>2, <2>3, <2>4, WorkerLeaves DEF Kill, Leave, Moves
<1>2. ASSUME NEW w \in Workers, Restart(w) PROVE Moves /\ WorkersNamed' /\ CallsAreWork'
  <2>1. /\ jobs' = jobs /\ agent[w].pc = "down" /\ agent'[w].pc = "loop" /\ agent'[w].job = NoJob
        /\ \A v \in Workers \ {w} : agent'[v] = agent[v]
        /\ faults' = faults /\ UNCHANGED ovars
    BY <1>2 DEF Restart, Queue!Restart, Queue!Idle, QP!TypeOK
  <2>2. \A j \in Jobs : RowSteps(j)
    BY <2>1 DEF RowSteps, RowMoves
  <2>3. call'[w] = Off /\ call' = call
    BY <2>1 DEF CallsAreWork, ovars
  <2> QED
    BY <2>1, <2>2, <2>3, WorkerLeaves DEF Moves, ovars, history
<1>3. CASE Operator
  <2>1. UNCHANGED <<agent, faults, deliveries, target, call, replays, tries, cut>>
    BY <1>3 DEF Operator, ovars, history, Queue!ReapRoute, Queue!Cancel
  <2>2. \A j \in Jobs : RowSteps(j)
    <3>1. CASE Queue!ReapRoute
      BY <3>1, ReapedRows DEF Queue!ReapRoute, RowSteps, RowMoves
    <3>2. ASSUME NEW j \in Jobs, Queue!Cancel(j) PROVE \A k \in Jobs : RowSteps(k)
      <4>1. /\ jobs'[j].status = "cancelled" /\ jobs'[j].delay = jobs[j].delay
            /\ \A k \in Jobs \ {j} : jobs'[k] = jobs[k]
        BY <3>2, ResetRow DEF Queue!Cancel, QP!TypeOK, QP!Status, QP!Terminal
      <4>2. jobs[j].status = "queued" \/ (jobs[j].status = "running" /\ jobs[j].lease < 0)
        BY <3>2 DEF Queue!Cancel, Queue!Stale
      <4> QED
        BY <4>1, <4>2 DEF RowSteps, RowMoves
    <3> QED
      BY <1>3, <3>1, <3>2 DEF Operator
  <2>3. WorkersNamed'
    BY <2>1, <2>2 DEF WorkersNamed, RowSteps
  <2>4. Takes /\ LetsGo /\ Selects /\ CallsAreWork'
    BY <2>1 DEF Takes, LetsGo, Selects, Queue!Holds, CallsAreWork
  <2> QED
    BY <2>1, <2>2, <2>3, <2>4 DEF Moves
<1> QED
  BY <1>1, <1>2, <1>3

-----------------------------------------------------------------------------
(***************************************************************************)
(* Types.                                                                  *)
(***************************************************************************)

\* The oldest of some jobs is one of them, and none is older.
LEMMA OldestFound ==
  ASSUME QP!TypeOK, NEW S \in SUBSET Jobs, S # {}
  PROVE  Oldest(S) \in S /\ \A k \in S : jobs[Oldest(S)].created <= jobs[k].created
<1> DEFINE Ages == {jobs[j].created : j \in S}
           Below == {p \in Nat \X Nat : p[1] < p[2]}
<1>1. Ages \subseteq Nat /\ Ages # {}
  BY DEF QP!TypeOK, QP!Row
<1>2. PICK least \in Ages : \A n \in Ages : ~(<<n, least>> \in Below)
  <2>1. IsWellFoundedOn(Below, Nat)
    BY NatLessThanWellFounded DEF OpToRel
  <2> HIDE DEF Ages, Below
  <2> QED
    BY <1>1, <2>1, WFMin
<1>3. PICK j \in S : jobs[j].created = least
  BY <1>2
<1>4. ASSUME NEW k \in S PROVE jobs[j].created <= jobs[k].created
  <2>1. jobs[k].created \in Ages /\ jobs[k].created \in Nat /\ least \in Nat
    BY <1>1
  <2>2. ~(<<jobs[k].created, least>> \in Below)
    BY <1>2, <2>1
  <2>3. ~(jobs[k].created < least)
    BY <2>1, <2>2
  <2> QED
    BY <1>3, <2>1, <2>3
<1> QED
  BY <1>4 DEF Oldest

\* What a worker inside the handler works for.
LEMMA WorksFor ==
  ASSUME Bound, NEW w \in Workers, agent[w].pc = "working"
  PROVE  /\ agent[w].job \in Jobs /\ Queue!Holds(w, agent[w].job)
         /\ jobs[agent[w].job].status # "absent"
         /\ DeliveryOf(w) = target[agent[w].job] /\ DeliveryOf(w) \in Deliveries
  BY DEF Bound, WorkersNamed, JobsNamed, DeliveryOf, Queue!Holds

\* Mark writes a row of the table, or none.
LEMMA MarkType ==
  ASSUME TypeOK, NEW w \in Workers, NEW s \in {"queued", "succeeded", "dead"},
         NEW next \in 0 .. Backoff, Mark(w, s, next)
  PROVE  deliveries' \in [Deliveries -> Delivery]
<1>1. [status |-> s, attempts |-> call[w].try, next |-> next] \in Delivery
  BY DEF TypeOK, Call, Delivery
<1> QED
  BY <1>1 DEF Mark, TypeOK

\* Every delivery's row stays well-formed.
LEMMA DeliveriesType ==
  ASSUME TypeOK, [Next]_vars
  PROVE  deliveries' \in [Deliveries -> Delivery]
<1>1. 0 \in 0 .. Backoff /\ Backoff \in 0 .. Backoff /\ 0 \in 0 .. MaxTries
      /\ \A n \in 0 .. Backoff : Countdown(n) \in 0 .. Backoff
  BY OutboxConstantsOK, QPConstants DEF Countdown
<1>2. ASSUME NEW d \in Deliveries, DeleteWebhook(d) \/ Replay(d)
      PROVE  deliveries' \in [Deliveries -> Delivery]
  BY <1>1, <1>2 DEF DeleteWebhook, Replay, TypeOK, Delivery
<1>3. ASSUME NEW d \in Deliveries, NEW j \in Jobs, RecordEvent(d, j)
      PROVE  deliveries' \in [Deliveries -> Delivery]
  BY <1>3 DEF RecordEvent, TypeOK, Delivery
<1>4. CASE Tick
  <2>1. \A row \in Delivery : [row EXCEPT !.next = Countdown(@)] \in Delivery
    BY <1>1 DEF Delivery
  <2> QED
    BY <1>4, <2>1 DEF Tick, TypeOK
<1>5. ASSUME NEW w \in Workers, MarkSucceeded(w) \/ MarkFailed(w)
      PROVE  deliveries' \in [Deliveries -> Delivery]
  BY <1>1, <1>5, MarkType DEF MarkSucceeded, MarkFailed
<1> QED
  BY <1>2, <1>3, <1>4, <1>5
  DEF TypeOK, Next, Operator, Run, Poll, Look, Send, ScheduleRead, ScheduleWrite, End, Leave, Raise,
      Kill, Restart, vars, ovars

\* A job that is inserted names a delivery, and the others what they did.
LEMMA TargetType ==
  ASSUME TypeOK, Bound, [Next]_vars
  PROVE  /\ target' \in [Jobs -> Deliveries \cup {NoDelivery}]
         /\ \A j \in Jobs : target'[j] = target[j] \/ target'[j] \in Deliveries
<1>1. ASSUME NEW d \in Deliveries, NEW t, NEW j \in Jobs, NewJob(j, d, t)
      PROVE  /\ target' \in [Jobs -> Deliveries \cup {NoDelivery}]
             /\ \A k \in Jobs : target'[k] = target[k] \/ target'[k] \in Deliveries
  BY <1>1 DEF NewJob, TypeOK
<1>2. CASE target' = target
  BY <1>2 DEF TypeOK
<1>3. ASSUME NEW w \in Workers, ScheduleWrite(w)
      PROVE  target' = target \/ \E d \in Deliveries, j \in Jobs, t \in 0 .. Backoff : NewJob(j, d, t)
  <2>1. DeliveryOf(w) \in Deliveries /\ call[w].runAt \in 0 .. Backoff
    BY <1>3, WorksFor DEF ScheduleWrite, At, TypeOK, Call
  <2> QED
    BY <1>3, <2>1 DEF ScheduleWrite, RetryJob
<1> QED
  BY <1>1, <1>2, <1>3
  DEF Next, DeleteWebhook, Replay, ReuseOrAddJob, ReuseJob, RecordEvent, Operator, Tick, Run, Poll,
      Look, Send, MarkSucceeded, MarkFailed, ScheduleRead, End, Leave, Raise, Kill, Restart, vars, ovars

\* A worker's locals keep their types: a try that begins is one of MaxTries.
LEMMA CallType ==
  ASSUME TypeOK, Bound, [Next]_vars
  PROVE  call' \in [Workers -> Call]
<1>1. call \in [Workers -> Call]
  BY DEF TypeOK
<1>2. 0 \in 0 .. Backoff /\ Backoff \in 0 .. Backoff /\ 0 \in 0 .. MaxTries
      /\ \A n \in 0 .. Backoff : Countdown(n) \in 0 .. Backoff
  BY OutboxConstantsOK, QPConstants DEF Countdown
<1>3. Off \in Call
  BY <1>2 DEF Off, Call, Stage
<1>4. ASSUME NEW w \in Workers, NEW l \in Call, call' = [call EXCEPT ![w] = l]
      PROVE  call' \in [Workers -> Call]
  BY <1>1, <1>4
<1>5. ASSUME NEW w \in Workers, NEW s \in Stage, call' = [call EXCEPT ![w].stage = s]
      PROVE  call' \in [Workers -> Call]
  BY <1>1, <1>5 DEF Call
<1>6. ASSUME NEW w \in Workers, Look(w) PROVE call' \in [Workers -> Call]
  <2>1. CASE call' = [call EXCEPT ![w].stage = "returned"]
    BY <1>5, <2>1 DEF Stage
  <2>2. CASE /\ deliveries[DeliveryOf(w)].status = "queued"
             /\ call' = [call EXCEPT ![w].stage = "sending",
                                     ![w].try = deliveries[DeliveryOf(w)].attempts + 1]
    <3>1. deliveries[DeliveryOf(w)].attempts + 1 \in 0 .. MaxTries
      <4>1. DeliveryOf(w) \in Deliveries
        BY <1>6, WorksFor DEF Look, At
      <4> QED
        BY <2>2, <4>1, OutboxConstantsOK DEF Bound, TriesLeft, TypeOK, Delivery
    <3>2. call' = [call EXCEPT ![w] = [call[w] EXCEPT !.stage = "sending",
                                         !.try = deliveries[DeliveryOf(w)].attempts + 1]]
      BY <1>1, <2>2
    <3>3. [call[w] EXCEPT !.stage = "sending", !.try = deliveries[DeliveryOf(w)].attempts + 1] \in Call
      BY <1>1, <3>1 DEF Call, Stage
    <3> QED
      BY <1>4, <3>2, <3>3
  <2> QED
    BY <1>6, <2>1, <2>2 DEF Look
<1>7. ASSUME NEW w \in Workers, MarkFailed(w) PROVE call' \in [Workers -> Call]
  <2>1. CASE call' = [call EXCEPT ![w].stage = "returned"]
    BY <1>5, <2>1 DEF Stage
  <2>2. CASE call' = [call EXCEPT ![w].stage = "marked", ![w].runAt = Backoff]
    BY <1>1, <1>2, <2>2 DEF Call, Stage
  <2> QED
    BY <1>7, <2>1, <2>2 DEF MarkFailed
<1>8. ASSUME NEW w \in Workers, ScheduleRead(w) PROVE call' \in [Workers -> Call]
  <2> DEFINE pending == Pending(DeliveryOf(w))
             job     == Oldest(pending)
             t       == IF jobs[job].delay = Unset THEN call[w].runAt
                        ELSE Smaller(jobs[job].delay, call[w].runAt)
  <2>1. CASE pending = {}
    BY <1>5, <1>8, <2>1 DEF ScheduleRead, Stage
  <2>2. CASE pending # {}
    <3>1. job \in Jobs
      BY <2>2, OldestFound, SameState DEF Pending, JobsOf, TypeOK
    <3>2. jobs[job].delay \in QP!Unset .. MaxDelay /\ Unset = QP!Unset
      BY <3>1, SameState DEF TypeOK, QP!TypeOK, QP!Row, Unset, Queue!Unset, QP!Unset
    <3>3. t \in 0 .. Backoff
      BY <1>1, <3>2, QPConstants, OutboxConstantsOK DEF Smaller, Call, QP!Unset
    <3>4. call' = [call EXCEPT ![w] = [call[w] EXCEPT !.stage = "scheduling", !.found = job, !.runAt = t]]
      BY <1>1, <1>8, <2>2 DEF ScheduleRead
    <3> HIDE DEF job, t
    <3>5. [call[w] EXCEPT !.stage = "scheduling", !.found = job, !.runAt = t] \in Call
      BY <1>1, <3>1, <3>3 DEF Call, Stage
    <3> QED
      BY <1>4, <3>4, <3>5
  <2> QED
    BY <2>1, <2>2
<1>9. ASSUME NEW w \in Workers, ScheduleWrite(w) \/ Leave(w) PROVE call' \in [Workers -> Call]
  <2>1. [Off EXCEPT !.stage = "returned"] \in Call
    BY <1>3 DEF Call, Stage
  <2> QED
    BY <1>3, <1>4, <1>9, <2>1 DEF ScheduleWrite, Leave
<1>10. ASSUME NEW w \in Workers, Send(w) \/ MarkSucceeded(w) \/ Raise(w)
       PROVE  call' \in [Workers -> Call]
  <2>1. PICK s \in Stage : call' = [call EXCEPT ![w].stage = s]
    BY <1>10 DEF Send, MarkSucceeded, Raise, Stage
  <2> QED
    BY <1>5, <2>1
<1>11. CASE Tick
  <2>1. \A l \in Call : [l EXCEPT !.runAt = Countdown(@)] \in Call
    BY <1>2 DEF Call
  <2> QED
    BY <1>1, <1>11, <2>1 DEF Tick
<1> QED
  BY <1>1, <1>6, <1>7, <1>8, <1>9, <1>10, <1>11
  DEF Next, DeleteWebhook, Replay, RecordEvent, Operator, Run, Poll, End, Kill, Restart, vars, ovars

\* The type invariant, which asks the bound of a delivery's tries.
LEMMA NextTypeOK ==
  ASSUME TypeOK, Bound, [Next]_vars
  PROVE  TypeOK'
<1>1. Queue!TypeOK'
  <2>1. QP!TypeOK'
    BY NextQueue
  <2> QED
    BY <2>1, SameTypes, PTL
<1>2. replays' \in 0 .. MaxReplays /\ tries' \in [Deliveries -> Nat] /\ cut' \subseteq Deliveries
  <2>1. ASSUME NEW d \in Deliveries, Replay(d)
        PROVE  replays' \in 0 .. MaxReplays /\ tries' \in [Deliveries -> Nat] /\ cut' \subseteq Deliveries
    BY <2>1, OutboxConstantsOK DEF Replay, TypeOK
  <2>2. ASSUME NEW w \in Workers, Look(w)
        PROVE  replays' \in 0 .. MaxReplays /\ tries' \in [Deliveries -> Nat] /\ cut' \subseteq Deliveries
    BY <2>2 DEF Look, TypeOK, history
  <2>3. CASE UNCHANGED <<replays, tries>> /\ cut' \subseteq Deliveries
    BY <2>3 DEF TypeOK
  <2>4. CASE UNCHANGED <<replays, tries, cut>>
    BY <2>4 DEF TypeOK
  <2>5. ASSUME NEW w \in Workers, Raise(w) \/ Kill(w) PROVE cut' \subseteq Deliveries
    <3>1. agent[w].pc # "working" => call[w] = Off
      BY DEF Bound, CallsAreWork
    <3>2. call[w].stage \in {"marked", "scheduling"} => DeliveryOf(w) \in Deliveries
      BY <3>1, WorksFor DEF Off
    <3> QED
      BY <2>5, <3>2 DEF Raise, Kill, CutsShort, TypeOK
  <2> QED
    BY <2>1, <2>2, <2>3, <2>4, <2>5
    DEF Next, DeleteWebhook, RecordEvent, Operator, Tick, Run, Poll, Send, MarkSucceeded, MarkFailed,
        ScheduleRead, ScheduleWrite, End, Leave, Raise, Kill, Restart, vars, ovars, history
<1> QED
  BY <1>1, <1>2, DeliveriesType, TargetType, CallType DEF TypeOK

-----------------------------------------------------------------------------
(***************************************************************************)
(* The other steps: they move no worker.                                   *)
(***************************************************************************)

\* The steps of Moves.
QueueMoves ==
  \/ Operator
  \/ \E w \in Workers : Poll(w) \/ End(w) \/ Kill(w) \/ Restart(w)

\* An insert brings one row, due in t.
LEMMA InsertedRow ==
  ASSUME QP!TypeOK, target \in [Jobs -> Deliveries \cup {NoDelivery}],
         NEW d \in Deliveries, NEW j \in Jobs, NEW t, NewJob(j, d, t)
  PROVE  /\ UNCHANGED <<agent, faults>>
         /\ jobs[j].status = "absent"
         /\ jobs'[j].status = "queued" /\ jobs'[j].delay = t /\ target'[j] = d
         /\ jobs'[j].lease = jobs[j].lease
         /\ \A k \in Jobs \ {j} : jobs'[k] = jobs[k] /\ target'[k] = target[k]
  BY DEF NewJob, Queue!Enqueue, QP!TypeOK, QP!Row

\* The clock touches no status.
LEMMA TickedRows ==
  ASSUME QP!TypeOK, Tick
  PROVE  /\ UNCHANGED <<agent, faults, target>>
         /\ \A j \in Jobs :
              /\ jobs'[j].status = jobs[j].status
              /\ jobs'[j].delay = IF jobs[j].delay <= 0 THEN jobs[j].delay ELSE jobs[j].delay - 1
              /\ jobs'[j].lease = IF jobs[j].lease = -1 THEN -1 ELSE jobs[j].lease - 1
  BY DEF Tick, Queue!Tick, QP!TypeOK, QP!Row, Queue!Lapsed

\* What ScheduleWrite and Replay do to the queue.
LEMMA InsertOrUpdate ==
  ASSUME TypeOK, Bound
  PROVE  /\ \A w \in Workers : ScheduleWrite(w) =>
              \/ Delay(w)
              \/ call[w].found = NoJob /\ \E j \in Jobs : NewJob(j, DeliveryOf(w), call[w].runAt)
         /\ \A d \in Deliveries : Replay(d) => ReuseJob(d) \/ \E j \in Jobs : NewJob(j, d, 0)
  BY DEF ScheduleWrite, Delay, RetryJob, Replay, ReuseOrAddJob

\* A row that is not there yet comes with a delivery, and none ceases to be there.
LEMMA OtherRows ==
  ASSUME TypeOK, Bound, [Next]_vars, ~QueueMoves
  PROVE  /\ agent' = agent
         /\ \A j \in Jobs : /\ jobs[j].status # "absent" => jobs'[j].status # "absent"
                            /\ jobs'[j].status # "absent" =>
                                 jobs[j].status # "absent" \/ target'[j] \in Deliveries
<1>1. QP!TypeOK
  BY SameState DEF TypeOK
<1>2. target \in [Jobs -> Deliveries \cup {NoDelivery}]
  BY DEF TypeOK
<1> DEFINE Told == /\ agent' = agent
                   /\ \A j \in Jobs : /\ jobs[j].status # "absent" => jobs'[j].status # "absent"
                                      /\ jobs'[j].status # "absent" =>
                                           jobs[j].status # "absent" \/ target'[j] \in Deliveries
<1>3. ASSUME UNCHANGED <<jobs, agent>> PROVE Told
  BY <1>3
<1>4. CASE Tick
  BY <1>1, <1>4, TickedRows
<1>5. ASSUME NEW d \in Deliveries, NEW j \in Jobs, NEW t, NewJob(j, d, t) PROVE Told
  BY <1>1, <1>2, <1>5, InsertedRow
<1>6. ASSUME NEW d \in Deliveries, ReuseJob(d) PROVE Told
  BY <1>1, <1>6, ReusedRows DEF ReuseJob
<1>7. ASSUME NEW w \in Workers, Delay(w) PROVE Told
  BY <1>1, <1>7, DelayedRows DEF Delay
<1> HIDE DEF Told
<1>8. ASSUME NEW w \in Workers, ScheduleWrite(w) PROVE Told
  <2>1. DeliveryOf(w) \in Deliveries
    BY <1>8, WorksFor DEF ScheduleWrite, At
  <2> QED
    BY <1>5, <1>7, <1>8, <2>1, InsertOrUpdate
<1>9. ASSUME NEW d \in Deliveries, Replay(d) PROVE Told
  BY <1>5, <1>6, <1>9, InsertOrUpdate
<1>10. ASSUME NEW d \in Deliveries, NEW j \in Jobs, RecordEvent(d, j) PROVE Told
  BY <1>5, <1>10 DEF RecordEvent
<1>11. ASSUME Tick PROVE Told
  BY <1>4, <1>11 DEF Told
<1>12. ASSUME UNCHANGED <<jobs, agent>> PROVE Told
  BY <1>3, <1>12
<1>13. ASSUME NEW w \in Workers, Run(w) \/ Raise(w), ~QueueMoves, ~ScheduleWrite(w)
       PROVE  UNCHANGED <<jobs, agent>>
  BY <1>13 DEF Run, QueueMoves, Look, Send, MarkSucceeded, MarkFailed, ScheduleRead, Raise, qvars
<1>14. Told
  <2>1. vars' = vars => UNCHANGED <<jobs, agent>>
    BY DEF vars, qvars
  <2>2. \A d \in Deliveries : DeleteWebhook(d) => UNCHANGED <<jobs, agent>>
    BY DEF DeleteWebhook, qvars
  <2> QED
    BY <1>8, <1>9, <1>10, <1>11, <1>12, <1>13, <2>1, <2>2 DEF Next, QueueMoves
<1> QED
  BY <1>14 DEF Told

\* A delivery that is to be tried again has a try left for it.
LEMMA NextTriesLeft ==
  ASSUME TypeOK, Bound, [Next]_vars
  PROVE  TriesLeft'
<1>1. /\ deliveries \in [Deliveries -> Delivery] /\ call \in [Workers -> Call]
      /\ TriesLeft /\ 0 < MaxTries
  BY OutboxConstantsOK DEF TypeOK, Bound
<1>2. ASSUME NEW d \in Deliveries, DeleteWebhook(d) \/ Replay(d) \/ \E j \in Jobs : RecordEvent(d, j)
      PROVE  TriesLeft'
  <2>1. \A e \in Deliveries \ {d} : deliveries'[e] = deliveries[e]
    BY <1>1, <1>2 DEF DeleteWebhook, Replay, RecordEvent
  <2>2. \/ deliveries'[d].status = "gone"
        \/ deliveries'[d].status = "queued" /\ deliveries'[d].attempts = 0
    BY <1>1, <1>2 DEF DeleteWebhook, Replay, RecordEvent, TriesLeft, Delivery
  <2> QED
    BY <1>1, <2>1, <2>2 DEF TriesLeft
<1>3. CASE Tick
  <2>1. \A d \in Deliveries : /\ deliveries'[d].status = deliveries[d].status
                              /\ deliveries'[d].attempts = deliveries[d].attempts
    BY <1>1, <1>3 DEF Tick, Delivery
  <2> QED
    BY <1>1, <2>1 DEF TriesLeft
<1>4. ASSUME NEW w \in Workers, NEW s \in {"succeeded", "dead", "queued"}, NEW n,
             Mark(w, s, n), s = "queued" => ~Spent(w)
      PROVE  TriesLeft'
  <2>1. \A d \in Deliveries :
          \/ deliveries'[d] = deliveries[d]
          \/ deliveries'[d].status = s /\ deliveries'[d].attempts = call[w].try
    BY <1>1, <1>4 DEF Mark
  <2>2. s = "queued" => call[w].try < MaxTries
    BY <1>1, <1>4, OutboxConstantsOK DEF Spent, Call
  <2> QED
    BY <1>1, <2>1, <2>2 DEF TriesLeft
<1>5. ASSUME NEW w \in Workers, MarkSucceeded(w) \/ MarkFailed(w) PROVE TriesLeft'
  BY <1>4, <1>5 DEF MarkSucceeded, MarkFailed
<1>6. CASE deliveries' = deliveries
  BY <1>1, <1>6 DEF TriesLeft
<1> QED
  BY <1>2, <1>3, <1>5, <1>6
  DEF Next, Operator, Run, Poll, Look, Send, ScheduleRead, ScheduleWrite, End, Leave, Raise, Kill,
      Restart, vars, ovars

\* Bound is inductive, with the types.
LEMMA NextBound ==
  ASSUME TypeOK, Bound, [Next]_vars
  PROVE  Bound'
<1>1. /\ QP!TypeOK /\ call \in [Workers -> Call] /\ JobsNamed /\ WorkersNamed /\ CallsAreWork
      /\ NoJob \notin Jobs
  BY SameState, QPConstants DEF TypeOK, Bound
<1>2. CASE QueueMoves
  <2>1. Moves /\ WorkersNamed' /\ CallsAreWork'
    BY <1>1, <1>2, PollMoves, EndMoves, OutsideMoves DEF QueueMoves
  <2>2. JobsNamed'
    BY <1>1, <2>1 DEF JobsNamed, Moves, RowSteps, RowMoves, WorkersNamed, Queue!Holds
  <2> QED
    BY <2>1, <2>2, NextTriesLeft DEF Bound
<1>3. CASE ~QueueMoves
  <2>1. JobsNamed'
    BY <1>1, <1>3, OtherRows, TargetType DEF JobsNamed
  <2>2. WorkersNamed'
    BY <1>1, <1>3, OtherRows DEF WorkersNamed
  <2>3. CallsAreWork'
    <3>1. agent' = agent
      BY <1>3, OtherRows
    <3>2. CASE Tick
      <4>1. [Off EXCEPT !.runAt = Countdown(@)] = Off
        BY DEF Off, Countdown
      <4> QED
        BY <1>1, <3>1, <3>2, <4>1 DEF Tick, CallsAreWork
    <3>3. ASSUME NEW w \in Workers, agent[w].pc = "working",
                 \A v \in Workers \ {w} : call'[v] = call[v]
          PROVE  CallsAreWork'
      BY <1>1, <3>1, <3>3 DEF CallsAreWork
    <3>4. CASE call' = call
      BY <1>1, <3>1, <3>4 DEF CallsAreWork
    <3>5. ASSUME NEW w \in Workers,
                 \/ Look(w) \/ Send(w) \/ MarkSucceeded(w) \/ MarkFailed(w) \/ ScheduleRead(w)
                 \/ ScheduleWrite(w) \/ Raise(w)
          PROVE  agent[w].pc = "working" /\ \A v \in Workers \ {w} : call'[v] = call[v]
      BY <1>1, <3>5 DEF Look, Send, MarkSucceeded, MarkFailed, ScheduleRead, ScheduleWrite, Raise, At
    <3> QED
      BY <1>3, <3>2, <3>3, <3>4, <3>5
      DEF Next, QueueMoves, DeleteWebhook, Replay, RecordEvent, Run, vars, ovars
  <2> QED
    BY <2>1, <2>2, <2>3, NextTriesLeft DEF Bound
<1> QED
  BY <1>2, <1>3

\* The invariant holds at first.
LEMMA InitBound == Init => TypeOK /\ Bound
<1> SUFFICES ASSUME Init PROVE TypeOK /\ Bound
  OBVIOUS
<1>1. Queue!TypeOK
  <2>1. QP!Init
    BY DEF Init, Queue!Init, Queue!Absent, Queue!Idle, Queue!Lapsed, Queue!Unset,
           QP!Init, QP!Absent, QP!Idle, QP!Lapsed, QP!Unset
  <2> QED
    BY <2>1, QPConstants, QP!InitTypeOK, SameState
<1>2. [status |-> "absent", attempts |-> 0, next |-> 0] \in Delivery
  BY OutboxConstantsOK, QPConstants DEF Delivery
<1>3. Off \in Call
  BY OutboxConstantsOK, QPConstants DEF Off, Call, Stage
<1>4. TypeOK
  BY <1>1, <1>2, <1>3, OutboxConstantsOK DEF Init, TypeOK
<1>5. Bound
  BY OutboxConstantsOK
  DEF Init, Queue!Init, Queue!Absent, Queue!Idle, Bound, JobsNamed, WorkersNamed, CallsAreWork, TriesLeft
<1> QED
  BY <1>4, <1>5

\* Types, for deliver_delivery and everything around it: a try is never numbered
\* beyond webhook_max_attempts, and no time to wait exceeds the longest backoff.
THEOREM TypeCorrect == Spec => []TypeOK
<1>1. Init => TypeOK /\ Bound
  BY InitBound
<1>2. TypeOK /\ Bound /\ [Next]_vars => TypeOK' /\ Bound'
  BY NextTypeOK, NextBound
<1> QED
  BY <1>1, <1>2, PTL DEF Spec

-----------------------------------------------------------------------------
(***************************************************************************)
(* One job at a time for each delivery.  What follows is about workers     *)
(* that do not outlive their leases and that, once the handler is about to *)
(* return, end the job: between the commit of the retry's job and that of  *)
(* the job at hand the delivery has both.                                  *)
(***************************************************************************)

Sound == Punctual /\ "returned" \notin KillStages \cup ErrorStages

\* A job whose handler has nothing left to do ...
Finishing(j) == \E w \in Workers : Queue!Holds(w, j) /\ call[w].stage = "returned"

\* ... and one that may still have its delivery made.
Active(j) == jobs[j].status \in {"queued", "running"} /\ ~Finishing(j)

HeldIsRunning == \A w \in Workers, j \in Jobs : Queue!Holds(w, j) => jobs[j].status = "running"

OneActive == \A j, k \in Jobs : Active(j) /\ Active(k) /\ target[j] = target[k] => j = k

\* No retry finds a job of its delivery that is queued.
NothingFound == \A w \in Workers : call[w].found = NoJob

AbsentHasNone ==
  \A d \in Deliveries :
    deliveries[d].status = "absent" => /\ tries[d] = 0 /\ deliveries[d].next = 0
                                       /\ \A j \in Jobs : target[j] # d

InTry(w)   == call[w].stage \in {"sending", "accepted", "rejected"}
InRetry(w) == call[w].stage \in {"marked", "scheduling"}

\* What a worker has read or written of its delivery is still so.
Knows(w, d) ==
  /\ InTry(w) \/ InRetry(w) => deliveries[d].status \in {"queued", "gone"}
  /\ InTry(w) /\ deliveries[d].status = "queued" => call[w].try = deliveries[d].attempts + 1
  /\ InRetry(w) /\ deliveries[d].status = "queued" => call[w].runAt = deliveries[d].next

AtWork == \A w \in Workers, j \in Jobs : Queue!Holds(w, j) => Knows(w, target[j])

Trying(d) == \E w \in Workers, j \in Jobs : Queue!Holds(w, j) /\ target[j] = d /\ InTry(w)

\* The tries begun are those counted in the row, the one that is going on, and
\* one for each fault at most.
CountedFor(d) ==
  /\ tries[d] <= MaxTries + faults
  /\ deliveries[d].status = "dead" => deliveries[d].attempts = MaxTries
  /\ deliveries[d].status # "gone" =>
       /\ deliveries[d].attempts <= tries[d]
       /\ IF Trying(d) THEN /\ deliveries[d].attempts + 1 <= tries[d]
                            /\ tries[d] <= deliveries[d].attempts + faults + 1
                       ELSE tries[d] <= deliveries[d].attempts + faults

Counted == \A d \in Deliveries : CountedFor(d)

OneAtWork == HeldIsRunning /\ OneActive /\ NothingFound /\ AbsentHasNone /\ AtWork /\ Counted

\* What the proofs below rest on.
Base == TypeOK /\ Bound /\ QP!OwnInv

\* Two workers that both have something left to do work for different deliveries.
LEMMA OneWorkerEach ==
  ASSUME QP!OwnInv, HeldIsRunning, OneActive,
         NEW w \in Workers, NEW v \in Workers, NEW j \in Jobs, NEW k \in Jobs,
         Queue!Holds(w, j), Queue!Holds(v, k), target[j] = target[k],
         call[w].stage # "returned", call[v].stage # "returned"
  PROVE  v = w /\ j = k
<1>1. \A u \in Workers, i \in Jobs : Queue!Holds(u, i) => \A x \in Workers : Queue!Holds(x, i) => x = u
  BY SameState DEF QP!OwnInv, QP!OneWorkerPerJob
<1>2. Active(j) /\ Active(k)
  BY <1>1 DEF HeldIsRunning, Active, Finishing
<1> QED
  BY <1>1, <1>2 DEF OneActive

\* A handler's own steps: they move no row of jobs, and one worker's locals.
Handles(w) ==
  Look(w) \/ Send(w) \/ MarkSucceeded(w) \/ MarkFailed(w) \/ ScheduleRead(w) \/ Raise(w)

(* While one worker is inside the handler no other one is.                  *)
LEMMA HandlerAlone ==
  ASSUME Base, NEW w \in Workers, Handles(w)
  PROVE  /\ UNCHANGED <<jobs, agent, target, replays>>
         /\ agent[w].job \in Jobs /\ Queue!Holds(w, agent[w].job)
         /\ DeliveryOf(w) = target[agent[w].job] /\ DeliveryOf(w) \in Deliveries
         /\ \A v \in Workers \ {w} : call'[v] = call[v]
         /\ \A d \in Deliveries \ {DeliveryOf(w)} :
              deliveries'[d] = deliveries[d] /\ tries'[d] = tries[d] /\ (d \in cut' <=> d \in cut)
<1>1. agent[w].pc = "working" /\ UNCHANGED <<jobs, agent, target, replays>>
  BY DEF Handles, Look, Send, MarkSucceeded, MarkFailed, ScheduleRead, Raise, At, qvars
<1>2. \A v \in Workers \ {w} : call'[v] = call[v]
  BY DEF Handles, Look, Send, MarkSucceeded, MarkFailed, ScheduleRead, Raise, Base, TypeOK
<1>3. \A d \in Deliveries \ {DeliveryOf(w)} :
        deliveries'[d] = deliveries[d] /\ tries'[d] = tries[d] /\ (d \in cut' <=> d \in cut)
  BY DEF Handles, Look, Send, MarkSucceeded, MarkFailed, Mark, ScheduleRead, Raise, CutsShort, Base,
         TypeOK, history
<1> QED
  BY <1>1, <1>2, <1>3, WorksFor DEF Base

\* ... which are told apart by what they do to the stage: the delivery d is not to
\* be sent, a try begins, goes on, succeeds or is the last, is to be followed by
\* another, that one is looked for, or an error ends it.
Outcome(w, d) ==
  \/ /\ call[w].stage = "off" /\ call'[w].stage = "returned"
     /\ deliveries[d].status # "queued" \/ deliveries[d].next > 0
     /\ UNCHANGED <<deliveries, tries, cut, faults>>
  \/ /\ call[w].stage = "off" /\ call'[w].stage = "sending"
     /\ deliveries[d].status = "queued" /\ ~(deliveries[d].next > 0)
     /\ call'[w].try = deliveries[d].attempts + 1 /\ tries'[d] = tries[d] + 1
     /\ UNCHANGED <<deliveries, faults>>
  \/ /\ InTry(w) /\ InTry(w)' /\ call'[w].try = call[w].try
     /\ faults' \in {faults, faults + 1} /\ UNCHANGED <<deliveries, tries, cut>>
  \/ /\ InTry(w) /\ call'[w].stage = "returned"
     /\ Mark(w, "succeeded", 0) \/ (Spent(w) /\ Mark(w, "dead", 0))
     /\ UNCHANGED <<tries, cut, faults>>
  \/ /\ InTry(w) /\ call'[w].stage = "marked" /\ call'[w].runAt = Backoff
     /\ ~Spent(w) /\ Mark(w, "queued", Backoff)
     /\ UNCHANGED <<tries, cut, faults>>
  \/ /\ InRetry(w) /\ InRetry(w)' /\ call'[w].runAt = call[w].runAt
     /\ UNCHANGED <<deliveries, tries, cut, faults>>
  \/ /\ call[w].stage \in ErrorStages /\ call'[w].stage = "raised"
     /\ faults' = faults + 1 /\ UNCHANGED <<deliveries, tries>>
     /\ cut' = IF InRetry(w) /\ deliveries[d].next > 0 THEN cut \cup {d} ELSE cut

(* What a step of one handler leaves true of the others.                    *)
LEMMA HandlerStage ==
  ASSUME Base, Sound, OneAtWork, NEW w \in Workers, Handles(w)
  PROVE  call[w].stage # "returned" /\ call'[w].found = NoJob /\ Outcome(w, DeliveryOf(w))
<1>1. call[w] \in Call /\ call \in [Workers -> Call] /\ tries \in [Deliveries -> Nat]
  BY DEF Base, TypeOK
<1>2. call[w].found = NoJob
  BY DEF OneAtWork, NothingFound
<1>3. DeliveryOf(w) \in Deliveries
  BY HandlerAlone
<1> DEFINE d == DeliveryOf(w)
<1>4. CASE Look(w)
  BY <1>1, <1>2, <1>3, <1>4 DEF Outcome, Look, At, Call, qvars, history
<1>5. CASE Send(w)
  BY <1>1, <1>2, <1>5 DEF Outcome, Send, At, Call, InTry, qvars, history
<1>6. CASE MarkSucceeded(w)
  BY <1>1, <1>2, <1>6 DEF Outcome, MarkSucceeded, At, Call, InTry, qvars, history
<1>7. CASE MarkFailed(w)
  BY <1>1, <1>2, <1>7 DEF Outcome, MarkFailed, At, Call, InTry, qvars, history
<1>8. CASE ScheduleRead(w)
  <2>1. Pending(DeliveryOf(w)) = {}
    <3>1. SUFFICES ASSUME NEW k \in Jobs, target[k] = target[agent[w].job], jobs[k].status = "queued"
                   PROVE  FALSE
      BY HandlerAlone DEF Pending, JobsOf
    <3>2. Active(k)
      BY <3>1 DEF Active, Finishing, OneAtWork, HeldIsRunning
    <3>3. Active(agent[w].job) /\ k # agent[w].job
      <4>1. \A x \in Workers : Queue!Holds(x, agent[w].job) => x = w
        BY HandlerAlone, SameState DEF Base, QP!OwnInv, QP!OneWorkerPerJob
      <4> QED
        BY <1>8, <3>1, <4>1, HandlerAlone
        DEF Active, Finishing, OneAtWork, HeldIsRunning, ScheduleRead, At
    <3> QED
      BY <3>1, <3>2, <3>3, HandlerAlone DEF OneAtWork, OneActive
  <2>2. call' = [call EXCEPT ![w].stage = "scheduling"]
    BY <1>8, <2>1 DEF ScheduleRead
  <2> QED
    BY <1>1, <1>2, <1>8, <2>2 DEF Outcome, ScheduleRead, At, Call, InRetry, qvars, history
<1>9. CASE Raise(w)
  BY <1>1, <1>2, <1>9 DEF Outcome, Raise, CutsShort, Sound, Call, InTry, InRetry
<1> QED
  BY <1>4, <1>5, <1>6, <1>7, <1>8, <1>9 DEF Handles

\* No step of the queue gives a job back to be done that was at its end.
LEMMA ActiveBefore ==
  ASSUME Sound, OneAtWork, Moves, NEW j \in Jobs, Active(j)'
  PROVE  Active(j)
<1>1. RowMoves(j) /\ LetsGo /\ HeldIsRunning
  BY DEF Moves, RowSteps, OneAtWork
<1>2. jobs'[j].status \in {"queued", "running"}
  BY DEF Active
<1>3. jobs[j].status \in {"queued", "running"}
  BY <1>1, <1>2 DEF RowMoves, HeldIsRunning
<1>4. ASSUME NEW w \in Workers, Queue!Holds(w, j), call[w].stage = "returned" PROVE FALSE
  <2>1. Queue!Holds(w, j)' /\ call'[w] = call[w]
    BY <1>1, <1>2, <1>3, <1>4 DEF LetsGo, Sound
  <2> QED
    BY <1>4, <2>1 DEF Active, Finishing
<1> QED
  BY <1>3, <1>4 DEF Active, Finishing

\* Steps of the queue and the operator.
LEMMA MovesOneAtWork ==
  ASSUME Base, Sound, OneAtWork, Moves, Base'
  PROVE  OneAtWork'
<1>1. /\ call \in [Workers -> Call] /\ WorkersNamed /\ CallsAreWork
      /\ deliveries \in [Deliveries -> Delivery] /\ tries \in [Deliveries -> Nat]
      /\ faults \in Nat /\ faults' \in {faults, faults + 1}
      /\ UNCHANGED <<deliveries, target, tries>>
  BY SameState DEF Base, Bound, TypeOK, Moves, QP!TypeOK
<1>2. /\ \A j \in Jobs : RowMoves(j)
      /\ Takes /\ LetsGo
  BY DEF Moves, RowSteps
<1>3. HeldIsRunning /\ OneActive /\ NothingFound /\ AbsentHasNone /\ AtWork /\ Counted
  BY DEF OneAtWork
<1>4. HeldIsRunning'
  <2> SUFFICES ASSUME NEW w \in Workers, NEW j \in Jobs, Queue!Holds(w, j)'
               PROVE  jobs'[j].status = "running"
    BY DEF HeldIsRunning
  <2>1. jobs'[j].status # "gone" => jobs'[j].status = "running"
    BY DEF Base, QP!OwnInv, QP!OneWorkerPerJob, QP!Holds, Queue!Holds, QP!LeaseLive
  <2>2. jobs[j].status \in {"queued", "running"}
    BY <1>2, <1>3 DEF Takes, HeldIsRunning
  <2>3. jobs'[j].status # "gone"
    BY <1>2, <2>2 DEF RowMoves
  <2> QED
    BY <2>1, <2>3
<1>5. \A j \in Jobs : Active(j)' => Active(j)
  BY ActiveBefore
<1>6. OneActive'
  BY <1>1, <1>3, <1>5 DEF OneActive
<1>7. ASSUME NEW w \in Workers, NEW j \in Jobs, Queue!Holds(w, j)', call'[w] # Off
      PROVE  Queue!Holds(w, j) /\ call'[w] = call[w]
  BY <1>2, <1>7 DEF Takes
<1>8. NothingFound'
  <2> SUFFICES ASSUME NEW w \in Workers PROVE call'[w].found = NoJob
    BY DEF NothingFound
  <2>1. call'[w] = Off \/ \E j \in Jobs : Queue!Holds(w, j)'
    BY DEF Base, Bound, CallsAreWork, WorkersNamed, Queue!Holds
  <2> QED
    BY <1>3, <1>7, <2>1 DEF NothingFound, Off
<1>9. AbsentHasNone'
  BY <1>1, <1>3 DEF AbsentHasNone
<1>10. AtWork'
  <2> SUFFICES ASSUME NEW w \in Workers, NEW j \in Jobs, Queue!Holds(w, j)'
               PROVE  Knows(w, target[j])'
    BY DEF AtWork
  <2>1. CASE call'[w] = Off
    BY <2>1 DEF Knows, InTry, InRetry, Off
  <2>2. CASE call'[w] # Off
    BY <1>1, <1>3, <1>7, <2>2 DEF AtWork, Knows, InTry, InRetry
  <2> QED
    BY <2>1, <2>2
<1>11. ASSUME NEW d \in Deliveries PROVE CountedFor(d)'
  <2>1. CountedFor(d)
    BY <1>3 DEF Counted
  <2>2. Trying(d)' => Trying(d)
    BY <1>1, <1>7 DEF Trying, InTry, Off
  <2>3. Trying(d) => Trying(d)' \/ faults' = faults + 1
    <3> SUFFICES ASSUME NEW w \in Workers, NEW j \in Jobs, Queue!Holds(w, j), target[j] = d, InTry(w)
                 PROVE  Trying(d)' \/ faults' = faults + 1
      BY DEF Trying
    <3>1. (Queue!Holds(w, j)' /\ call'[w] = call[w]) \/ faults' = faults + 1
      BY <1>2, <1>3 DEF LetsGo, InTry, HeldIsRunning
    <3> QED
      BY <1>1, <3>1 DEF Trying, InTry
  <2>4. /\ tries[d] \in Nat /\ deliveries[d].attempts \in Nat /\ MaxTries \in Nat
        /\ UNCHANGED <<deliveries, tries>>
    BY <1>1, OutboxConstantsOK DEF Delivery
  <2> QED
    BY <1>1, <2>1, <2>2, <2>3, <2>4 DEF CountedFor
<1> QED
  BY <1>4, <1>6, <1>8, <1>9, <1>10, <1>11 DEF OneAtWork, Counted

\* The clock, which counts for a delivery and for who works for it alike.
LEMMA TickOneAtWork ==
  ASSUME Base, OneAtWork, Tick
  PROVE  OneAtWork'
<1>1. /\ UNCHANGED <<agent, faults, target, tries>>
      /\ \A j \in Jobs : jobs'[j].status = jobs[j].status
  BY SameState, TickedRows DEF Base, TypeOK, Tick, history
<1>2. \A w \in Workers : /\ call'[w].stage = call[w].stage /\ call'[w].found = call[w].found
                         /\ call'[w].try = call[w].try
                         /\ call'[w].runAt = Countdown(call[w].runAt)
  BY DEF Tick, Base, TypeOK, Call
<1>3. \A d \in Deliveries : /\ deliveries'[d].status = deliveries[d].status
                            /\ deliveries'[d].attempts = deliveries[d].attempts
                            /\ deliveries'[d].next = Countdown(deliveries[d].next)
  BY DEF Tick, Base, TypeOK, Delivery
<1>4. \A w \in Workers, j \in Jobs : Queue!Holds(w, j)' <=> Queue!Holds(w, j)
  BY <1>1 DEF Queue!Holds
<1>5. \A j \in Jobs : Active(j)' <=> Active(j)
  BY <1>1, <1>2, <1>4 DEF Active, Finishing
<1>6. HeldIsRunning' /\ OneActive' /\ NothingFound'
  BY <1>1, <1>2, <1>4, <1>5 DEF OneAtWork, HeldIsRunning, OneActive, NothingFound
<1>7. AbsentHasNone'
  BY <1>1, <1>3 DEF OneAtWork, AbsentHasNone, Countdown
<1>8. AtWork'
  <2> SUFFICES ASSUME NEW w \in Workers, NEW j \in Jobs, Queue!Holds(w, j)
               PROVE  Knows(w, target[j])'
    BY <1>4 DEF AtWork
  <2>1. CASE InTry(w) \/ InRetry(w)
    <3>1. Knows(w, target[j])
      BY DEF OneAtWork, AtWork
    <3>2. target[j] \in Deliveries /\ target' = target
      BY <1>1 DEF Base, Bound, JobsNamed, OneAtWork, HeldIsRunning
    <3> QED
      BY <1>2, <1>3, <3>1, <3>2 DEF Knows, InTry, InRetry
  <2>2. CASE ~(InTry(w) \/ InRetry(w))
    BY <1>2, <2>2 DEF Knows, InTry, InRetry
  <2> QED
    BY <2>1, <2>2
<1>9. ASSUME NEW d \in Deliveries PROVE CountedFor(d)'
  <2>1. Trying(d)' <=> Trying(d)
    BY <1>1, <1>2, <1>4 DEF Trying, InTry
  <2> QED
    BY <1>1, <1>3, <2>1 DEF OneAtWork, Counted, CountedFor
<1> QED
  BY <1>6, <1>7, <1>8, <1>9 DEF OneAtWork, Counted

\* A delivery's webhook is deleted.
LEMMA DeleteOneAtWork ==
  ASSUME Base, OneAtWork, NEW d \in Deliveries, DeleteWebhook(d)
  PROVE  OneAtWork'
<1>1. UNCHANGED <<jobs, agent, faults, target, call, tries>>
  BY DEF DeleteWebhook, qvars, history
<1>2. /\ deliveries'[d].status = "gone"
      /\ \A e \in Deliveries \ {d} : deliveries'[e] = deliveries[e]
  BY DEF DeleteWebhook, Base, TypeOK
<1>3. \A j \in Jobs : Active(j)' <=> Active(j)
  BY <1>1 DEF Active, Finishing, Queue!Holds
<1>4. HeldIsRunning' /\ OneActive' /\ NothingFound'
  BY <1>1, <1>3 DEF OneAtWork, HeldIsRunning, OneActive, NothingFound, Queue!Holds
<1>5. AbsentHasNone'
  BY <1>1, <1>2 DEF OneAtWork, AbsentHasNone
<1>6. AtWork'
  <2> SUFFICES ASSUME NEW w \in Workers, NEW j \in Jobs, Queue!Holds(w, j)
               PROVE  Knows(w, target[j])'
    BY <1>1 DEF AtWork, Queue!Holds
  <2>1. Knows(w, target[j]) /\ target[j] \in Deliveries
    BY DEF OneAtWork, AtWork, Base, Bound, JobsNamed, HeldIsRunning
  <2> QED
    BY <1>1, <1>2, <2>1 DEF Knows, InTry, InRetry
<1>7. ASSUME NEW e \in Deliveries PROVE CountedFor(e)'
  <2>1. Trying(e)' <=> Trying(e)
    BY <1>1 DEF Trying, InTry, Queue!Holds
  <2> QED
    BY <1>1, <1>2, <2>1 DEF OneAtWork, Counted, CountedFor
<1> QED
  BY <1>4, <1>5, <1>6, <1>7 DEF OneAtWork, Counted

\* A delivery is to be made from the start, by a job of its own, and no worker is at it.
LEMMA FreshOneAtWork ==
  ASSUME Base, OneAtWork, NEW d \in Deliveries,
         UNCHANGED <<agent, faults, call>>,
         deliveries'[d].status = "queued", deliveries'[d].attempts = 0, tries'[d] = 0,
         \A e \in Deliveries \ {d} : deliveries'[e] = deliveries[e] /\ tries'[e] = tries[e],
         \A j \in Jobs : target[j] = d => jobs[j].status # "running",
         \A j \in Jobs : jobs[j].status = "running" => jobs'[j] = jobs[j] /\ target'[j] = target[j],
         \A j \in Jobs : target'[j] = target[j] \/ target'[j] = d,
         \A j \in Jobs : Active(j)' => (Active(j) /\ target'[j] = target[j]) \/ target'[j] = d,
         \A j, k \in Jobs : Active(j)' /\ Active(k)' /\ target'[j] = d /\ target'[k] = d => j = k
  PROVE  OneAtWork'
<1>1. \A w \in Workers, j \in Jobs :
        Queue!Holds(w, j)' => Queue!Holds(w, j) /\ target'[j] = target[j] /\ target[j] # d
  BY DEF OneAtWork, HeldIsRunning, Queue!Holds
<1>2. HeldIsRunning' /\ NothingFound'
  BY <1>1 DEF OneAtWork, HeldIsRunning, NothingFound
<1>3. OneActive'
  BY DEF OneAtWork, OneActive
<1>4. AbsentHasNone'
  BY DEF OneAtWork, AbsentHasNone
<1>5. AtWork'
  <2> SUFFICES ASSUME NEW w \in Workers, NEW j \in Jobs, Queue!Holds(w, j)'
               PROVE  Knows(w, target[j])'
    BY DEF AtWork
  <2>1. /\ Knows(w, target[j]) /\ target[j] \in Deliveries
        /\ target'[j] = target[j] /\ target[j] # d
    BY <1>1 DEF OneAtWork, AtWork, Base, Bound, JobsNamed, HeldIsRunning
  <2> QED
    BY <2>1 DEF Knows, InTry, InRetry
<1>6. ASSUME NEW e \in Deliveries PROVE CountedFor(e)'
  <2>1. CASE e = d
    <3>1. ~Trying(d)'
      BY <1>1 DEF Trying
    <3>2. MaxTries \in Nat /\ faults \in Nat
      BY OutboxConstantsOK, SameState DEF Base, TypeOK, QP!TypeOK
    <3> QED
      BY <2>1, <3>1, <3>2 DEF CountedFor
  <2>2. CASE e # d
    <3>1. Trying(e)' <=> Trying(e)
      BY <1>1 DEF Trying, InTry, Queue!Holds, OneAtWork, HeldIsRunning
    <3> QED
      BY <2>2, <3>1 DEF OneAtWork, Counted, CountedFor
  <2> QED
    BY <2>1, <2>2
<1> QED
  BY <1>2, <1>3, <1>4, <1>5, <1>6 DEF OneAtWork, Counted

\* record_event.
LEMMA RecordOneAtWork ==
  ASSUME Base, OneAtWork, NEW d \in Deliveries, NEW j \in Jobs, RecordEvent(d, j)
  PROVE  OneAtWork'
<1>1. /\ QP!TypeOK /\ target \in [Jobs -> Deliveries \cup {NoDelivery}]
      /\ deliveries \in [Deliveries -> Delivery]
  BY SameState DEF Base, TypeOK
<1>2. /\ deliveries[d].status = "absent" /\ NewJob(j, d, 0) /\ UNCHANGED <<call, tries>>
      /\ deliveries' = [deliveries EXCEPT ![d].status = "queued"]
  BY DEF RecordEvent, history
<1>3. deliveries[d].attempts = 0 /\ tries[d] = 0 /\ \A k \in Jobs : target[k] # d
  BY <1>2 DEF Base, Bound, TriesLeft, OneAtWork, AbsentHasNone
<1>4. /\ UNCHANGED <<agent, faults>> /\ jobs[j].status = "absent" /\ target'[j] = d
      /\ \A k \in Jobs \ {j} : jobs'[k] = jobs[k] /\ target'[k] = target[k]
  BY <1>1, <1>2, InsertedRow
<1>5. /\ deliveries'[d].status = "queued" /\ deliveries'[d].attempts = 0 /\ tries'[d] = 0
      /\ \A e \in Deliveries \ {d} : deliveries'[e] = deliveries[e] /\ tries'[e] = tries[e]
  BY <1>1, <1>2, <1>3 DEF Delivery
<1>6. \A k \in Jobs \ {j} : (Active(k)' <=> Active(k)) /\ target'[k] # d
  BY <1>2, <1>3, <1>4 DEF Active, Finishing, Queue!Holds
<1> QED
  BY <1>2, <1>3, <1>4, <1>5, <1>6, FreshOneAtWork

\* replay_delivery, which keeps a queued job or adds one.
LEMMA ReplayOneAtWork ==
  ASSUME Base, OneAtWork, NEW d \in Deliveries, Replay(d)
  PROVE  OneAtWork'
<1>1. /\ QP!TypeOK /\ target \in [Jobs -> Deliveries \cup {NoDelivery}]
      /\ deliveries \in [Deliveries -> Delivery] /\ tries \in [Deliveries -> Nat]
  BY SameState DEF Base, TypeOK
<1>2. /\ deliveries'[d].status = "queued" /\ deliveries'[d].attempts = 0 /\ tries'[d] = 0
      /\ \A e \in Deliveries \ {d} : deliveries'[e] = deliveries[e] /\ tries'[e] = tries[e]
      /\ UNCHANGED call
  BY <1>1 DEF Replay
<1>3. \A k \in Jobs : target[k] = d => jobs[k].status # "running"
  BY DEF Replay, Replayable, JobsOf
<1>4. CASE ReuseJob(d)
  <2>1. UNCHANGED <<agent, faults, target>>
    BY <1>4 DEF ReuseJob
  <2>2. \A k \in Jobs : Active(k)' => Active(k)
    BY <1>1, <1>2, <1>4, <2>1, ReusedRows DEF Active, Finishing, Queue!Holds
  <2>3. \A k \in Jobs : jobs[k].status = "running" => jobs'[k] = jobs[k]
    BY <1>1, <1>4, ReusedRows
  <2>4. \A i, k \in Jobs : Active(i)' /\ Active(k)' /\ target'[i] = d /\ target'[k] = d => i = k
    BY <2>1, <2>2 DEF OneAtWork, OneActive
  <2> QED
    BY <1>2, <1>3, <2>1, <2>2, <2>3, <2>4, FreshOneAtWork
<1>5. ASSUME NEW j \in Jobs, NewJob(j, d, 0), JobsOf(d, "queued") = {} PROVE OneAtWork'
  <2>1. /\ UNCHANGED <<agent, faults>> /\ jobs[j].status = "absent" /\ target'[j] = d
        /\ \A k \in Jobs \ {j} : jobs'[k] = jobs[k] /\ target'[k] = target[k]
    BY <1>1, <1>5, InsertedRow
  <2>2. \A k \in Jobs \ {j} : Active(k)' <=> Active(k)
    BY <1>2, <2>1 DEF Active, Finishing, Queue!Holds
  <2>3. \A k \in Jobs : target[k] = d => ~Active(k)
    BY <1>3, <1>5 DEF JobsOf, Active
  <2> QED
    BY <1>2, <1>3, <2>1, <2>2, <2>3, FreshOneAtWork
<1> QED
  BY <1>4, <1>5 DEF Replay, ReuseOrAddJob

\* _schedule_delivery_retry adds a job, and the one at hand has nothing left to do.
LEMMA ScheduleInserts ==
  ASSUME Base, OneAtWork, NEW w \in Workers, ScheduleWrite(w)
  PROVE  /\ InRetry(w) /\ UNCHANGED <<agent, faults, deliveries, tries, cut>>
         /\ agent[w].job \in Jobs /\ Queue!Holds(w, agent[w].job)
         /\ target[agent[w].job] = DeliveryOf(w) /\ DeliveryOf(w) \in Deliveries
         /\ call'[w] = [Off EXCEPT !.stage = "returned"]
         /\ \A v \in Workers \ {w} : call'[v] = call[v]
         /\ \E j \in Jobs :
              /\ jobs[j].status = "absent"
              /\ jobs'[j].status = "queued" /\ jobs'[j].delay = call[w].runAt
              /\ target'[j] = DeliveryOf(w)
              /\ \A k \in Jobs \ {j} : jobs'[k] = jobs[k] /\ target'[k] = target[k]
<1>1. /\ QP!TypeOK /\ target \in [Jobs -> Deliveries \cup {NoDelivery}] /\ call \in [Workers -> Call]
  BY SameState DEF Base, TypeOK
<1>2. /\ agent[w].job \in Jobs /\ Queue!Holds(w, agent[w].job)
      /\ target[agent[w].job] = DeliveryOf(w) /\ DeliveryOf(w) \in Deliveries
  BY WorksFor DEF Base, ScheduleWrite, At
<1>3. PICK j \in Jobs : NewJob(j, DeliveryOf(w), call[w].runAt)
  BY DEF ScheduleWrite, RetryJob, OneAtWork, NothingFound
<1>4. /\ UNCHANGED <<agent, faults>> /\ jobs[j].status = "absent"
      /\ jobs'[j].status = "queued" /\ jobs'[j].delay = call[w].runAt /\ target'[j] = DeliveryOf(w)
      /\ \A k \in Jobs \ {j} : jobs'[k] = jobs[k] /\ target'[k] = target[k]
  BY <1>1, <1>2, <1>3, InsertedRow
<1>5. /\ InRetry(w) /\ UNCHANGED <<deliveries, tries, cut>>
      /\ call' = [call EXCEPT ![w] = [Off EXCEPT !.stage = "returned"]]
  BY DEF ScheduleWrite, At, InRetry, history
<1> QED
  BY <1>1, <1>2, <1>4, <1>5

(* _schedule_delivery_retry, which finds no job to move and inserts one.    *)
LEMMA ScheduleOneAtWork ==
  ASSUME Base, OneAtWork, NEW w \in Workers, ScheduleWrite(w)
  PROVE  OneAtWork'
<1>1. /\ InRetry(w) /\ UNCHANGED <<agent, faults, deliveries, tries>>
      /\ agent[w].job \in Jobs /\ Queue!Holds(w, agent[w].job)
      /\ target[agent[w].job] = DeliveryOf(w) /\ DeliveryOf(w) \in Deliveries
      /\ call'[w] = [Off EXCEPT !.stage = "returned"]
      /\ \A v \in Workers \ {w} : call'[v] = call[v]
  BY ScheduleInserts
<1>2. PICK j \in Jobs :
        /\ jobs[j].status = "absent"
        /\ jobs'[j].status = "queued" /\ jobs'[j].delay = call[w].runAt
        /\ target'[j] = DeliveryOf(w)
        /\ \A k \in Jobs \ {j} : jobs'[k] = jobs[k] /\ target'[k] = target[k]
  BY ScheduleInserts
<1>3. /\ HeldIsRunning /\ OneActive /\ NothingFound /\ AbsentHasNone /\ AtWork /\ Counted
      /\ QP!OwnInv
  BY DEF OneAtWork, Base
<1>4. call'[w].stage = "returned" /\ call'[w].found = NoJob
  BY <1>1 DEF Off
<1>5. /\ \A v \in Workers, k \in Jobs : Queue!Holds(v, k)' <=> Queue!Holds(v, k)
      /\ \A v \in Workers, k \in Jobs : Queue!Holds(v, k) => k # j
      /\ jobs[agent[w].job].status = "running"
  BY <1>1, <1>2, <1>3 DEF Queue!Holds, HeldIsRunning
<1>6. HeldIsRunning' /\ NothingFound'
  <2>1. HeldIsRunning'
    BY <1>2, <1>3, <1>5 DEF HeldIsRunning
  <2>2. NothingFound'
    BY <1>1, <1>3, <1>4 DEF NothingFound
  <2> QED
    BY <2>1, <2>2
<1>7. \A k \in Jobs \ {j} : Active(k)' => Active(k)
  BY <1>1, <1>2, <1>4, <1>5 DEF Active, Finishing
<1>8. ~Active(agent[w].job)'
  BY <1>1, <1>4, <1>5 DEF Active, Finishing
<1>9. Active(agent[w].job)
  <2>1. \A v \in Workers : Queue!Holds(v, agent[w].job) => v = w
    BY <1>1, <1>3, SameState DEF QP!OwnInv, QP!OneWorkerPerJob
  <2> QED
    BY <1>1, <1>5, <2>1 DEF Active, Finishing, InRetry
<1>10. \A k \in Jobs \ {j} : Active(k)' => target[k] # DeliveryOf(w)
  BY <1>1, <1>3, <1>7, <1>8, <1>9 DEF OneActive
<1>11. OneActive'
  BY <1>2, <1>3, <1>7, <1>10 DEF OneActive
<1>12. AbsentHasNone'
  <2>1. deliveries[DeliveryOf(w)].status # "absent"
    BY <1>1, <1>3 DEF AbsentHasNone
  <2> QED
    BY <1>1, <1>2, <1>3, <2>1 DEF AbsentHasNone
<1>13. AtWork'
  <2> SUFFICES ASSUME NEW v \in Workers, NEW k \in Jobs, Queue!Holds(v, k)
               PROVE  Knows(v, target[k])'
    BY <1>5 DEF AtWork
  <2>1. Knows(v, target[k]) /\ target'[k] = target[k]
    BY <1>2, <1>3, <1>5 DEF AtWork
  <2>2. CASE v = w
    BY <1>4, <2>2 DEF Knows, InTry, InRetry
  <2>3. CASE v # w
    BY <1>1, <2>1, <2>3 DEF Knows, InTry, InRetry
  <2> QED
    BY <2>2, <2>3
<1>14. ASSUME NEW e \in Deliveries PROVE CountedFor(e)'
  <2>1. \A v \in Workers : InTry(v)' <=> InTry(v)
    BY <1>1, <1>4 DEF InTry, InRetry
  <2>2. Trying(e)' <=> Trying(e)
    BY <1>2, <1>5, <2>1 DEF Trying
  <2> QED
    BY <1>1, <1>3, <2>2 DEF Counted, CountedFor
<1> QED
  BY <1>6, <1>11, <1>12, <1>13, <1>14 DEF OneAtWork, Counted

\* The handler's own steps.
LEMMA HandlerOneAtWork ==
  ASSUME Base, Sound, OneAtWork, Base', NEW w \in Workers, Handles(w)
  PROVE  OneAtWork'
<1>0. PICK j \in Jobs, d \in Deliveries : j = agent[w].job /\ d = DeliveryOf(w)
  BY HandlerAlone
<1>1. /\ UNCHANGED <<jobs, agent, target>>
      /\ Queue!Holds(w, j) /\ d = target[j]
      /\ \A v \in Workers \ {w} : call'[v] = call[v]
      /\ \A e \in Deliveries \ {d} : deliveries'[e] = deliveries[e] /\ tries'[e] = tries[e]
  BY <1>0, HandlerAlone
<1>2. /\ HeldIsRunning /\ OneActive /\ NothingFound /\ AbsentHasNone /\ AtWork /\ Counted
      /\ QP!OwnInv
  BY DEF OneAtWork, Base
<1>3. call[w].stage # "returned" /\ call'[w].found = NoJob
  BY HandlerStage
<1>a. Outcome(w, d)
  BY <1>0, HandlerStage
<1>4. \A v \in Workers, k \in Jobs : Queue!Holds(v, k)' <=> Queue!Holds(v, k)
  BY <1>1 DEF Queue!Holds
<1>5. HeldIsRunning' /\ NothingFound'
  BY <1>1, <1>2, <1>3, <1>4 DEF HeldIsRunning, NothingFound
<1>6. \A k \in Jobs : Active(k)' => Active(k)
  BY <1>1, <1>3, <1>4 DEF Active, Finishing
<1>7. OneActive'
  BY <1>1, <1>2, <1>6 DEF OneActive
<1>8. deliveries[d].status # "absent"
  BY <1>1, <1>2 DEF AbsentHasNone
<1>9. ASSUME NEW s \in {"queued", "succeeded", "dead"}, NEW n \in Nat, Mark(w, s, n)
      PROVE  IF deliveries[d].status = "gone" THEN deliveries'[d] = deliveries[d]
             ELSE /\ deliveries'[d].status = s /\ deliveries'[d].attempts = call[w].try
                  /\ deliveries'[d].next = n
  BY <1>0, <1>9 DEF Mark, Base, TypeOK
<1>10. 0 \in Nat /\ Backoff \in Nat /\ MaxTries \in Nat /\ Lease \in Nat
  BY OutboxConstantsOK, QPConstants
<1>11. deliveries'[d] = deliveries[d] \/ deliveries'[d].status \in {"queued", "succeeded", "dead"}
  <2>1. ASSUME NEW s \in {"queued", "succeeded", "dead"}, NEW n \in Nat, Mark(w, s, n)
        PROVE  deliveries'[d] = deliveries[d] \/ deliveries'[d].status \in {"queued", "succeeded", "dead"}
    BY <1>9, <2>1
  <2> QED
    BY <1>a, <1>10, <2>1 DEF Outcome
<1>12. AbsentHasNone'
  BY <1>1, <1>2, <1>8, <1>11 DEF AbsentHasNone
<1>13. \A v \in Workers \ {w}, k \in Jobs :
         Queue!Holds(v, k) /\ target[k] = d => ~InTry(v) /\ ~InRetry(v)
  <2> SUFFICES ASSUME NEW v \in Workers \ {w}, NEW k \in Jobs, Queue!Holds(v, k), target[k] = d,
                      InTry(v) \/ InRetry(v)
               PROVE  FALSE
    OBVIOUS
  <2>1. call[v].stage # "returned"
    BY DEF InTry, InRetry
  <2> QED
    BY <1>1, <1>2, <1>3, <2>1, OneWorkerEach
<1>14. Knows(w, d)
  BY <1>1, <1>2 DEF AtWork
<1>15. Knows(w, d)'
  <2>1. CASE deliveries'[d] = deliveries[d]
    <3>1. CASE InTry(w) /\ call'[w].stage = "marked" /\ call'[w].runAt = Backoff /\ Mark(w, "queued", Backoff)
      BY <1>9, <1>10, <2>1, <3>1 DEF Knows, InTry, InRetry
    <3>2. CASE InTry(w)' /\ call'[w].try = call[w].try /\ InTry(w) /\ UNCHANGED deliveries
      BY <1>14, <3>2 DEF Knows, InTry, InRetry
    <3>3. CASE InRetry(w)' /\ call'[w].runAt = call[w].runAt /\ InRetry(w) /\ UNCHANGED deliveries
      BY <1>14, <3>3 DEF Knows, InTry, InRetry
    <3>4. CASE call'[w].stage \in {"returned", "raised"}
      BY <3>4 DEF Knows, InTry, InRetry
    <3>5. CASE /\ call'[w].stage = "sending" /\ UNCHANGED deliveries /\ deliveries[d].status = "queued"
               /\ call'[w].try = deliveries[d].attempts + 1
      BY <3>5 DEF Knows, InTry, InRetry
    <3> QED
      BY <1>a, <3>1, <3>2, <3>3, <3>4, <3>5 DEF Outcome
  <2>2. CASE deliveries'[d] # deliveries[d]
    <3>1. deliveries[d].status # "gone"
      BY <1>a, <1>9, <1>10, <2>2 DEF Outcome
    <3>2. \/ call'[w].stage = "returned"
          \/ /\ call'[w].stage = "marked" /\ call'[w].runAt = Backoff
             /\ deliveries'[d].status = "queued" /\ deliveries'[d].next = Backoff
      BY <1>a, <1>9, <1>10, <2>2, <3>1 DEF Outcome
    <3> QED
      BY <3>2 DEF Knows, InTry, InRetry
  <2> QED
    BY <2>1, <2>2
<1>16. AtWork'
  <2> SUFFICES ASSUME NEW v \in Workers, NEW k \in Jobs, Queue!Holds(v, k)
               PROVE  Knows(v, target[k])'
    BY <1>4 DEF AtWork
  <2>1. CASE v = w
    <3>1. k = j
      BY <1>0, <2>1 DEF Queue!Holds
    <3> QED
      BY <1>1, <1>15, <2>1, <3>1
  <2>2. CASE v # w
    <3>1. call'[v] = call[v] /\ target' = target /\ Knows(v, target[k])
      BY <1>1, <1>2, <2>2 DEF AtWork
    <3>2. CASE target[k] = d
      BY <1>13, <2>2, <3>1, <3>2 DEF Knows, InTry, InRetry
    <3>3. CASE target[k] # d
      <4>1. target[k] \in Deliveries
        BY <1>2 DEF Base, Bound, JobsNamed, HeldIsRunning
      <4> QED
        BY <1>1, <3>1, <3>3, <4>1 DEF Knows, InTry, InRetry
    <3> QED
      BY <3>2, <3>3
  <2> QED
    BY <2>1, <2>2
<1>17. Trying(d) <=> InTry(w)
  BY <1>1, <1>13 DEF Trying
<1>18. Trying(d)' <=> InTry(w)'
  <2>1. \A v \in Workers \ {w}, k \in Jobs : Queue!Holds(v, k)' /\ target'[k] = d => ~InTry(v)'
    BY <1>1, <1>4, <1>13 DEF InTry
  <2> QED
    BY <1>1, <1>4, <2>1 DEF Trying
<1>19. ASSUME NEW e \in Deliveries \ {d} PROVE CountedFor(e)'
  <2>1. Trying(e)' <=> Trying(e)
    <3>1. \A k \in Jobs : Queue!Holds(w, k) => target[k] # e
      BY <1>0, <1>1 DEF Queue!Holds
    <3> QED
      BY <1>1, <1>4, <3>1 DEF Trying, InTry
  <2>2. faults' \in {faults, faults + 1} /\ faults \in Nat
    BY <1>a, SameState DEF Outcome, Base, TypeOK, QP!TypeOK
  <2>3. tries[e] \in Nat /\ deliveries[e].attempts \in Nat
    BY <1>10 DEF Base, TypeOK, Delivery
  <2> QED
    BY <1>1, <1>2, <1>10, <2>1, <2>2, <2>3 DEF Counted, CountedFor
<1>20. CountedFor(d)'
  <2>1. /\ CountedFor(d) /\ faults \in Nat /\ tries[d] \in Nat
        /\ deliveries[d].attempts \in 0 .. MaxTries /\ call[w].try \in 0 .. MaxTries
    BY <1>1, <1>2, <1>10, SameState DEF Counted, Base, TypeOK, QP!TypeOK, Delivery, Call
  <2>2. CASE call[w].stage = "off" /\ call'[w].stage = "returned" /\ UNCHANGED <<deliveries, tries, faults>>
    BY <1>17, <1>18, <2>1, <2>2 DEF CountedFor, InTry
  <2>3. CASE /\ call[w].stage = "off" /\ call'[w].stage = "sending"
             /\ deliveries[d].status = "queued"
             /\ tries'[d] = tries[d] + 1 /\ UNCHANGED <<deliveries, faults>>
    <3>1. deliveries[d].attempts < MaxTries
      BY <1>1, <2>3 DEF Base, Bound, TriesLeft
    <3>2. ~Trying(d) /\ Trying(d)'
      BY <1>17, <1>18, <2>3 DEF InTry
    <3> QED
      BY <1>10, <2>1, <2>3, <3>1, <3>2 DEF CountedFor
  <2>4. CASE InTry(w) /\ InTry(w)' /\ faults' \in {faults, faults + 1} /\ UNCHANGED <<deliveries, tries>>
    BY <1>10, <1>17, <1>18, <2>1, <2>4 DEF CountedFor
  <2>5. CASE InRetry(w) /\ InRetry(w)' /\ UNCHANGED <<deliveries, tries, faults>>
    BY <1>17, <1>18, <2>1, <2>5 DEF CountedFor, InTry, InRetry
  <2>6. CASE call'[w].stage = "raised" /\ faults' = faults + 1 /\ UNCHANGED <<deliveries, tries>>
    <3>1. ~Trying(d)'
      BY <1>18, <2>6 DEF InTry
    <3> QED
      BY <1>10, <2>1, <2>6, <3>1 DEF CountedFor
  <2>7. ASSUME NEW s \in {"queued", "succeeded", "dead"}, NEW n \in Nat, Mark(w, s, n),
               s = "dead" => Spent(w),
               InTry(w), call'[w].stage \in {"returned", "marked"}, UNCHANGED <<tries, faults>>
        PROVE  CountedFor(d)'
    <3>1. Trying(d) /\ ~Trying(d)'
      BY <1>17, <1>18, <2>7 DEF InTry
    <3>2. CASE deliveries[d].status = "gone"
      BY <1>9, <2>1, <2>7, <3>2 DEF CountedFor
    <3>3. CASE deliveries[d].status # "gone"
      <4>1. deliveries'[d].status = s /\ deliveries'[d].attempts = call[w].try
        BY <1>9, <2>7, <3>3
      <4>2. call[w].try = deliveries[d].attempts + 1
        BY <1>14, <2>7, <3>3 DEF Knows
      <4>3. s = "dead" => call[w].try = MaxTries
        BY <1>10, <2>1, <2>7 DEF Spent
      <4> QED
        BY <1>10, <2>1, <2>7, <3>1, <3>3, <4>1, <4>2, <4>3 DEF CountedFor
    <3> QED
      BY <3>2, <3>3
  <2> QED
    BY <1>a, <1>10, <2>2, <2>3, <2>4, <2>5, <2>6, <2>7 DEF Outcome
<1> QED
  BY <1>5, <1>7, <1>12, <1>16, <1>19, <1>20 DEF OneAtWork, Counted

\* A step that changes nothing.
LEMMA StutterOneAtWork ==
  ASSUME OneAtWork, UNCHANGED vars
  PROVE  OneAtWork'
<1>1. UNCHANGED <<jobs, agent, faults, deliveries, target, call, tries>>
  BY DEF vars, qvars, ovars, history
<1>2. \A w \in Workers, j \in Jobs : Queue!Holds(w, j)' <=> Queue!Holds(w, j)
  BY <1>1 DEF Queue!Holds
<1>3. HeldIsRunning' /\ NothingFound' /\ AbsentHasNone'
  BY <1>1, <1>2 DEF OneAtWork, HeldIsRunning, NothingFound, AbsentHasNone
<1>4. OneActive'
  <2>1. \A j \in Jobs : Active(j)' <=> Active(j)
    BY <1>1, <1>2 DEF Active, Finishing
  <2> QED
    BY <1>1, <2>1 DEF OneAtWork, OneActive
<1>5. AtWork'
  BY <1>1, <1>2 DEF OneAtWork, AtWork, Knows, InTry, InRetry
<1>6. Counted'
  <2>1. \A d \in Deliveries : Trying(d)' <=> Trying(d)
    BY <1>1, <1>2 DEF Trying, InTry
  <2> QED
    BY <1>1, <2>1 DEF OneAtWork, Counted, CountedFor
<1> QED
  BY <1>3, <1>4, <1>5, <1>6 DEF OneAtWork

\* What the system does, in the terms of the lemmas above.
LEMMA StepKinds ==
  ASSUME Base, [Next]_vars
  PROVE  \/ Moves
         \/ Tick
         \/ \E d \in Deliveries : DeleteWebhook(d) \/ Replay(d) \/ \E j \in Jobs : RecordEvent(d, j)
         \/ \E w \in Workers : Handles(w) \/ ScheduleWrite(w)
         \/ UNCHANGED vars
<1>1. QueueMoves => Moves
  <2>1. QP!TypeOK /\ call \in [Workers -> Call] /\ WorkersNamed /\ CallsAreWork
    BY SameState DEF Base, Bound, TypeOK
  <2> QED
    BY <2>1, PollMoves, EndMoves, OutsideMoves DEF QueueMoves
<1> QED
  BY <1>1 DEF Next, QueueMoves, Run, Handles

(* Every step keeps the invariant.                                          *)
LEMMA NextOneAtWork ==
  ASSUME Base, Sound, OneAtWork, [Next]_vars
  PROVE  Base' /\ OneAtWork'
<1>1. Base'
  BY NextTypeOK, NextBound, NextQueue DEF Base, Sound
<1> QED
  BY <1>1, StepKinds, MovesOneAtWork, TickOneAtWork, DeleteOneAtWork, ReplayOneAtWork,
     RecordOneAtWork, HandlerOneAtWork, ScheduleOneAtWork, StutterOneAtWork

(* It holds of an empty database.                                           *)
LEMMA InitOneAtWork == Init => Base /\ OneAtWork
<1> SUFFICES ASSUME Init PROVE Base /\ OneAtWork
  OBVIOUS
<1>1. QP!OwnInv
  <2>1. QP!Init
    BY DEF Init, Queue!Init, Queue!Absent, Queue!Idle, Queue!Lapsed, Queue!Unset,
           QP!Init, QP!Absent, QP!Idle, QP!Lapsed, QP!Unset
  <2> QED
    BY <2>1, QPConstants
    DEF QP!Init, QP!Absent, QP!Idle, QP!Lapsed, QP!OwnInv, QP!IdleHoldsNothing, QP!OneWorkerPerJob,
        QP!ClaimIsLatest, QP!LeaseMeansRunning, QP!Holds
<1>2. /\ \A j \in Jobs : jobs[j].status = "absent" /\ target[j] = NoDelivery
      /\ \A w \in Workers, j \in Jobs : ~Queue!Holds(w, j)
      /\ \A w \in Workers : call[w] = Off
  BY QPConstants DEF Init, Queue!Init, Queue!Absent, Queue!Idle, Queue!Holds
<1>3. \A d \in Deliveries : /\ deliveries[d].status = "absent" /\ deliveries[d].next = 0
                            /\ deliveries[d].attempts = 0 /\ tries[d] = 0
  BY DEF Init
<1>4. HeldIsRunning /\ OneActive /\ NothingFound /\ AtWork
  BY <1>2 DEF HeldIsRunning, OneActive, Active, NothingFound, AtWork, Off
<1>5. AbsentHasNone
  BY <1>2, <1>3, OutboxConstantsOK DEF AbsentHasNone
<1>6. Counted
  <2>1. faults \in Nat /\ MaxTries \in Nat
    BY InitBound, SameState, OutboxConstantsOK DEF TypeOK, QP!TypeOK
  <2> QED
    BY <1>2, <1>3, <2>1 DEF Counted, CountedFor, Trying
<1> QED
  BY <1>1, <1>4, <1>5, <1>6, InitBound DEF Base, OneAtWork

\* The invariant, as it is used below.
LEMMA AlwaysOneAtWork == ASSUME Sound PROVE Spec => [](Base /\ OneAtWork)
<1>1. Init => Base /\ OneAtWork
  BY InitOneAtWork
<1>2. Base /\ OneAtWork /\ [Next]_vars => Base' /\ OneAtWork'
  BY NextOneAtWork
<1> QED
  BY <1>1, <1>2, PTL DEF Spec

\* "Ensure exactly one future job exists for a retried delivery"
\* (_schedule_delivery_retry): no more than one is ever queued, whoever is killed,
\* errors, reaps, replays or cancels, if no worker outlives its lease or is killed
\* between the commit of the retry's job and that of its own.
THEOREM OneJobAhead ==
  ASSUME Punctual, "returned" \notin KillStages \cup ErrorStages
  PROVE  Spec => []OneFutureJob
<1>1. Base /\ OneAtWork => OneFutureJob
  <2> SUFFICES ASSUME OneAtWork, NEW d \in Deliveries
               PROVE  Cardinality(JobsOf(d, "queued")) <= 1
    BY DEF OneFutureJob
  <2>1. \A j \in JobsOf(d, "queued") : j \in Jobs /\ Active(j) /\ target[j] = d
    BY DEF JobsOf, Active, Finishing, OneAtWork, HeldIsRunning
  <2>2. CASE JobsOf(d, "queued") = {}
    BY <2>2, FS_EmptySet
  <2>3. ASSUME NEW j \in JobsOf(d, "queued") PROVE Cardinality(JobsOf(d, "queued")) <= 1
    <3>1. \A k \in JobsOf(d, "queued") : k = j
      BY <2>1, <2>3 DEF OneAtWork, OneActive
    <3>2. JobsOf(d, "queued") = {j}
      BY <2>3, <3>1
    <3>3. Cardinality({j}) = 1
      BY FS_Singleton
    <3> QED
      BY <3>2, <3>3
  <2> QED
    BY <2>2, <2>3
<1> QED
  BY <1>1, AlwaysOneAtWork, PTL DEF Sound

\* A delivery is given up only after webhook_max_attempts tries, and no more are
\* begun than that and one for each fault.
THEOREM EveryTryCounts ==
  ASSUME Punctual, "returned" \notin KillStages \cup ErrorStages
  PROVE  Spec => []TriesAreCounted
<1>1. Base /\ OneAtWork => TriesAreCounted
  BY DEF OneAtWork, Counted, CountedFor, TriesAreCounted
<1> QED
  BY <1>1, AlwaysOneAtWork, PTL DEF Sound

\* A delivery that has succeeded is not sent again, nor marked as anything else, by
\* a late worker or a replay.
THEOREM SuccessIsFinal ==
  ASSUME Punctual, "returned" \notin KillStages \cup ErrorStages
  PROVE  Spec => SucceededIsFinal
<1>1. ASSUME Base, OneAtWork, [Next]_vars, NEW d \in Deliveries, deliveries[d].status = "succeeded"
      PROVE  deliveries'[d].status \in {"succeeded", "gone"}
  <2>1. CASE Moves \/ UNCHANGED vars \/ \E w \in Workers : ScheduleWrite(w)
    BY <1>1, <2>1 DEF Moves, vars, ovars, ScheduleWrite
  <2>2. CASE Tick
    BY <1>1, <2>2 DEF Tick, Base, TypeOK, Delivery
  <2>3. ASSUME NEW e \in Deliveries, DeleteWebhook(e) \/ Replay(e) \/ \E j \in Jobs : RecordEvent(e, j)
        PROVE  deliveries'[d].status \in {"succeeded", "gone"}
    BY <1>1, <2>3 DEF DeleteWebhook, Replay, Replayable, RecordEvent, Base, TypeOK
  <2>4. ASSUME NEW w \in Workers, Handles(w)
        PROVE  deliveries'[d].status \in {"succeeded", "gone"}
    <3>1. CASE d # DeliveryOf(w)
      BY <1>1, <2>4, <3>1, HandlerAlone
    <3>2. CASE d = DeliveryOf(w)
      <4>1. ~InTry(w)
        BY <1>1, <2>4, <3>2, HandlerAlone DEF OneAtWork, AtWork, Knows
      <4>2. Outcome(w, d)
        BY <1>1, <2>4, <3>2, HandlerStage DEF Sound
      <4> QED
        BY <1>1, <4>1, <4>2 DEF Outcome
    <3> QED
      BY <3>1, <3>2
  <2> QED
    BY <1>1, <2>1, <2>2, <2>3, <2>4, StepKinds
<1>2. Base /\ OneAtWork /\ [Next]_vars =>
        [\A d \in Deliveries : deliveries[d].status = "succeeded" =>
                                 deliveries'[d].status \in {"succeeded", "gone"}]_vars
  BY <1>1
<1> QED
  BY <1>2, AlwaysOneAtWork, PTL DEF Sound, Spec, SucceededIsFinal

-----------------------------------------------------------------------------
(***************************************************************************)
(* No delivery is lost but for the reason that is noted.  A retry's job    *)
(* must not find the delivery before its next_attempt_at, or it would take *)
(* it for done: an error between the two commits of a retry has the old    *)
(* job put back to be due at once, and after a kill between them it is the *)
(* reaper that puts it back, when what was left of the lease is over.      *)
(***************************************************************************)

\* A delivery that is still to be made has a job that says why not, if none will make it.
Kept(d) ==
  deliveries[d].status = "queued" /\ d \notin cut =>
    \E j \in Jobs : target[j] = d /\ (Active(j) \/ jobs[j].status \in {"failed", "cancelled"})

Waits(d) == deliveries[d].status = "queued" /\ deliveries[d].next > 0 /\ d \notin cut

\* The job's worker is about to add the next job; or it is gone, and the reaper finds
\* its lease lapsed only when the delivery is due.
Retrying(j) ==
  /\ jobs[j].lease >= 0
  /\ \A w \in Workers : Queue!Holds(w, j) => InRetry(w)
  /\ \/ \E w \in Workers : Queue!Holds(w, j)
     \/ jobs[j].lease + 1 >= deliveries[target[j]].next

\* While a delivery waits, so does its job, or its worker is about to add one that does.
Timely(j) ==
  Active(j) /\ Waits(target[j]) =>
    IF jobs[j].status = "queued" THEN jobs[j].delay >= deliveries[target[j]].next
    ELSE Retrying(j)

\* A worker has selected a job that is still due.
SelectedDue == \A w \in Workers : agent[w].pc = "selected" => jobs[agent[w].job].delay <= 0

AllKept == /\ \A d \in Deliveries : Kept(d)
           /\ \A j \in Jobs : Timely(j)
           /\ SelectedDue

\* Steps of the queue and the operator.
LEMMA MovesAllKept ==
  ASSUME Base, Sound, OneAtWork, AllKept, Moves
  PROVE  AllKept'
<1>1. /\ UNCHANGED <<deliveries, target>> /\ cut \subseteq cut'
      /\ \A j \in Jobs : RowSteps(j)
      /\ Takes /\ LetsGo /\ Selects
      /\ HeldIsRunning /\ WorkersNamed
      /\ deliveries \in [Deliveries -> Delivery] /\ QP!TypeOK
  BY SameState DEF Moves, OneAtWork, Base, Bound, TypeOK
<1>2. ASSUME NEW j \in Jobs, Active(j), jobs'[j].status \in {"queued", "running"} PROVE Active(j)'
  BY <1>1, <1>2 DEF Active, Finishing, Takes, Off
<1>3. ASSUME NEW d \in Deliveries PROVE Kept(d)'
  <2> SUFFICES ASSUME deliveries[d].status = "queued", d \notin cut
               PROVE  \E j \in Jobs : /\ target'[j] = d
                                      /\ Active(j)' \/ jobs'[j].status \in {"failed", "cancelled"}
    BY <1>1 DEF Kept
  <2>1. PICK j \in Jobs : target[j] = d /\ (Active(j) \/ jobs[j].status \in {"failed", "cancelled"})
    BY DEF AllKept, Kept
  <2>2. CASE Active(j)
    <3>1. jobs'[j].status \in {"queued", "running", "failed", "cancelled"}
      BY <1>1, <2>2 DEF Active, Finishing, RowSteps, RowMoves
    <3> QED
      BY <1>1, <1>2, <2>1, <2>2, <3>1
  <2>3. CASE jobs[j].status \in {"failed", "cancelled"}
    <3>1. jobs'[j].status = jobs[j].status
      BY <1>1, <2>3 DEF RowSteps, RowMoves, HeldIsRunning
    <3> QED
      BY <1>1, <2>1, <2>3, <3>1
  <2> QED
    BY <2>1, <2>2, <2>3
<1>4. ASSUME NEW j \in Jobs PROVE Timely(j)'
  <2> SUFFICES ASSUME Active(j)', Waits(target[j]), target[j] \notin cut'
               PROVE  IF jobs'[j].status = "queued" THEN jobs'[j].delay >= deliveries[target[j]].next
                      ELSE Retrying(j)'
    BY <1>1 DEF Timely, Waits
  <2>1. Active(j)
    BY ActiveBefore
  <2>2. target[j] \in Deliveries
    BY <2>1 DEF Base, Bound, JobsNamed, Active
  <2>3. deliveries[target[j]].next \in Nat /\ deliveries[target[j]].next > 0
    BY <1>1, <2>2, OutboxConstantsOK, QPConstants DEF Waits, Delivery
  <2>4. IF jobs[j].status = "queued" THEN jobs[j].delay >= deliveries[target[j]].next
        ELSE Retrying(j)
    BY <2>1 DEF AllKept, Timely
  <2>5. jobs[j].delay \in Int /\ jobs[j].lease \in Int
    BY <1>1, QPConstants DEF QP!TypeOK, QP!Row, QP!Unset, QP!Lapsed
  <2>6. jobs[j].status = "queued" => ~ \E w \in Workers : agent[w].pc = "selected" /\ agent[w].job = j
    BY <2>3, <2>4, <2>5 DEF AllKept, SelectedDue
  <2>7. jobs[j].status = "running" => \A w \in Workers : Queue!Holds(w, j) => call[w].stage # "raised"
    BY <2>4 DEF Retrying, InRetry
  <2>8. /\ jobs'[j].status = jobs[j].status /\ jobs'[j].delay = jobs[j].delay
        /\ jobs'[j].lease = jobs[j].lease \/ jobs'[j].lease = Lease
    <3>1. ~(jobs[j].status = "running" /\ jobs[j].lease < 0)
      BY <2>4, <2>5 DEF Retrying
    <3>2. jobs'[j].status \in {"queued", "running"}
      BY DEF Active
    <3> QED
      BY <1>1, <2>6, <2>7, <3>1, <3>2 DEF RowSteps, RowMoves, HeldIsRunning
  <2>9. CASE jobs[j].status = "queued"
    BY <2>4, <2>8, <2>9
  <2>10. CASE jobs[j].status # "queued"
    <3>1. \A w \in Workers : Queue!Holds(w, j)' => Queue!Holds(w, j) /\ call'[w] = call[w]
      BY <1>1, <2>10 DEF Takes
    <3>2. jobs[j].status = "running"
      BY <2>1, <2>10 DEF Active
    <3>3. jobs'[j].lease >= jobs[j].lease /\ jobs'[j].lease \in Int /\ jobs'[j].lease >= 0
      <4>1. jobs[j].lease <= Lease /\ Lease \in Nat
        BY <1>1, QPConstants DEF QP!TypeOK, QP!Row, QP!Lapsed
      <4> QED
        BY <2>4, <2>5, <2>8, <2>10, <4>1 DEF Retrying
    <3>4. ASSUME NEW w \in Workers, Queue!Holds(w, j), ~Queue!Holds(w, j)'
          PROVE  jobs'[j].lease + 1 >= deliveries[target[j]].next
      <4>1. call[w].stage \in {"marked", "scheduling"} /\ DeliveryOf(w) = target[j]
        BY <2>4, <2>10, <3>4 DEF Retrying, InRetry, DeliveryOf, Queue!Holds
      <4>2. CutsShort(w, jobs[j].lease + 1)
        BY <1>1, <3>2, <3>4, <4>1 DEF LetsGo
      <4>3. ~(deliveries[target[j]].next > jobs[j].lease + 1)
        BY <4>1, <4>2 DEF CutsShort
      <4> QED
        BY <2>3, <2>5, <3>3, <4>3
    <3>5. (\E w \in Workers : Queue!Holds(w, j)') \/ jobs'[j].lease + 1 >= deliveries[target[j]].next
      <4>1. CASE \E w \in Workers : Queue!Holds(w, j)
        BY <3>4, <4>1
      <4>2. CASE ~ \E w \in Workers : Queue!Holds(w, j)
        <5>1. jobs[j].lease + 1 >= deliveries[target[j]].next
          BY <2>4, <2>10, <4>2 DEF Retrying
        <5> QED
          BY <2>3, <2>5, <3>3, <5>1
      <4> QED
        BY <4>1, <4>2
    <3> QED
      BY <1>1, <2>4, <2>8, <2>10, <3>1, <3>3, <3>5 DEF Retrying, InRetry
  <2> QED
    BY <2>9, <2>10
<1>5. SelectedDue'
  <2> SUFFICES ASSUME NEW w \in Workers, agent'[w].pc = "selected"
               PROVE  jobs'[agent'[w].job].delay <= 0
    BY DEF SelectedDue
  <2>1. PICK j \in Jobs : agent'[w].job = j /\ jobs[j].delay <= 0
    BY <1>1 DEF Selects, AllKept, SelectedDue, WorkersNamed
  <2> QED
    BY <1>1, <2>1 DEF RowSteps
<1> QED
  BY <1>3, <1>4, <1>5 DEF AllKept

\* The clock.  A delivery and its job wait together, a worker's lease does not lapse,
\* and that of a worker that is gone lapses when all waiting is over.
LEMMA TickAllKept ==
  ASSUME Base, Sound, OneAtWork, AllKept, Tick
  PROVE  AllKept'
<1>1. /\ QP!TypeOK /\ WorkersNamed
      /\ UNCHANGED <<agent, target, cut>>
      /\ \A j \in Jobs :
           /\ jobs'[j].status = jobs[j].status
           /\ jobs'[j].delay = IF jobs[j].delay <= 0 THEN jobs[j].delay ELSE jobs[j].delay - 1
  BY SameState, TickedRows DEF Base, Bound, TypeOK, Tick, history
<1>2. \A d \in Deliveries : /\ deliveries'[d].status = deliveries[d].status
                            /\ deliveries'[d].next = Countdown(deliveries[d].next)
                            /\ deliveries[d].next \in 0 .. Backoff
  BY DEF Tick, Base, TypeOK, Delivery
<1>3. \A j \in Jobs : Active(j)' <=> Active(j)
  <2>1. \A w \in Workers : call'[w].stage = call[w].stage
    BY DEF Tick, Base, TypeOK, Call
  <2> QED
    BY <1>1, <2>1 DEF Active, Finishing, Queue!Holds
<1>4. \A d \in Deliveries : Kept(d)'
  BY <1>1, <1>2, <1>3 DEF AllKept, Kept
<1>5. ASSUME NEW j \in Jobs PROVE Timely(j)'
  <2> SUFFICES ASSUME Active(j), Waits(target[j])'
               PROVE  IF jobs[j].status = "queued" THEN jobs'[j].delay >= deliveries'[target[j]].next
                      ELSE Retrying(j)'
    BY <1>1, <1>3 DEF Timely
  <2>1. target[j] \in Deliveries
    BY DEF Base, Bound, JobsNamed, Active
  <2>2. /\ deliveries[target[j]].next \in Nat /\ deliveries[target[j]].next <= Backoff
        /\ deliveries'[target[j]].next = deliveries[target[j]].next - 1
        /\ deliveries'[target[j]].next > 0
    BY <1>1, <1>2, <2>1, OutboxConstantsOK, QPConstants DEF Waits, Countdown
  <2>3. Waits(target[j])
    BY <1>1, <1>2, <2>1, <2>2 DEF Waits
  <2>4. /\ jobs[j].delay \in Int /\ jobs[j].lease \in Int
        /\ jobs'[j].delay = IF jobs[j].delay <= 0 THEN jobs[j].delay ELSE jobs[j].delay - 1
        /\ jobs'[j].lease = IF jobs[j].lease = -1 THEN -1 ELSE jobs[j].lease - 1
    BY <1>1, QPConstants, TickedRows DEF QP!TypeOK, QP!Row, QP!Unset, QP!Lapsed
  <2>5. CASE jobs[j].status = "queued"
    <3>1. jobs[j].delay >= deliveries[target[j]].next
      BY <2>3, <2>5 DEF AllKept, Timely
    <3> QED
      BY <2>2, <2>4, <2>5, <3>1
  <2>6. CASE jobs[j].status # "queued"
    <3>1. Retrying(j)
      BY <2>3, <2>6 DEF AllKept, Timely
    <3>2. \A v \in Workers : (Queue!Holds(v, j)' <=> Queue!Holds(v, j)) /\ (InRetry(v)' <=> InRetry(v))
      BY <1>1 DEF Queue!Holds, InRetry, Tick, Base, TypeOK, Call
    <3>3. CASE \E w \in Workers : Queue!Holds(w, j)
      <4>1. jobs[j].lease # 0
        BY <3>3 DEF Tick, Queue!Tick, Sound
      <4>2. jobs'[j].lease >= 0
        BY <2>4, <3>1, <4>1 DEF Retrying
      <4> QED
        BY <2>6, <3>1, <3>2, <3>3, <4>2 DEF Retrying
    <3>4. CASE jobs[j].lease + 1 >= deliveries[target[j]].next
      <4>1. jobs[j].lease >= 0
        BY <3>1 DEF Retrying
      <4>2. jobs'[j].lease >= 0 /\ jobs'[j].lease + 1 >= deliveries'[target[j]].next
        BY <2>2, <2>4, <3>4, <4>1
      <4> QED
        BY <1>1, <2>6, <3>1, <3>2, <4>2 DEF Retrying
    <3> QED
      BY <3>1, <3>3, <3>4 DEF Retrying
  <2> QED
    BY <2>5, <2>6
<1>6. SelectedDue'
  BY <1>1 DEF AllKept, SelectedDue, WorkersNamed
<1> QED
  BY <1>4, <1>5, <1>6 DEF AllKept

(* The cascade deletes deliveries and leaves the jobs.                      *)
LEMMA DeleteAllKept ==
  ASSUME Base, AllKept, NEW d \in Deliveries, DeleteWebhook(d)
  PROVE  AllKept'
<1>1. UNCHANGED <<jobs, agent, target, call, cut>>
  BY DEF DeleteWebhook, qvars, history
<1>2. /\ deliveries'[d].status = "gone"
      /\ \A e \in Deliveries \ {d} : deliveries'[e] = deliveries[e]
  BY DEF DeleteWebhook, Base, TypeOK
<1>3. \A j \in Jobs : Active(j)' <=> Active(j)
  BY <1>1 DEF Active, Finishing, Queue!Holds
<1>4. \A e \in Deliveries : Kept(e)'
  BY <1>1, <1>2, <1>3 DEF AllKept, Kept
<1>5. ASSUME NEW j \in Jobs PROVE Timely(j)'
  <2>1. Active(j) => target[j] \in Deliveries
    BY DEF Base, Bound, JobsNamed, Active
  <2>2. Active(j) /\ Waits(target[j])' => Waits(target[j]) /\ deliveries'[target[j]] = deliveries[target[j]]
    BY <1>1, <1>2, <2>1 DEF Waits
  <2> QED
    BY <1>1, <1>3, <2>2 DEF AllKept, Timely, Retrying, InRetry, Queue!Holds
<1>6. SelectedDue'
  BY <1>1 DEF AllKept, SelectedDue
<1> QED
  BY <1>4, <1>5, <1>6 DEF AllKept

\* A delivery that is to be made from the start does not wait.
LEMMA FreshAllKept ==
  ASSUME Base, AllKept, NEW d \in Deliveries,
         UNCHANGED <<agent, call>>, cut' \in {cut, cut \ {d}},
         deliveries'[d].next = 0,
         \A e \in Deliveries \ {d} : deliveries'[e] = deliveries[e],
         \E j \in Jobs : target'[j] = d /\ Active(j)',
         \A j \in Jobs : target'[j] = d \/ (target'[j] = target[j] /\ jobs'[j] = jobs[j]),
         \A j \in Jobs : jobs[j].status # "absent" => target'[j] = target[j],
         \A j \in Jobs : jobs[j].status # "absent" =>
                           jobs'[j].delay = jobs[j].delay \/ jobs'[j].delay <= 0
  PROVE  AllKept'
<1>1. WorkersNamed /\ \A j \in Jobs : Active(j) => target[j] \in Deliveries
  BY DEF Base, Bound, JobsNamed, Active
<1>2. \A j \in Jobs : jobs'[j] = jobs[j] => (Active(j)' <=> Active(j))
  BY DEF Active, Finishing, Queue!Holds
<1>3. ASSUME NEW e \in Deliveries PROVE Kept(e)'
  <2>1. CASE e = d
    BY <2>1 DEF Kept
  <2>2. CASE e # d
    <3>1. \A j \in Jobs : /\ target[j] = e /\ (Active(j) \/ jobs[j].status \in {"failed", "cancelled"})
                          => target'[j] = e /\ jobs'[j] = jobs[j]
      BY <2>2 DEF Active
    <3> QED
      BY <1>2, <2>2, <3>1 DEF AllKept, Kept
  <2> QED
    BY <2>1, <2>2
<1>4. ASSUME NEW j \in Jobs PROVE Timely(j)'
  <2>1. CASE target'[j] = d
    BY <2>1 DEF Timely, Waits
  <2>2. CASE target'[j] # d
    <3>1. target'[j] = target[j] /\ jobs'[j] = jobs[j] /\ (Active(j)' <=> Active(j))
      BY <1>2, <2>2
    <3>2. Active(j) => deliveries'[target[j]] = deliveries[target[j]]
      BY <1>1, <2>2, <3>1
    <3> QED
      BY <3>1, <3>2 DEF AllKept, Timely, Retrying, Waits, InRetry, Queue!Holds
  <2> QED
    BY <2>1, <2>2
<1>5. SelectedDue'
  BY <1>1 DEF AllKept, SelectedDue, WorkersNamed
<1> QED
  BY <1>3, <1>4, <1>5 DEF AllKept

(* record_event inserts a delivery and its job in one transaction.          *)
LEMMA RecordAllKept ==
  ASSUME Base, OneAtWork, AllKept, NEW d \in Deliveries, NEW j \in Jobs, RecordEvent(d, j)
  PROVE  AllKept'
<1>1. /\ QP!TypeOK /\ target \in [Jobs -> Deliveries \cup {NoDelivery}]
      /\ deliveries \in [Deliveries -> Delivery]
  BY SameState DEF Base, TypeOK
<1>2. /\ deliveries[d].status = "absent" /\ NewJob(j, d, 0) /\ UNCHANGED <<call, cut>>
      /\ deliveries' = [deliveries EXCEPT ![d].status = "queued"]
  BY DEF RecordEvent, history
<1>3. deliveries[d].next = 0 /\ \A k \in Jobs : target[k] # d
  BY <1>2 DEF OneAtWork, AbsentHasNone
<1>4. /\ UNCHANGED agent /\ jobs[j].status = "absent" /\ jobs'[j].status = "queued" /\ target'[j] = d
      /\ \A k \in Jobs \ {j} : jobs'[k] = jobs[k] /\ target'[k] = target[k]
  BY <1>1, <1>2, InsertedRow
<1>5. /\ deliveries'[d].next = 0
      /\ \A e \in Deliveries \ {d} : deliveries'[e] = deliveries[e]
  BY <1>1, <1>2, <1>3 DEF Delivery
<1>6. Active(j)'
  BY <1>2, <1>4 DEF Active, Finishing, Queue!Holds, OneAtWork, HeldIsRunning
<1> QED
  BY <1>2, <1>4, <1>5, <1>6, FreshAllKept

(* A replay makes the delivery due and leaves a job that is due.            *)
LEMMA ReplayAllKept ==
  ASSUME Base, OneAtWork, AllKept, NEW d \in Deliveries, Replay(d)
  PROVE  AllKept'
<1>1. /\ QP!TypeOK /\ target \in [Jobs -> Deliveries \cup {NoDelivery}]
      /\ deliveries \in [Deliveries -> Delivery]
  BY SameState DEF Base, TypeOK
<1>2. /\ deliveries'[d].next = 0 /\ UNCHANGED call /\ cut' = cut \ {d}
      /\ \A e \in Deliveries \ {d} : deliveries'[e] = deliveries[e]
  BY <1>1 DEF Replay
<1>3. CASE ReuseJob(d)
  <2>1. UNCHANGED <<agent, target>> /\ JobsOf(d, "queued") # {}
    BY <1>3 DEF ReuseJob
  <2>2. PICK j \in Jobs : j = Oldest(JobsOf(d, "queued")) /\ target[j] = d /\ jobs[j].status = "queued"
    <3>1. JobsOf(d, "queued") \in SUBSET Jobs
      BY DEF JobsOf
    <3>2. Oldest(JobsOf(d, "queued")) \in JobsOf(d, "queued")
      BY <1>1, <2>1, <3>1, OldestFound
    <3> QED
      BY <3>2 DEF JobsOf
  <2>3. jobs'[j].status = "queued"
    BY <1>1, <1>3, <2>2, ReusedRows
  <2>4. Active(j)'
    BY <1>2, <2>1, <2>2, <2>3 DEF Active, Finishing, Queue!Holds, OneAtWork, HeldIsRunning
  <2>5. \A k \in Jobs : target'[k] = d \/ jobs'[k] = jobs[k]
    BY <1>1, <1>3, <2>1, ReusedRows
  <2>6. ASSUME NEW k \in Jobs PROVE jobs'[k].delay = jobs[k].delay \/ jobs'[k].delay <= 0
    <3>1. Queue!Reset(jobs[k], "gone").delay = jobs[k].delay
      BY <1>1, ResetRow DEF QP!TypeOK, QP!Status
    <3>2. [jobs[k] EXCEPT !.attempts = 0, !.delay = 0].delay = 0
      BY <1>1 DEF QP!TypeOK, QP!Row
    <3>3. jobs'[k] = IF k \notin JobsOf(d, "queued") THEN jobs[k]
                     ELSE IF k = Oldest(JobsOf(d, "queued"))
                       THEN [jobs[k] EXCEPT !.attempts = 0, !.delay = 0]
                     ELSE Queue!Reset(jobs[k], "gone")
      BY <1>3 DEF ReuseJob
    <3> QED
      BY <3>1, <3>2, <3>3
  <2> QED
    BY <1>2, <2>1, <2>2, <2>4, <2>5, <2>6, FreshAllKept
<1>4. ASSUME NEW j \in Jobs, NewJob(j, d, 0) PROVE AllKept'
  <2>1. /\ UNCHANGED agent /\ jobs[j].status = "absent" /\ jobs'[j].status = "queued" /\ target'[j] = d
        /\ \A k \in Jobs \ {j} : jobs'[k] = jobs[k] /\ target'[k] = target[k]
    BY <1>1, <1>4, InsertedRow
  <2>2. Active(j)'
    BY <1>2, <2>1 DEF Active, Finishing, Queue!Holds, OneAtWork, HeldIsRunning
  <2> QED
    BY <1>2, <2>1, <2>2, FreshAllKept
<1> QED
  BY <1>3, <1>4 DEF Replay, ReuseOrAddJob

\* A worker's job, while the handler has something left to do.
LEMMA AtItsJob ==
  ASSUME QP!OwnInv, OneAtWork, NEW w \in Workers, NEW j \in Jobs, Queue!Holds(w, j),
         call[w].stage # "returned"
  PROVE  /\ jobs[j].status = "running" /\ jobs[j].lease >= 0 /\ Active(j)
         /\ \A v \in Workers : Queue!Holds(v, j) => v = w
         /\ \A k \in Jobs : Active(k) /\ target[k] = target[j] => k = j
<1>1. jobs[j].status = "running"
  BY DEF OneAtWork, HeldIsRunning
<1>2. /\ \A v \in Workers : Queue!Holds(v, j) => v = w
      /\ jobs[j].lease >= 0
  BY <1>1, SameState DEF QP!OwnInv, QP!OneWorkerPerJob, QP!LeaseLive
<1>3. Active(j)
  BY <1>1, <1>2 DEF Active, Finishing
<1> QED
  BY <1>1, <1>2, <1>3 DEF OneAtWork, OneActive

(* Scheduling the retry gives the failed delivery its next job.             *)
LEMMA ScheduleAllKept ==
  ASSUME Base, OneAtWork, AllKept, NEW w \in Workers, ScheduleWrite(w)
  PROVE  AllKept'
<1>1. PICK i \in Jobs, d \in Deliveries :
        /\ i = agent[w].job /\ d = DeliveryOf(w) /\ Queue!Holds(w, i) /\ target[i] = d
        /\ InRetry(w) /\ UNCHANGED <<agent, deliveries, cut>> /\ call'[w].stage = "returned"
        /\ \A v \in Workers \ {w} : call'[v] = call[v]
  BY ScheduleInserts DEF Off
<1>2. PICK j \in Jobs :
        /\ jobs[j].status = "absent"
        /\ jobs'[j].status = "queued" /\ jobs'[j].delay = call[w].runAt
        /\ target'[j] = d
        /\ \A k \in Jobs \ {j} : jobs'[k] = jobs[k] /\ target'[k] = target[k]
  BY <1>1, ScheduleInserts
<1>3. /\ Active(i)
      /\ \A v \in Workers : Queue!Holds(v, i) => v = w
      /\ \A k \in Jobs : Active(k) /\ target[k] = d => k = i
  BY <1>1, AtItsJob DEF Base, InRetry
<1>4. /\ \A v \in Workers, k \in Jobs : Queue!Holds(v, k)' <=> Queue!Holds(v, k)
      /\ \A v \in Workers, k \in Jobs : Queue!Holds(v, k) => k # j
  BY <1>1, <1>2 DEF Queue!Holds, OneAtWork, HeldIsRunning
<1>5. Active(j)' /\ ~Active(i)' /\ i # j
  BY <1>1, <1>2, <1>4 DEF Active, Finishing
<1>6. \A k \in Jobs \ {j, i} : Active(k)' <=> Active(k)
  <2>1. \A k \in Jobs \ {j, i} : ~Queue!Holds(w, k)
    BY <1>1 DEF Queue!Holds
  <2> QED
    BY <1>1, <1>2, <1>4, <2>1 DEF Active, Finishing
<1>7. ASSUME NEW e \in Deliveries PROVE Kept(e)'
  <2>1. CASE e = d
    BY <1>2, <1>5, <2>1 DEF Kept
  <2>2. CASE e # d
    <3>1. SUFFICES ASSUME deliveries[e].status = "queued", e \notin cut PROVE Kept(e)'
      BY <1>1 DEF Kept
    <3>2. PICK k \in Jobs : target[k] = e /\ (Active(k) \/ jobs[k].status \in {"failed", "cancelled"})
      BY <3>1 DEF AllKept, Kept
    <3>3. k # j /\ k # i
      BY <1>1, <1>2, <2>2, <3>2 DEF Active
    <3> QED
      BY <1>2, <1>6, <3>2, <3>3 DEF Kept
  <2> QED
    BY <2>1, <2>2
<1>8. ASSUME NEW k \in Jobs PROVE Timely(k)'
  <2>1. CASE k = j
    <3>1. Waits(d) => call[w].runAt = deliveries[d].next /\ deliveries[d].next \in Nat
      <4>1. Knows(w, d)
        BY <1>1 DEF OneAtWork, AtWork
      <4> QED
        BY <1>1, <4>1, OutboxConstantsOK, QPConstants DEF Knows, Waits, Base, TypeOK, Delivery
    <3> QED
      BY <1>1, <1>2, <2>1, <3>1 DEF Timely, Waits
  <2>2. CASE k = i
    BY <1>5, <2>2 DEF Timely
  <2>3. CASE k \notin {i, j}
    <3>1. /\ Active(k)' <=> Active(k)
          /\ jobs'[k] = jobs[k] /\ target'[k] = target[k]
          /\ Timely(k)
      BY <1>2, <1>6, <2>3 DEF AllKept
    <3>2. \A v \in Workers : Queue!Holds(v, k)' => Queue!Holds(v, k) /\ v # w
      BY <1>1, <1>4, <2>3 DEF Queue!Holds
    <3>3. \A v \in Workers : Queue!Holds(v, k)' /\ InRetry(v) => InRetry(v)'
      BY <1>1, <3>2 DEF InRetry
    <3> QED
      BY <1>1, <1>4, <3>1, <3>2, <3>3 DEF Timely, Retrying, Waits
  <2> QED
    BY <2>1, <2>2, <2>3
<1>9. SelectedDue'
  BY <1>1, <1>2 DEF AllKept, SelectedDue, Base, Bound, WorkersNamed
<1> QED
  BY <1>7, <1>8, <1>9 DEF AllKept

\* What the handler did, as far as its delivery waits for it.
LEMMA HandlerWaits ==
  ASSUME Base, Sound, OneAtWork, AllKept, NEW w \in Workers, Handles(w),
         NEW j \in Jobs, NEW d \in Deliveries,
         j = agent[w].job, d = DeliveryOf(w), deliveries'[d].status = "queued", d \notin cut'
  PROVE  /\ deliveries[d].status = "queued"
         /\ call'[w].stage # "returned"
         /\ deliveries'[d].next > 0 => InRetry(w)'
<1>1. Outcome(w, d) /\ call[w].stage # "returned"
  BY HandlerStage
<1>2. Queue!Holds(w, j) /\ target[j] = d /\ deliveries \in [Deliveries -> Delivery]
  BY HandlerAlone DEF Base, TypeOK
<1>3. Knows(w, d) /\ Timely(j)
  BY <1>2 DEF OneAtWork, AtWork, AllKept
<1>4. Waits(d) => InRetry(w)
  BY <1>1, <1>2, <1>3, AtItsJob DEF Timely, Retrying, Base
<1>5. ASSUME NEW s \in {"succeeded", "dead"}, InTry(w), Mark(w, s, 0) PROVE FALSE
  <2>1. deliveries[d].status = "gone" => deliveries'[d].status = "gone"
    BY <1>5 DEF Mark
  <2>2. deliveries[d].status # "gone" => deliveries'[d].status = s
    BY <1>2, <1>5 DEF Mark
  <2> QED
    BY <2>1, <2>2
<1>6. CASE UNCHANGED deliveries
  <2>1. deliveries[d].status = "queued" /\ (deliveries[d].next > 0 /\ d \notin cut => Waits(d))
    BY <1>6 DEF Waits
  <2>2. call[w].stage = "off" => ~InRetry(w)
    BY DEF InRetry
  <2>3. InTry(w) => ~InRetry(w)
    BY DEF InTry, InRetry
  <2>4. InTry(w)' \/ InRetry(w)' => call'[w].stage # "returned"
    BY DEF InTry, InRetry
  <2>5. CASE /\ call[w].stage = "off" /\ call'[w].stage = "sending"
             /\ ~(deliveries[d].next > 0)
    BY <1>6, <2>1, <2>5
  <2>6. CASE /\ call'[w].stage = "raised"
             /\ cut' = IF InRetry(w) /\ deliveries[d].next > 0 THEN cut \cup {d} ELSE cut
    BY <1>4, <1>6, <2>1, <2>6
  <2>7. CASE UNCHANGED cut
    BY <1>1, <1>4, <1>5, <1>6, <2>1, <2>2, <2>3, <2>4, <2>6, <2>7 DEF Outcome
  <2> QED
    BY <1>1, <2>5, <2>6, <2>7 DEF Outcome
<1>7. CASE InTry(w) /\ call'[w].stage = "marked" /\ Mark(w, "queued", Backoff)
  <2>1. deliveries[d].status = "gone" => deliveries'[d].status = "gone"
    BY <1>7 DEF Mark
  <2>2. deliveries[d].status = "queued"
    BY <1>3, <1>7, <2>1 DEF Knows
  <2> QED
    BY <1>7, <2>2 DEF InRetry
<1> QED
  BY <1>1, <1>5, <1>6, <1>7 DEF Outcome

\* The handler's own steps.
LEMMA HandlerAllKept ==
  ASSUME Base, Sound, OneAtWork, AllKept, NEW w \in Workers, Handles(w)
  PROVE  AllKept'
<1>1. PICK j \in Jobs, d \in Deliveries :
        /\ j = agent[w].job /\ d = DeliveryOf(w) /\ Queue!Holds(w, j) /\ target[j] = d
        /\ UNCHANGED <<jobs, agent, target>>
        /\ \A v \in Workers \ {w} : call'[v] = call[v]
        /\ \A e \in Deliveries \ {d} : deliveries'[e] = deliveries[e] /\ (e \in cut' <=> e \in cut)
  BY HandlerAlone
<1>2. call[w].stage # "returned"
  BY HandlerStage
<1>3. /\ jobs[j].status = "running" /\ jobs[j].lease >= 0 /\ Active(j)
      /\ \A v \in Workers : Queue!Holds(v, j) => v = w
      /\ \A k \in Jobs : Active(k) /\ target[k] = d => k = j
  BY <1>1, <1>2, AtItsJob DEF Base
<1>4. \A v \in Workers, k \in Jobs : Queue!Holds(v, k)' <=> Queue!Holds(v, k)
  BY <1>1 DEF Queue!Holds
<1>5. \A k \in Jobs \ {j} : ~Queue!Holds(w, k) /\ (Active(k)' <=> Active(k))
  <2>1. \A k \in Jobs \ {j} : ~Queue!Holds(w, k)
    BY <1>1 DEF Queue!Holds
  <2> QED
    BY <1>1, <1>4, <2>1 DEF Active, Finishing
<1>6. Active(j)' <=> call'[w].stage # "returned"
  BY <1>1, <1>3, <1>4 DEF Active, Finishing
<1>7. deliveries'[d].status = "queued" /\ d \notin cut' =>
        /\ deliveries[d].status = "queued"
        /\ call'[w].stage # "returned"
        /\ deliveries'[d].next > 0 => InRetry(w)'
  BY <1>1, HandlerWaits
<1>8. ASSUME NEW e \in Deliveries PROVE Kept(e)'
  <2>1. CASE e = d
    BY <1>1, <1>6, <1>7, <2>1 DEF Kept
  <2>2. CASE e # d
    <3>1. \A k \in Jobs : target[k] = e => k # j
      BY <1>1, <2>2
    <3> QED
      BY <1>1, <1>5, <2>2, <3>1 DEF AllKept, Kept
  <2> QED
    BY <2>1, <2>2
<1>9. ASSUME NEW k \in Jobs PROVE Timely(k)'
  <2>1. CASE k = j
    BY <1>1, <1>3, <1>4, <1>7, <2>1 DEF Timely, Retrying, Waits
  <2>2. CASE k # j /\ Active(k)
    <3>1. target[k] \in Deliveries \ {d} /\ Timely(k) /\ (Active(k)' <=> Active(k))
      BY <1>3, <1>5, <2>2 DEF Base, Bound, JobsNamed, Active, AllKept
    <3>2. deliveries'[target[k]] = deliveries[target[k]] /\ (target[k] \in cut' <=> target[k] \in cut)
      BY <1>1, <3>1
    <3>3. \A v \in Workers : Queue!Holds(v, k)' => Queue!Holds(v, k) /\ call'[v] = call[v]
      BY <1>1, <1>4, <1>5, <2>2
    <3> QED
      BY <1>1, <1>4, <3>1, <3>2, <3>3 DEF Timely, Retrying, Waits, InRetry
  <2>3. CASE k # j /\ ~Active(k)
    BY <1>5, <2>3 DEF Timely
  <2> QED
    BY <2>1, <2>2, <2>3
<1>10. SelectedDue'
  BY <1>1 DEF AllKept, SelectedDue
<1> QED
  BY <1>8, <1>9, <1>10 DEF AllKept

(* What a step that changes nothing keeps.                                  *)
LEMMA StutterAllKept ==
  ASSUME AllKept, UNCHANGED vars
  PROVE  AllKept'
<1>1. UNCHANGED <<jobs, agent, deliveries, target, call, cut>>
  BY DEF vars, qvars, ovars, history
<1>2. \A j \in Jobs : /\ Active(j)' <=> Active(j)
                      /\ \A w \in Workers : Queue!Holds(w, j)' <=> Queue!Holds(w, j)
  BY <1>1 DEF Active, Finishing, Queue!Holds
<1> QED
  BY <1>1, <1>2 DEF AllKept, Kept, Timely, Retrying, Waits, InRetry, SelectedDue

(* Every step keeps the invariant.                                          *)
LEMMA NextAllKept ==
  ASSUME Base, Sound, OneAtWork, AllKept, [Next]_vars
  PROVE  AllKept'
BY StepKinds, MovesAllKept, TickAllKept, DeleteAllKept, ReplayAllKept, RecordAllKept,
   HandlerAllKept, ScheduleAllKept, StutterAllKept

(* It holds of an empty database.                                           *)
LEMMA InitAllKept == Init => AllKept
<1> SUFFICES ASSUME Init PROVE AllKept
  OBVIOUS
<1>1. /\ \A d \in Deliveries : deliveries[d].status = "absent"
      /\ \A j \in Jobs : jobs[j].status = "absent"
      /\ \A w \in Workers : agent[w].pc = "loop"
  BY DEF Init, Queue!Init, Queue!Absent, Queue!Idle
<1> QED
  BY <1>1 DEF AllKept, Kept, Timely, Active, SelectedDue

\* "Ensure exactly one future job exists for a retried delivery": a delivery that is
\* still to be made has a job that will make it, or one that failed or was
\* cancelled, whatever is reaped, retried, killed, replayed or fails in whatever
\* order, unless it is noted that its retry was cut short, if no worker outlives its
\* lease or is killed between the commit of the retry's job and that of its own.
THEOREM NoneStranded ==
  ASSUME Punctual, "returned" \notin KillStages \cup ErrorStages
  PROVE  Spec => []NoDeliveryStranded
<1>1. Sound
  BY DEF Sound
<1>2. Init => Base /\ OneAtWork /\ AllKept
  BY InitOneAtWork, InitAllKept
<1>3. Base /\ OneAtWork /\ AllKept /\ [Next]_vars => Base' /\ OneAtWork' /\ AllKept'
  BY <1>1, NextOneAtWork, NextAllKept
<1>4. AllKept => NoDeliveryStranded
  BY DEF AllKept, Kept, Active, NoDeliveryStranded, JobsOf
<1> QED
  BY <1>2, <1>3, <1>4, PTL DEF Spec
-----------------------------------------------------------------------------
(***************************************************************************)
(* The contract of the queue.                                              *)
(***************************************************************************)

\* A replay deletes the queued jobs of its delivery but one, ...
LEMMA ReuseDeletes ==
  ASSUME QP!TypeOK, NEW d \in Deliveries, ReuseJob(d)
  PROVE  QP!Contract!Next
<1>1. PICK S \in SUBSET Jobs :
        S = {j \in Jobs : /\ jobs[j].status \notin {"absent", "gone"}
                          /\ jobs'[j].status = "gone"}
  OBVIOUS
<1>2. \A j \in Jobs \ S : jobs'[j].status = jobs[j].status
  BY <1>1, ReusedRows
<1>3. \A v \in Workers, j \in Jobs : QP!Holds(v, j)' <=> QP!Holds(v, j)
  BY DEF ReuseJob, QP!Holds
<1> QED
  BY <1>1, <1>2, <1>3, QPConstants, QP!DeletingSteps

\* ... and a retry that moves a row's run_after is none of the contract's business.
LEMMA DelayStutters ==
  ASSUME TypeOK, NEW w \in Workers, Delay(w)
  PROVE  UNCHANGED QP!Contract!cvars
<1>1. \A j \in Jobs : jobs'[j].status = jobs[j].status
  BY SameState, DelayedRows DEF TypeOK
<1>2. \A v \in Workers, j \in Jobs : QP!Holds(v, j)' <=> QP!Holds(v, j)
  BY DEF Delay, QP!Holds
<1> QED
  BY <1>1, <1>2, QPConstants, QP!StutterSteps

\* While workers outlive no lease, jobs keep the contract of the queue (JobContract)
\* though webhooks.py writes rows of jobs behind the back of jobs.py: a replay that
\* starts attempts afresh and deletes rows, a retry that moves run_after.
THEOREM Implementation ==
  ASSUME Punctual
  PROVE  Spec => QP!ImplementsContract
<1>1. Init => QP!Contract!Init
  <2>1. Init => QP!Init
    BY DEF Init, Queue!Init, Queue!Absent, Queue!Idle, Queue!Lapsed, Queue!Unset,
           QP!Init, QP!Absent, QP!Idle, QP!Lapsed, QP!Unset
  <2> QED
    BY <2>1, QPConstants, QP!InitContract
<1>2. QP!OwnInv /\ TypeOK /\ [Next]_vars => QP!OwnInv'
  BY NextQueue
<1>3. Init => QP!OwnInv
  BY InitOneAtWork DEF Base
<1>4. TypeOK /\ QP!OwnInv /\ QP!OwnInv' /\ [Next]_vars => [QP!Contract!Next]_(QP!Contract!cvars)
  <2> SUFFICES ASSUME TypeOK, QP!OwnInv, QP!OwnInv', [Next]_vars
               PROVE  [QP!Contract!Next]_(QP!Contract!cvars)
    OBVIOUS
  <2>1. ASSUME NEW d \in Deliveries, Replay(d) /\ ReuseJob(d) PROVE QP!Contract!Next
    BY <2>1, SameState, ReuseDeletes DEF TypeOK
  <2>2. ASSUME NEW w \in Workers, ScheduleWrite(w) /\ Delay(w) PROVE UNCHANGED QP!Contract!cvars
    BY <2>2, DelayStutters
  <2>3. ASSUME NEW w \in Workers, Raise(w) PROVE UNCHANGED QP!Contract!cvars
    BY <2>3, QPConstants, QP!StutterSteps DEF Raise, QP!Holds
  <2>4. ASSUME [QP!Next]_(QP!vars) PROVE [QP!Contract!Next]_(QP!Contract!cvars)
    BY <2>4, SameState, QPConstants, QP!ContractStep DEF TypeOK
  <2> QED
    BY <2>1, <2>2, <2>3, <2>4, QueueStep
<1> QED
  BY <1>1, <1>2, <1>3, <1>4, TypeCorrect, PTL DEF Spec, QP!ImplementsContract, QP!Contract!Spec
=============================================================================
