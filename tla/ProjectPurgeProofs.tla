------------------------- MODULE ProjectPurgeProofs -------------------------
(***************************************************************************)
(* Theorems about the deletion of a project, for any number of purge jobs, *)
(* workers and requests, any lease length and any bounds.  What JobQueue's *)
(* proofs show of the queue is used through the instance QP: without       *)
(* recover_stuck_jobs.py --force, which is no action of ProjectPurge.      *)
(***************************************************************************)
EXTENDS ProjectPurge, FiniteSetTheorems, TLAPS

QP == INSTANCE JobQueueProofs WITH Forceable <- FALSE

-----------------------------------------------------------------------------
(***************************************************************************)
(* The queue inside.  Queue and QP are instances of the same module, so    *)
(* that what either says of the same variables is the same.                *)
(***************************************************************************)

\* What QP's lemmas ask of the constants.
LEMMA QPConstants ==
  /\ NoJob \notin Jobs /\ NoWorker \notin Workers
  /\ Lease \in Nat \ {0} /\ MaxAttempts \in Nat \ {0}
  /\ MaxDelay \in Nat /\ MaxFaults \in Nat
  /\ Punctual \in BOOLEAN /\ FALSE \in BOOLEAN
  BY QueueConstantsOK DEF Queue!ConstantsOK

\* The types ...
LEMMA SameTypes == QP!TypeOK <=> Queue!TypeOK
  BY DEF QP!TypeOK, QP!Row, QP!Agent, QP!Status, QP!Phase, QP!Terminal, QP!Lapsed, QP!Unset,
         Queue!TypeOK, Queue!Row, Queue!Agent, Queue!Status, Queue!Phase, Queue!Terminal,
         Queue!Lapsed, Queue!Unset

\* ... and who holds a job.
LEMMA SameState ==
  /\ QP!TypeOK <=> Queue!TypeOK
  /\ \A w \in Workers, j \in Jobs : QP!Holds(w, j) <=> Queue!Holds(w, j)
  BY SameTypes DEF QP!Holds, Queue!Holds

\* The steps that concern one worker and no job, or none.
LEMMA SameSteps ==
  ASSUME NEW w \in Workers
  PROVE  /\ Queue!ReapBeforePoll(w) <=> QP!ReapBeforePoll(w)
         /\ Queue!EmptyPoll(w) <=> QP!EmptyPoll(w)
         /\ Queue!Kill(w) <=> QP!Kill(w)
         /\ Queue!Escape(w) <=> QP!Escape(w)
         /\ Queue!Restart(w) <=> QP!Restart(w)
<1>1. Queue!ReapBeforePoll(w) <=> QP!ReapBeforePoll(w)
  BY DEF Queue!ReapBeforePoll, Queue!Reaped, Queue!Stale, Queue!Idle, Queue!Reset, Queue!Lapsed,
         QP!ReapBeforePoll, QP!Reaped, QP!Stale, QP!Idle, QP!Reset, QP!Lapsed
<1>2. Queue!EmptyPoll(w) <=> QP!EmptyPoll(w)
  BY DEF Queue!EmptyPoll, Queue!Due, Queue!Idle, QP!EmptyPoll, QP!Due, QP!Idle
<1>3. Queue!Kill(w) <=> QP!Kill(w)
  BY DEF Queue!Kill, Queue!Drop, Queue!Idle, QP!Kill, QP!Drop, QP!Idle
<1>4. Queue!Escape(w) <=> QP!Escape(w)
  BY DEF Queue!Escape, Queue!Drop, Queue!Idle, QP!Escape, QP!Drop, QP!Idle
<1>5. Queue!Restart(w) <=> QP!Restart(w)
  BY DEF Queue!Restart, Queue!Idle, QP!Restart, QP!Idle
<1> QED
  BY <1>1, <1>2, <1>3, <1>4, <1>5

\* The reaper's route and the clock.
LEMMA SameAround == (Queue!ReapRoute <=> QP!ReapRoute) /\ (Queue!Tick <=> QP!Tick)
<1>1. Queue!ReapRoute <=> QP!ReapRoute
  BY DEF Queue!ReapRoute, Queue!Reaped, Queue!Stale, Queue!Reset, Queue!Lapsed,
         QP!ReapRoute, QP!Reaped, QP!Stale, QP!Reset, QP!Lapsed
<1>2. Queue!Tick <=> QP!Tick
  BY DEF Queue!Tick, Queue!Holds, Queue!Lapsed, QP!Tick, QP!Holds, QP!Lapsed
<1> QED
  BY <1>1, <1>2

\* The steps of requests on a job.
LEMMA SameRequests ==
  ASSUME NEW j \in Jobs
  PROVE  /\ Queue!Enqueue(j, Queue!Unset) <=> QP!Enqueue(j, QP!Unset)
         /\ Queue!Cancel(j) <=> QP!Cancel(j)
  BY DEF Queue!Enqueue, Queue!Unset, Queue!Cancel, Queue!Stale, Queue!Reset, Queue!Lapsed,
         QP!Enqueue, QP!Unset, QP!Cancel, QP!Stale, QP!Reset, QP!Lapsed

\* The steps of a worker on a job.
LEMMA SameWork ==
  ASSUME NEW w \in Workers, NEW j \in Jobs
  PROVE  /\ Queue!ClaimSelect(w, j) <=> QP!ClaimSelect(w, j)
         /\ Queue!ClaimLost(w, j) <=> QP!ClaimLost(w, j)
         /\ Queue!Claim(w, j) <=> QP!Claim(w, j)
         /\ Queue!Fetch(w, j) <=> QP!Fetch(w, j)
         /\ Queue!Heartbeat(w, j) <=> QP!Heartbeat(w, j)
         /\ Queue!Complete(w, j) <=> QP!Complete(w, j)
         /\ Queue!Fail(w, j) <=> QP!Fail(w, j)
         /\ Queue!Requeue(w, j) <=> QP!Requeue(w, j)
<1>1. Queue!ClaimSelect(w, j) <=> QP!ClaimSelect(w, j)
  BY DEF Queue!ClaimSelect, Queue!Due, QP!ClaimSelect, QP!Due
<1>2. Queue!ClaimLost(w, j) <=> QP!ClaimLost(w, j)
  BY DEF Queue!ClaimLost, Queue!Idle, QP!ClaimLost, QP!Idle
<1>3. Queue!Claim(w, j) <=> QP!Claim(w, j)
  BY DEF Queue!Claim, Queue!Granted, QP!Claim, QP!Granted
<1>4. Queue!Fetch(w, j) <=> QP!Fetch(w, j)
  BY DEF Queue!Fetch, Queue!Holds, Queue!Idle, QP!Fetch, QP!Holds, QP!Idle
<1>5. Queue!Heartbeat(w, j) <=> QP!Heartbeat(w, j)
  BY DEF Queue!Heartbeat, Queue!Holds, Queue!LeaseLive, QP!Heartbeat, QP!Holds, QP!LeaseLive
<1>6. \A s : Queue!Finish(w, j, s) <=> QP!Finish(w, j, s)
  BY DEF Queue!Finish, Queue!Holds, Queue!Ended, Queue!Reset, Queue!Lapsed, Queue!Unset, Queue!Idle,
         QP!Finish, QP!Holds, QP!Ended, QP!Reset, QP!Lapsed, QP!Unset, QP!Idle
<1>7. Queue!Complete(w, j) <=> QP!Complete(w, j)
  BY <1>6 DEF Queue!Complete, QP!Complete
<1>8. Queue!Fail(w, j) <=> QP!Fail(w, j)
  BY <1>6 DEF Queue!Fail, QP!Fail
<1>9. Queue!Requeue(w, j) <=> QP!Requeue(w, j)
  BY <1>6 DEF Queue!Requeue, QP!Requeue
<1> QED
  BY <1>1, <1>2, <1>3, <1>4, <1>5, <1>7, <1>8, <1>9

\* Every step is one of the queue, or leaves it alone, but the purge and an error.
LEMMA QueueStep ==
  ASSUME [Next]_vars, ~ \E w \in Workers : Purge(w) \/ Raise(w),
         ~ \E c \in Clients : ApiCrash(c)
  PROVE  [QP!Next]_(QP!vars)
<1> USE QPConstants
<1>1. CASE UNCHANGED qvars
  BY <1>1 DEF qvars, QP!vars
<1>2. ASSUME NEW w \in Workers,
             \/ QP!ReapBeforePoll(w) \/ QP!EmptyPoll(w)
             \/ \E j \in Jobs :
                  \/ QP!ClaimSelect(w, j) \/ QP!ClaimLost(w, j) \/ QP!Claim(w, j)
                  \/ QP!Fetch(w, j) \/ QP!Heartbeat(w, j)
                  \/ QP!Complete(w, j) \/ QP!Fail(w, j) \/ QP!Requeue(w, j)
      PROVE  QP!Next
  BY <1>2 DEF QP!Next, QP!Run
<1>3. ASSUME NEW c \in Clients, MarkDeleting(c) \/ \E j \in Jobs : CancelPurge(c, j)
      PROVE  QP!Next \/ UNCHANGED qvars
  <2>1. QP!Unset \in QP!Unset .. MaxDelay
    BY DEF QP!Unset
  <2> QED
    BY <1>3, <2>1, SameRequests DEF MarkDeleting, CancelPurge, QP!Next
<1>4. ASSUME NEW w \in Workers, Poll(w) PROVE QP!Next
  BY <1>2, <1>4, SameSteps, SameWork DEF Poll
<1>5. ASSUME NEW w \in Workers, End(w) PROVE QP!Next
  BY <1>2, <1>5, SameWork DEF End
<1>6. ASSUME NEW w \in Workers, Kill(w) PROVE QP!Next
  BY <1>6, SameSteps DEF Kill, QP!Next
<1>7. ASSUME Around PROVE QP!Next
  BY <1>7, SameAround, SameSteps DEF Around, QP!Next
<1> QED
  BY <1>1, <1>3, <1>4, <1>5, <1>6, <1>7
  DEF Next, Proceed, Run, vars, Admit, Write, FindProject, ClearFlag, Look, QP!vars

-----------------------------------------------------------------------------
(***************************************************************************)
(* The inductive invariant.  A project has at most one job that will purge *)
(* it, and none while it takes writes or is being given back; its worker,  *)
(* if it has one, is the only one there is.                                *)
(***************************************************************************)

\* A job that a worker is to run, or is running.
Live(j) == jobs[j].status \in {"queued", "running"}

\* A worker in the handler has a job.
BusyHasJob == \A w \in Workers : agent[w].pc = "working" => agent[w].job \in Jobs

\* A job that is worked on is running: nothing but its worker's own purge, which
\* spares it, deletes the row of a job that is worked on.
HeldIsRunning == \A w \in Workers, j \in Jobs : Queue!Holds(w, j) => jobs[j].status = "running"

OneLive == \A j, k \in Jobs : Live(j) /\ Live(k) => j = k

\* Whoever gives the project back has cancelled the only purge there was.
GivingBackAlone ==
  \A c \in Clients : request[c] = "clearing" =>
    /\ project # "active"
    /\ \A j \in Jobs : ~Live(j)
    /\ \A b \in Clients : request[b] = "clearing" => b = c

ActiveIsQuiet == project = "active" => \A j \in Jobs : ~Live(j)

ReturnedIsGone == \A w \in Workers : stage[w] = "returned" => project = "gone"

PurgeInv ==
  /\ BusyHasJob /\ HeldIsRunning /\ OneLive /\ GivingBackAlone /\ ActiveIsQuiet
  /\ ReturnedIsGone

\* An error that the queue does not see is counted, and that is all.
LEMMA FaultOnly ==
  ASSUME QP!TypeOK, faults < MaxFaults, faults' = faults + 1,
         UNCHANGED <<jobs, agent, arrivals, retries>>
  PROVE  QP!TypeOK' /\ (QP!OwnInv => QP!OwnInv')
<1>1. QP!TypeOK'
  BY QPConstants DEF QP!TypeOK
<1>2. QP!OwnInv => QP!OwnInv'
  BY DEF QP!OwnInv, QP!IdleHoldsNothing, QP!OneWorkerPerJob, QP!ClaimIsLatest, QP!LeaseMeansRunning,
         QP!Holds, QP!LeaseLive, QP!Claimant
<1> QED
  BY <1>1, <1>2

\* What becomes of a row that is cancelled, put back or deleted.
LEMMA ResetRow ==
  ASSUME NEW row \in QP!Row, NEW s \in QP!Status
  PROVE  /\ Queue!Reset(row, s) \in QP!Row
         /\ Queue!Reset(row, s).status = s
         /\ Queue!Reset(row, s).lease < 0
<1>1. Queue!Reset(row, s) = QP!Reset(row, s)
  BY DEF Queue!Reset, Queue!Lapsed, QP!Reset, QP!Lapsed
<1>2. QP!Reset(row, s) \in QP!Row
  BY QPConstants, QP!ResetType
<1>3. QP!Reset(row, s).status = s /\ QP!Reset(row, s).lease = -1
  BY DEF QP!Reset, QP!Row, QP!Lapsed
<1> QED
  BY <1>1, <1>2, <1>3

\* The purge deletes the rows of the other jobs, and leaves its own, ...
LEMMA PurgeRows ==
  ASSUME QP!TypeOK, NEW w \in Workers, Purge(w)
  PROVE  /\ jobs' \in [Jobs -> QP!Row]
         /\ \A j \in Jobs : \/ jobs'[j] = jobs[j]
                            \/ /\ j # agent[w].job
                               /\ jobs'[j].status = "gone" /\ jobs'[j].lease < 0
<1>1. jobs \in [Jobs -> QP!Row] /\ "gone" \in QP!Status
  BY DEF QP!TypeOK, QP!Status
<1>2. \A j \in Jobs : /\ Queue!Reset(jobs[j], "gone") \in QP!Row
                      /\ Queue!Reset(jobs[j], "gone").status = "gone"
                      /\ Queue!Reset(jobs[j], "gone").lease < 0
  BY <1>1, ResetRow
<1> QED
  BY <1>1, <1>2 DEF Purge

\* ... and nobody works on them.
LEMMA PurgeSpares ==
  ASSUME Queue!TypeOK, BusyHasJob, HeldIsRunning, OneLive, NEW w \in Workers, Purge(w)
  PROVE  /\ agent[w].job \in Jobs /\ Queue!Holds(w, agent[w].job)
         /\ jobs'[agent[w].job] = jobs[agent[w].job]
         /\ \A v \in Workers, j \in Jobs : Queue!Holds(v, j) => j = agent[w].job
         /\ \A j \in Jobs \ {agent[w].job} : ~Live(j)'
<1>1. agent[w].job \in Jobs /\ Queue!Holds(w, agent[w].job)
  BY DEF Purge, Handler, BusyHasJob, Queue!Holds
<1>2. \A v \in Workers, j \in Jobs : Queue!Holds(v, j) => j = agent[w].job
  BY <1>1 DEF HeldIsRunning, OneLive, Live
<1>3. jobs'[agent[w].job] = jobs[agent[w].job]
  BY <1>1 DEF Purge, Queue!TypeOK
<1>4. ASSUME NEW j \in Jobs \ {agent[w].job} PROVE ~Live(j)'
  <2>1. ~Live(j)
    BY <1>1 DEF HeldIsRunning, OneLive, Live
  <2>2. jobs'[j] = jobs[j] \/ jobs'[j].status = "gone"
    BY DEF Purge, Queue!Reset, Queue!TypeOK, Queue!Row
  <2> QED
    BY <2>1, <2>2 DEF Live
<1> QED
  BY <1>1, <1>2, <1>3, <1>4

\* The queue's invariant holds here too, although the purge is no step of the queue.
LEMMA QueueInv ==
  ASSUME Punctual, QP!TypeOK, QP!OwnInv, BusyHasJob, HeldIsRunning, OneLive, [Next]_vars
  PROVE  QP!TypeOK' /\ QP!OwnInv'
<1>1. ASSUME NEW w \in Workers, Purge(w) PROVE QP!TypeOK' /\ QP!OwnInv'
  <2> DEFINE own == agent[w].job
  <2>1. /\ own \in Jobs /\ jobs'[own] = jobs[own]
        /\ \A v \in Workers, j \in Jobs : QP!Holds(v, j) => j = own
    BY <1>1, PurgeSpares, SameState
  <2>2. agent' = agent
    BY <1>1 DEF Purge
  <2>3. \A j \in Jobs : jobs'[j] = jobs[j] \/ ~(jobs'[j].lease >= 0)
    BY <1>1, PurgeRows, QPConstants DEF QP!Row, QP!Lapsed
  <2>4. QP!OneWorkerPerJob'
    BY <2>1, <2>2 DEF QP!OwnInv, QP!OneWorkerPerJob, QP!Holds, QP!LeaseLive
  <2>5. QP!ClaimIsLatest'
    BY <2>1, <2>2 DEF QP!OwnInv, QP!ClaimIsLatest, QP!Holds, QP!Claimant
  <2>6. QP!LeaseMeansRunning'
    BY <2>3 DEF QP!OwnInv, QP!LeaseMeansRunning
  <2>7. QP!IdleHoldsNothing'
    BY <2>2 DEF QP!OwnInv, QP!IdleHoldsNothing
  <2> QED
    BY <1>1, <2>4, <2>5, <2>6, <2>7, PurgeRows DEF Purge, QP!TypeOK, QP!OwnInv
<1>2. ASSUME NEW w \in Workers, Raise(w) PROVE QP!TypeOK' /\ QP!OwnInv'
  BY <1>2, FaultOnly DEF Raise
<1>3. ASSUME NEW c \in Clients, ApiCrash(c) PROVE QP!TypeOK' /\ QP!OwnInv'
  BY <1>3, FaultOnly DEF ApiCrash
<1>4. ASSUME [QP!Next]_(QP!vars) PROVE QP!TypeOK' /\ QP!OwnInv'
  BY <1>4, QPConstants, QP!NextTypeOK, QP!NextOwnInv
<1> QED
  BY <1>1, <1>2, <1>3, <1>4, QueueStep

\* A job that is worked on has a lease that still runs, and one worker.
LEMMA HeldIsLive ==
  ASSUME QP!TypeOK, QP!OwnInv, HeldIsRunning,
         NEW w \in Workers, NEW j \in Jobs, Queue!Holds(w, j)
  PROVE  /\ jobs[j].status = "running" /\ ~Queue!Stale(j)
         /\ \A v \in Workers : Queue!Holds(v, j) => v = w
<1>1. jobs[j].status = "running"
  BY DEF HeldIsRunning
<1>2. QP!LeaseLive(j) /\ \A v \in Workers : Queue!Holds(v, j) => v = w
  BY <1>1, SameState DEF QP!OwnInv, QP!OneWorkerPerJob
<1>3. jobs[j].lease \in Int
  BY QPConstants DEF QP!TypeOK, QP!Row, QP!Lapsed
<1> QED
  BY <1>1, <1>2, <1>3 DEF QP!LeaseLive, Queue!Stale

\* A step of the worker keeps the invariant if it brings no job to life, takes
\* none that is held out of "running", and leaves the project and its requests alone.
LEMMA QuietPurge ==
  ASSUME PurgeInv, BusyHasJob', HeldIsRunning', ReturnedIsGone',
         \A j \in Jobs : Live(j)' => Live(j),
         project' = project,
         \A c \in Clients : request'[c] = "clearing" => request[c] = "clearing"
  PROVE  PurgeInv'
<1>1. OneLive'
  BY DEF PurgeInv, OneLive
<1>2. GivingBackAlone'
  BY DEF PurgeInv, GivingBackAlone
<1>3. ActiveIsQuiet'
  BY DEF PurgeInv, ActiveIsQuiet
<1> QED
  BY <1>1, <1>2, <1>3 DEF PurgeInv

\* A reaper pass keeps every job as live as it is, and touches none that is held.
LEMMA ReapedRows ==
  ASSUME QP!TypeOK, QP!OwnInv, HeldIsRunning
  PROVE  \A j \in Jobs :
           /\ Queue!Reaped[j].status \in {"queued", "running"} <=> Live(j)
           /\ jobs[j].status = "failed" <=> Queue!Reaped[j].status = "failed"
           /\ \A w \in Workers : Queue!Holds(w, j) => Queue!Reaped[j] = jobs[j]
<1> SUFFICES ASSUME NEW j \in Jobs
             PROVE  /\ Queue!Reaped[j].status \in {"queued", "running"} <=> Live(j)
                    /\ jobs[j].status = "failed" <=> Queue!Reaped[j].status = "failed"
                    /\ \A w \in Workers : Queue!Holds(w, j) => Queue!Reaped[j] = jobs[j]
  OBVIOUS
<1>1. CASE Queue!Stale(j)
  <2>1. Queue!Reaped[j].status = "queued"
    BY <1>1, ResetRow DEF Queue!Reaped, QP!TypeOK, QP!Status
  <2> QED
    BY <1>1, <2>1, HeldIsLive DEF Live, Queue!Stale
<1>2. CASE ~Queue!Stale(j)
  BY <1>2 DEF Queue!Reaped, Live
<1> QED
  BY <1>1, <1>2

\* What an ending makes of its row.
LEMMA EndedRows ==
  ASSUME QP!TypeOK, NEW w \in Workers, NEW j \in Jobs, NEW s \in {"queued", "done", "failed"},
         Queue!Finish(w, j, s)
  PROVE  /\ jobs'[j].status \in {s, "gone"}
         /\ \A k \in Jobs \ {j} : jobs'[k] = jobs[k]
         /\ agent'[w].job = NoJob /\ agent'[w].pc = "loop"
         /\ \A v \in Workers \ {w} : agent'[v] = agent[v]
         /\ Queue!Holds(w, j)
<1>1. Queue!Ended(jobs[j], s) = QP!Ended(jobs[j], s)
  BY DEF Queue!Ended, Queue!Reset, Queue!Lapsed, Queue!Unset, QP!Ended, QP!Reset, QP!Lapsed, QP!Unset
<1>2. QP!Ended(jobs[j], s).status \in {s, "gone"}
  BY QPConstants, QP!EndedRow DEF QP!TypeOK
<1> QED
  BY <1>1, <1>2 DEF Queue!Finish, Queue!Idle, QP!TypeOK

\* Polling for a job: the reaper, the claim, the heartbeat.
LEMMA PollPurge ==
  ASSUME QP!TypeOK, QP!OwnInv, PurgeInv, NEW w \in Workers, Poll(w)
  PROVE  PurgeInv'
<1> USE DEF Poll, PurgeInv
<1>1. CASE Queue!ReapBeforePoll(w)
  <2>1. /\ jobs' = Queue!Reaped
        /\ agent'[w].pc = "poll" /\ agent'[w].job = NoJob
        /\ \A v \in Workers \ {w} : agent'[v] = agent[v]
    BY <1>1 DEF Queue!ReapBeforePoll, Queue!Idle, QP!TypeOK
  <2>2. \A v \in Workers, j \in Jobs : Queue!Holds(v, j)' => Queue!Holds(v, j)
    BY <2>1, QPConstants DEF Queue!Holds
  <2>3. BusyHasJob' /\ HeldIsRunning'
    BY <2>1, <2>2, ReapedRows DEF BusyHasJob, HeldIsRunning
  <2> QED
    BY <2>1, <2>3, ReapedRows, QuietPurge DEF Live, ReturnedIsGone
<1>2. CASE Queue!EmptyPoll(w)
  <2>1. BusyHasJob' /\ HeldIsRunning'
    BY <1>2, QPConstants
    DEF Queue!EmptyPoll, Queue!Idle, QP!TypeOK, BusyHasJob, HeldIsRunning, Queue!Holds
  <2> QED
    BY <1>2, <2>1, QuietPurge DEF Queue!EmptyPoll, Live, ReturnedIsGone
<1>3. ASSUME NEW j \in Jobs, Queue!ClaimSelect(w, j) \/ Queue!ClaimLost(w, j) \/ Queue!Fetch(w, j)
      PROVE  PurgeInv'
  <2>1. /\ jobs' = jobs
        /\ agent'[w].pc # "working"
        /\ \/ agent'[w].job = NoJob
           \/ agent'[w].pc = "selected"
           \/ Queue!Holds(w, j) /\ agent'[w].job = j
        /\ \A v \in Workers \ {w} : agent'[v] = agent[v]
    <3>1. CASE Queue!ClaimSelect(w, j)
      BY <3>1 DEF Queue!ClaimSelect, QP!TypeOK, QP!Agent
    <3>2. CASE Queue!ClaimLost(w, j)
      BY <3>2 DEF Queue!ClaimLost, Queue!Idle, QP!TypeOK
    <3>3. CASE Queue!Fetch(w, j)
      BY <3>3 DEF Queue!Fetch, Queue!Holds, Queue!Idle, QP!TypeOK, QP!Agent
    <3> QED
      BY <1>3, <3>1, <3>2, <3>3
  <2>2. BusyHasJob' /\ HeldIsRunning'
    BY <2>1, QPConstants DEF BusyHasJob, HeldIsRunning, Queue!Holds
  <2> QED
    BY <2>1, <2>2, QuietPurge DEF Live, ReturnedIsGone
<1>4. ASSUME NEW j \in Jobs, Queue!Claim(w, j) PROVE PurgeInv'
  <2>1. /\ jobs[j].status = "queued" /\ jobs'[j].status = "running"
        /\ \A k \in Jobs \ {j} : jobs'[k] = jobs[k]
        /\ agent'[w].pc = "claimed" /\ agent'[w].job = j
        /\ \A v \in Workers \ {w} : agent'[v] = agent[v]
    BY <1>4 DEF Queue!Claim, Queue!Granted, QP!TypeOK, QP!Row
  <2>2. BusyHasJob' /\ HeldIsRunning'
    BY <2>1 DEF BusyHasJob, HeldIsRunning, Queue!Holds
  <2> QED
    BY <2>1, <2>2, QuietPurge DEF Live, ReturnedIsGone
<1>5. ASSUME NEW j \in Jobs, Queue!Heartbeat(w, j) PROVE PurgeInv'
  <2>1. /\ \A k \in Jobs : jobs'[k].status = jobs[k].status
        /\ agent'[w].pc = "working" /\ agent'[w].job = j /\ Queue!Holds(w, j)
        /\ \A v \in Workers \ {w} : agent'[v] = agent[v]
    BY <1>5 DEF Queue!Heartbeat, Queue!Holds, QP!TypeOK, QP!Row, QP!Agent
  <2>2. BusyHasJob' /\ HeldIsRunning'
    BY <2>1 DEF BusyHasJob, HeldIsRunning, Queue!Holds
  <2> QED
    BY <2>1, <2>2, QuietPurge DEF Live, ReturnedIsGone
<1> QED
  BY <1>1, <1>2, <1>3, <1>4, <1>5

\* The end of the handler, whichever it is.
LEMMA EndPurge ==
  ASSUME QP!TypeOK, QP!OwnInv, PurgeInv, NEW w \in Workers, End(w)
  PROVE  PurgeInv'
<1>1. PICK j \in Jobs, s \in {"queued", "done", "failed"} : Queue!Finish(w, j, s)
  BY DEF End, Queue!Complete, Queue!Requeue, Queue!Fail
<1>2. /\ Queue!Holds(w, j)
      /\ \A k \in Jobs : Live(k)' => Live(k)
  BY <1>1, EndedRows DEF PurgeInv, HeldIsRunning, Live
<1>3. \A v \in Workers, k \in Jobs : Queue!Holds(v, k)' => Queue!Holds(v, k) /\ k # j
  <2>1. \A v \in Workers : Queue!Holds(v, j) => v = w
    BY <1>2, HeldIsLive DEF PurgeInv
  <2> QED
    BY <1>1, <2>1, EndedRows, QPConstants DEF Queue!Holds
<1>4. HeldIsRunning'
  BY <1>1, <1>3, EndedRows DEF PurgeInv, HeldIsRunning
<1>5. BusyHasJob'
  BY <1>1, EndedRows DEF PurgeInv, BusyHasJob
<1>6. ReturnedIsGone' /\ project' = project /\ request' = request
  BY DEF End, Leave, PurgeInv, ReturnedIsGone
<1> QED
  BY <1>2, <1>4, <1>5, <1>6, QuietPurge

\* A kill, an error that escapes, and a restart let go of the job.
LEMMA DropPurge ==
  ASSUME QP!TypeOK, PurgeInv, NEW w \in Workers, NEW p \in {"down", "loop"},
         agent' = [agent EXCEPT ![w] = Queue!Idle(p)], UNCHANGED <<jobs, project, request>>,
         ReturnedIsGone'
  PROVE  PurgeInv'
<1>1. /\ agent'[w].job = NoJob /\ agent'[w].pc # "working"
      /\ \A v \in Workers \ {w} : agent'[v] = agent[v]
  BY DEF Queue!Idle, QP!TypeOK
<1>2. BusyHasJob' /\ HeldIsRunning'
  BY <1>1, QPConstants DEF PurgeInv, BusyHasJob, HeldIsRunning, Queue!Holds
<1> QED
  BY <1>2, QuietPurge DEF Live

\* A deletion that is requested queues the only job there is.
LEMMA MarkPurge ==
  ASSUME QP!TypeOK, PurgeInv, NEW c \in Clients, MarkDeleting(c)
  PROVE  PurgeInv'
<1>1. \A b \in Clients : request'[b] = "clearing" => request[b] = "clearing"
  BY DEF MarkDeleting, Goes
<1>2. CASE project = "active"
  <2>1. PICK j \in Jobs : Queue!Enqueue(j, Queue!Unset)
    BY <1>2 DEF MarkDeleting
  <2>2. /\ agent' = agent /\ jobs[j].status = "absent"
        /\ \A k \in Jobs \ {j} : jobs'[k] = jobs[k]
        /\ project' = "deleting" /\ stage' = stage
    BY <1>2, <2>1 DEF MarkDeleting, Queue!Enqueue, QP!TypeOK
  <2>3. \A k \in Jobs : Live(k)' => k = j
    BY <1>2, <2>2 DEF PurgeInv, ActiveIsQuiet, Live
  <2>4. \A b \in Clients : request'[b] # "clearing"
    BY <1>1, <1>2 DEF PurgeInv, GivingBackAlone
  <2>5. BusyHasJob' /\ HeldIsRunning'
    BY <2>2 DEF PurgeInv, BusyHasJob, HeldIsRunning, Queue!Holds
  <2>6. OneLive' /\ GivingBackAlone' /\ ActiveIsQuiet'
    BY <2>2, <2>3, <2>4 DEF OneLive, GivingBackAlone, ActiveIsQuiet
  <2>7. ReturnedIsGone'
    BY <1>2, <2>2 DEF PurgeInv, ReturnedIsGone
  <2> QED
    BY <2>5, <2>6, <2>7 DEF PurgeInv
<1>3. CASE project # "active"
  <2>1. UNCHANGED <<jobs, agent, project, stage>>
    BY <1>3 DEF MarkDeleting, qvars
  <2>2. BusyHasJob' /\ HeldIsRunning' /\ ReturnedIsGone'
    BY <2>1 DEF PurgeInv, BusyHasJob, HeldIsRunning, ReturnedIsGone, Queue!Holds
  <2> QED
    BY <1>1, <2>1, <2>2, QuietPurge DEF Live
<1> QED
  BY <1>2, <1>3

\* A cancellation takes the only job there is, and nobody works on it.
LEMMA CancelKeeps ==
  ASSUME QP!TypeOK, QP!OwnInv, PurgeInv, NEW c \in Clients, NEW j \in Jobs, CancelPurge(c, j)
  PROVE  PurgeInv'
<1>1. /\ jobs[j].status = "queued" \/ Queue!Stale(j)
      /\ agent' = agent /\ project' = project /\ stage' = stage
      /\ \A b \in Clients \ {c} : request'[b] = request[b]
  BY DEF CancelPurge, Queue!Cancel, Goes
<1>2. jobs'[j].status = "cancelled" /\ \A k \in Jobs \ {j} : jobs'[k] = jobs[k]
  BY ResetRow DEF CancelPurge, Queue!Cancel, QP!TypeOK, QP!Status, QP!Terminal
<1>3. Live(j)
  BY <1>1 DEF Live, Queue!Stale
<1>4. \A w \in Workers : ~Queue!Holds(w, j)
  BY <1>1, HeldIsLive DEF PurgeInv
<1>5. \A k \in Jobs : ~Live(k)'
  BY <1>2, <1>3 DEF PurgeInv, OneLive, Live
<1>6. project # "active" /\ \A b \in Clients : request[b] # "clearing"
  BY <1>3 DEF PurgeInv, ActiveIsQuiet, GivingBackAlone
<1>7. BusyHasJob' /\ HeldIsRunning'
  BY <1>1, <1>2, <1>4 DEF PurgeInv, BusyHasJob, HeldIsRunning, Queue!Holds
<1>8. OneLive' /\ GivingBackAlone' /\ ActiveIsQuiet'
  BY <1>1, <1>5, <1>6 DEF OneLive, GivingBackAlone, ActiveIsQuiet
<1>9. ReturnedIsGone'
  BY <1>1 DEF PurgeInv, ReturnedIsGone
<1> QED
  BY <1>7, <1>8, <1>9 DEF PurgeInv

\* The project is given back by the only one who does, after the job is gone.
LEMMA ClearKeeps ==
  ASSUME request \in [Clients -> Point \cup {"none"}], PurgeInv, NEW c \in Clients, ClearFlag(c)
  PROVE  PurgeInv'
<1>1. /\ jobs' = jobs /\ agent' = agent /\ stage' = stage
      /\ request[c] = "clearing" /\ request'[c] = "none"
      /\ \A b \in Clients \ {c} : request'[b] = request[b]
      /\ project = "gone" => project' = "gone"
  BY DEF ClearFlag, Goes, qvars
<1>2. \A b \in Clients : request'[b] # "clearing"
  BY <1>1 DEF PurgeInv, GivingBackAlone
<1>3. \A j \in Jobs : ~Live(j)'
  BY <1>1 DEF PurgeInv, GivingBackAlone, Live
<1>4. BusyHasJob' /\ HeldIsRunning' /\ ReturnedIsGone'
  BY <1>1 DEF PurgeInv, BusyHasJob, HeldIsRunning, ReturnedIsGone, Queue!Holds
<1> QED
  BY <1>2, <1>3, <1>4 DEF PurgeInv, OneLive, GivingBackAlone, ActiveIsQuiet

\* The purge takes the rows of jobs that are over.
LEMMA PurgeKeeps ==
  ASSUME QP!TypeOK, PurgeInv, NEW w \in Workers, Purge(w)
  PROVE  PurgeInv'
<1>1. /\ agent' = agent /\ project' = "gone" /\ request' = request
      /\ \A j \in Jobs : Live(j)' => Live(j)
      /\ \A v \in Workers, j \in Jobs : Queue!Holds(v, j)' => Queue!Holds(v, j) /\ jobs'[j] = jobs[j]
  BY SameState, PurgeSpares DEF Purge, PurgeInv, Queue!Holds, Live
<1>2. BusyHasJob' /\ HeldIsRunning' /\ ReturnedIsGone'
  BY <1>1 DEF PurgeInv, BusyHasJob, HeldIsRunning, ReturnedIsGone
<1>3. OneLive' /\ GivingBackAlone' /\ ActiveIsQuiet'
  BY <1>1 DEF PurgeInv, OneLive, GivingBackAlone, ActiveIsQuiet
<1> QED
  BY <1>2, <1>3 DEF PurgeInv

\* Every step keeps the invariant.
LEMMA NextPurgeInv ==
  ASSUME QP!TypeOK, QP!OwnInv, request \in [Clients -> Point \cup {"none"}],
         stage \in [Workers -> Stage], PurgeInv, [Next]_vars
  PROVE  PurgeInv'
<1>1. ASSUME UNCHANGED <<jobs, agent, project>>, ReturnedIsGone',
             \A c \in Clients : request'[c] = "clearing" => request[c] = "clearing"
      PROVE  PurgeInv'
  <2>1. BusyHasJob' /\ HeldIsRunning'
    BY <1>1 DEF PurgeInv, BusyHasJob, HeldIsRunning, Queue!Holds
  <2> QED
    BY <1>1, <2>1, QuietPurge DEF Live
<1>2. ASSUME NEW c \in Clients, Admit(c) \/ Write(c) \/ FindProject(c) \/ ApiCrash(c)
      PROVE  PurgeInv'
  <2>1. UNCHANGED <<jobs, agent, project, stage>>
    BY <1>2 DEF Admit, Write, FindProject, ApiCrash, qvars
  <2>2. \A b \in Clients : request'[b] = "clearing" => request[b] = "clearing"
    BY <1>2 DEF Admit, Write, FindProject, ApiCrash, Goes
  <2>3. ReturnedIsGone'
    BY <2>1 DEF PurgeInv, ReturnedIsGone
  <2> QED
    BY <1>1, <2>1, <2>2, <2>3
<1>3. ASSUME NEW w \in Workers, Look(w) \/ Raise(w) PROVE PurgeInv'
  <2>1. UNCHANGED <<jobs, agent, project, request>>
    BY <1>3 DEF Look, Raise, qvars
  <2>2. ReturnedIsGone'
    BY <1>3, <2>1 DEF Look, Raise, Handler, PurgeInv, ReturnedIsGone
  <2> QED
    BY <1>1, <2>1, <2>2
<1>4. ASSUME NEW w \in Workers, Kill(w) PROVE PurgeInv'
  <2>1. ReturnedIsGone' /\ UNCHANGED <<project, request>>
    BY <1>4 DEF Kill, Leave, PurgeInv, ReturnedIsGone
  <2>2. PICK p \in {"down", "loop"} : Queue!Drop(w, p)
    BY <1>4 DEF Kill, Queue!Kill, Queue!Escape
  <2> QED
    BY <2>1, <2>2, DropPurge DEF Queue!Drop
<1>5. ASSUME Around PROVE PurgeInv'
  <2>1. UNCHANGED <<project, request, stage>> /\ ReturnedIsGone'
    BY <1>5 DEF Around, PurgeInv, ReturnedIsGone
  <2>2. CASE Queue!ReapRoute
    <3>1. jobs' = Queue!Reaped /\ agent' = agent
      BY <2>2 DEF Queue!ReapRoute
    <3>2. BusyHasJob' /\ HeldIsRunning'
      BY <3>1, ReapedRows DEF PurgeInv, BusyHasJob, HeldIsRunning, Queue!Holds
    <3> QED
      BY <2>1, <3>1, <3>2, ReapedRows, QuietPurge DEF PurgeInv, Live
  <2>3. CASE Queue!Tick
    <3>1. agent' = agent /\ \A j \in Jobs : jobs'[j].status = jobs[j].status
      BY <2>3 DEF Queue!Tick, QP!TypeOK, QP!Row
    <3>2. BusyHasJob' /\ HeldIsRunning'
      BY <3>1 DEF PurgeInv, BusyHasJob, HeldIsRunning, Queue!Holds
    <3> QED
      BY <2>1, <3>1, <3>2, QuietPurge DEF Live
  <2>4. ASSUME NEW w \in Workers, Queue!Restart(w) PROVE PurgeInv'
    BY <2>1, <2>4, DropPurge DEF Queue!Restart
  <2> QED
    BY <1>5, <2>2, <2>3, <2>4 DEF Around
<1>6. CASE UNCHANGED vars
  BY <1>1, <1>6 DEF vars, qvars, PurgeInv, ReturnedIsGone
<1> QED
  BY <1>2, <1>3, <1>4, <1>5, <1>6, PollPurge, EndPurge, MarkPurge, CancelKeeps, ClearKeeps,
     PurgeKeeps
  DEF Next, Proceed, Run

-----------------------------------------------------------------------------
(***************************************************************************)
(* Theorems.                                                               *)
(***************************************************************************)

\* Every step keeps every variable in its type.
LEMMA NextTypeOK == TypeOK /\ [Next]_vars => TypeOK'
<1> SUFFICES ASSUME TypeOK, [Next]_vars PROVE TypeOK'
  OBVIOUS
<1>1. Queue!TypeOK'
  <2>1. ASSUME NEW w \in Workers, Purge(w) PROVE QP!TypeOK'
    BY <2>1, SameState, PurgeRows DEF TypeOK, Purge, QP!TypeOK
  <2>2. ASSUME NEW w \in Workers, Raise(w) PROVE QP!TypeOK'
    BY <2>2, SameState, FaultOnly DEF TypeOK, Raise
  <2>3. ASSUME NEW c \in Clients, ApiCrash(c) PROVE QP!TypeOK'
    BY <2>3, SameState, FaultOnly DEF TypeOK, ApiCrash
  <2>4. ASSUME [QP!Next]_(QP!vars) PROVE QP!TypeOK'
    BY <2>4, SameState, QPConstants, QP!NextTypeOK DEF TypeOK
  <2>5. QP!TypeOK'
    BY <2>1, <2>2, <2>3, <2>4, QueueStep
  <2> QED
    BY <2>5, SameTypes, PTL
<1>2. project' \in {"active", "deleting", "gone"}
  BY DEF TypeOK, Next, Admit, Write, FindProject, Proceed, MarkDeleting, ClearFlag, ApiCrash,
         CancelPurge, Run, Poll, Look, Purge, End, Leave, Raise, Kill, Around, vars
<1>3. copies' \in [Clients -> 0 .. 1]
  BY DEF TypeOK, Next, Admit, Write, Upserted, FindProject, Proceed, MarkDeleting, ClearFlag,
         ApiCrash, CancelPurge, Run, Poll, Look, Purge, End, Leave, Raise, Kill, Around, vars
<1>4. request' \in [Clients -> Point \cup {"none"}]
  BY DEF TypeOK, Point, Goes, Next, Admit, Write, FindProject, Proceed, MarkDeleting, ClearFlag,
         ApiCrash, CancelPurge, Run, Poll, Look, Purge, End, Leave, Raise, Kill, Around, vars
<1>5. stage' \in [Workers -> Stage]
  BY DEF TypeOK, Stage, Handler, Next, Admit, Write, FindProject, Proceed, MarkDeleting, ClearFlag,
         ApiCrash, CancelPurge, Run, Poll, Look, Purge, End, Leave, Raise, Kill, Around, vars
<1> QED
  BY <1>1, <1>2, <1>3, <1>4, <1>5 DEF TypeOK

\* Every variable keeps its type, and documents never has two rows for a
\* custom_id, whatever races, stalls, raises or is killed.
THEOREM TypeCorrect == Spec => []TypeOK
<1>1. Init => TypeOK
  <2> SUFFICES ASSUME Init PROVE TypeOK
    OBVIOUS
  <2>1. QP!Init
    BY DEF Init, Queue!Init, Queue!Absent, Queue!Idle, Queue!Lapsed, Queue!Unset,
           QP!Init, QP!Absent, QP!Idle, QP!Lapsed, QP!Unset
  <2>2. Queue!TypeOK
    BY <2>1, SameState, QPConstants, QP!InitTypeOK
  <2> QED
    BY <2>2 DEF Init, TypeOK, Point, Stage
<1> QED
  BY <1>1, NextTypeOK, PTL DEF Spec

\* While workers outlive no lease, the invariant and the queue's hold in every
\* reachable state.
LEMMA PurgeAlways ==
  ASSUME Punctual
  PROVE  Spec => [](QP!OwnInv /\ PurgeInv)
<1>1. Init => QP!OwnInv /\ PurgeInv
  <2> SUFFICES ASSUME Init PROVE QP!OwnInv /\ PurgeInv
    OBVIOUS
  <2>1. /\ \A j \in Jobs : jobs[j].status = "absent" /\ ~(jobs[j].lease >= 0)
        /\ \A w \in Workers : agent[w].pc = "loop" /\ agent[w].job = NoJob
        /\ project = "active"
        /\ \A c \in Clients : request[c] = "none"
        /\ \A w \in Workers : stage[w] = "off"
    BY DEF Init, Queue!Init, Queue!Absent, Queue!Idle, Queue!Lapsed
  <2>2. QP!OwnInv
    BY <2>1, QPConstants
    DEF QP!OwnInv, QP!IdleHoldsNothing, QP!OneWorkerPerJob, QP!ClaimIsLatest, QP!LeaseMeansRunning,
        QP!Holds
  <2>3. PurgeInv
    BY <2>1, QPConstants
    DEF PurgeInv, BusyHasJob, HeldIsRunning, OneLive, GivingBackAlone, ActiveIsQuiet, ReturnedIsGone,
        Live, Queue!Holds
  <2> QED
    BY <2>2, <2>3
<1>2. TypeOK /\ (QP!OwnInv /\ PurgeInv) /\ [Next]_vars => (QP!OwnInv /\ PurgeInv)'
  BY SameState, QueueInv, NextPurgeInv DEF TypeOK, PurgeInv
<1> QED
  BY <1>1, <1>2, TypeCorrect, PTL DEF Spec

\* However deletions, cancellations and kills race, no two jobs are ever to
\* purge the project.
THEOREM NeverTwoPurges ==
  ASSUME Punctual
  PROVE  Spec => []OnePurge
<1>1. PurgeInv => OnePurge
  <2> SUFFICES ASSUME PurgeInv PROVE Cardinality(Pending) <= 1
    BY DEF OnePurge
  <2>1. CASE Pending = {}
    BY <2>1, FS_EmptySet
  <2>2. CASE Pending # {}
    <3>1. PICK j \in Pending : TRUE
      BY <2>2
    <3>2. Pending = {j}
      BY <3>1 DEF Pending, PurgeInv, OneLive, Live
    <3> QED
      BY <3>2, FS_Singleton
  <2> QED
    BY <2>1, <2>2
<1> QED
  BY <1>1, PurgeAlways, PTL

\* A project that takes writes, or whose deletion has been cancelled, is never
\* purged: no worker is left that would.
THEOREM PurgesOnRequest ==
  ASSUME Punctual
  PROVE  Spec => PurgedOnRequest
<1>1. TypeOK /\ PurgeInv /\ [Next]_vars => [project' = "gone" => project # "active"]_vars
  <2> SUFFICES ASSUME TypeOK, PurgeInv, Next, project' = "gone", project = "active" PROVE FALSE
    BY DEF vars
  <2>1. PICK w \in Workers : Purge(w)
    BY DEF Next, Admit, Write, FindProject, Proceed, MarkDeleting, ClearFlag, ApiCrash,
           CancelPurge, Run, Poll, Look, End, Leave, Raise, Kill, Around
  <2>2. agent[w].job \in Jobs /\ Live(agent[w].job)
    BY <2>1, PurgeSpares DEF TypeOK, PurgeInv, HeldIsRunning, Live
  <2> QED
    BY <2>2 DEF PurgeInv, ActiveIsQuiet
<1> QED
  BY <1>1, PurgeAlways, TypeCorrect, PTL DEF Spec, PurgedOnRequest

\* A step after which some job is as live as one was before, a failed job is still
\* failed, and nobody stops giving the project back, leaves the deletion in hand.
LEMMA StaysInHand ==
  ASSUME DeletionInHand, project' = "deleting" => project = "deleting",
         \A j \in Jobs : Live(j) => Live(j)' \/ jobs'[j].status = "failed",
         \A j \in Jobs : jobs[j].status = "failed" => jobs'[j].status = "failed",
         GivingBack => GivingBack'
  PROVE  DeletionInHand'
  BY DEF DeletionInHand, Pending, GivenUp, GivingBack, Live

\* As long as the API survives between the two transactions of a cancellation,
\* every step leaves a deletion in hand.
LEMMA NextInHand ==
  ASSUME Punctual, "clearing" \notin CrashPoints, TypeOK, QP!OwnInv, PurgeInv,
         DeletionInHand, [Next]_vars
  PROVE  DeletionInHand'
<1> USE DEF TypeOK
<1>1. ASSUME \A j \in Jobs : jobs'[j].status = jobs[j].status, project' = project,
             GivingBack => GivingBack'
      PROVE  DeletionInHand'
  BY <1>1, StaysInHand DEF Live
<1>2. ASSUME NEW c \in Clients, Admit(c) \/ Write(c) \/ FindProject(c) \/ ApiCrash(c)
      PROVE  DeletionInHand'
  <2>1. jobs' = jobs /\ project' = project
    BY <1>2 DEF Admit, Write, FindProject, ApiCrash, qvars
  <2>2. \A b \in Clients : request[b] = "clearing" => request'[b] = "clearing"
    BY <1>2 DEF Admit, Write, FindProject, ApiCrash, Goes
  <2> QED
    BY <1>1, <2>1, <2>2 DEF GivingBack
<1>3. ASSUME NEW c \in Clients, MarkDeleting(c) PROVE DeletionInHand'
  <2>1. CASE project = "active"
    <3>1. PICK j \in Jobs : Queue!Enqueue(j, Queue!Unset)
      BY <1>3, <2>1 DEF MarkDeleting
    <3>2. jobs'[j].status = "queued"
      BY <3>1, SameState DEF Queue!Enqueue, QP!TypeOK, QP!Row
    <3> QED
      BY <3>2 DEF DeletionInHand, Pending
  <2>2. CASE project # "active"
    <3>1. jobs' = jobs /\ project' = project
      BY <1>3, <2>2 DEF MarkDeleting, qvars
    <3>2. \A b \in Clients : request[b] = "clearing" => request'[b] = "clearing"
      BY <1>3 DEF MarkDeleting, Goes
    <3> QED
      BY <1>1, <3>1, <3>2 DEF GivingBack
  <2> QED
    BY <2>1, <2>2
<1>4. ASSUME NEW c \in Clients, NEW j \in Jobs, CancelPurge(c, j) PROVE DeletionInHand'
  BY <1>4 DEF CancelPurge, Goes, DeletionInHand, GivingBack
<1>5. ASSUME NEW c \in Clients, ClearFlag(c) PROVE DeletionInHand'
  BY <1>5 DEF ClearFlag, DeletionInHand
<1>6. ASSUME NEW w \in Workers, Purge(w) PROVE DeletionInHand'
  BY <1>6 DEF Purge, DeletionInHand
<1>7. ASSUME NEW w \in Workers, End(w) PROVE DeletionInHand'
  <2>1. CASE project = "gone"
    BY <1>7, <2>1 DEF End, Leave, DeletionInHand
  <2>2. CASE project # "gone"
    <3>1. PICK j \in Jobs, s \in {"queued", "failed"} : Queue!Finish(w, j, s)
      BY <1>7, <2>2 DEF End, Queue!Complete, Queue!Requeue, Queue!Fail, PurgeInv, ReturnedIsGone
    <3>2. /\ Queue!Holds(w, j) /\ jobs[j].status = "running"
          /\ \A k \in Jobs \ {j} : jobs'[k] = jobs[k]
      BY <3>1, SameState, EndedRows DEF PurgeInv, HeldIsRunning
    <3>3. jobs'[j].status = s
      <4>1. Queue!Ended(jobs[j], s) = QP!Ended(jobs[j], s)
        BY DEF Queue!Ended, Queue!Reset, Queue!Lapsed, Queue!Unset,
               QP!Ended, QP!Reset, QP!Lapsed, QP!Unset
      <4>2. QP!Ended(jobs[j], s).status = s
        BY <3>2, SameState, QPConstants, QP!EndedRow DEF QP!TypeOK
      <4> QED
        BY <3>1, <4>1, <4>2, SameState DEF Queue!Finish, QP!TypeOK
    <3>4. project' = project /\ request' = request
      BY <1>7 DEF End, Leave
    <3> QED
      BY <3>2, <3>3, <3>4, StaysInHand DEF GivingBack, Live
  <2> QED
    BY <2>1, <2>2
<1>8. ASSUME NEW w \in Workers, Poll(w) PROVE DeletionInHand'
  <2>1. project' = project /\ request' = request
    BY <1>8 DEF Poll
  <2>2. CASE jobs' = Queue!Reaped
    BY <2>1, <2>2, SameState, ReapedRows, StaysInHand DEF PurgeInv, GivingBack, Live
  <2>3. CASE jobs' = jobs
    BY <1>1, <2>1, <2>3 DEF GivingBack
  <2>4. ASSUME NEW j \in Jobs, Queue!Claim(w, j) PROVE DeletionInHand'
    <3>1. /\ jobs[j].status = "queued" /\ jobs'[j].status = "running"
          /\ \A k \in Jobs \ {j} : jobs'[k] = jobs[k]
      BY <2>4, SameState DEF Queue!Claim, QP!TypeOK, QP!Row
    <3> QED
      BY <2>1, <3>1, StaysInHand DEF GivingBack, Live
  <2>5. ASSUME NEW j \in Jobs, Queue!Heartbeat(w, j) PROVE DeletionInHand'
    <3>1. \A k \in Jobs : jobs'[k].status = jobs[k].status
      BY <2>5, SameState DEF Queue!Heartbeat, QP!TypeOK, QP!Row
    <3> QED
      BY <1>1, <2>1, <3>1 DEF GivingBack
  <2> QED
    BY <1>8, <2>2, <2>3, <2>4, <2>5
    DEF Poll, Queue!ReapBeforePoll, Queue!EmptyPoll, Queue!ClaimSelect, Queue!ClaimLost, Queue!Fetch
<1>9. ASSUME NEW w \in Workers, Look(w) \/ Raise(w) \/ Kill(w) PROVE DeletionInHand'
  <2>1. UNCHANGED <<jobs, project, request>>
    BY <1>9 DEF Look, Raise, Kill, Leave, Queue!Kill, Queue!Escape, Queue!Drop, qvars
  <2> QED
    BY <1>1, <2>1 DEF GivingBack
<1>10. ASSUME Around PROVE DeletionInHand'
  <2>1. project' = project /\ request' = request
    BY <1>10 DEF Around
  <2>2. CASE jobs' = Queue!Reaped
    BY <2>1, <2>2, SameState, ReapedRows, StaysInHand DEF PurgeInv, GivingBack, Live
  <2>3. CASE \A j \in Jobs : jobs'[j].status = jobs[j].status
    BY <1>1, <2>1, <2>3 DEF GivingBack
  <2>4. Queue!Tick => \A j \in Jobs : jobs'[j].status = jobs[j].status
    BY SameState DEF Queue!Tick, QP!TypeOK, QP!Row
  <2> QED
    BY <1>10, <2>2, <2>3, <2>4 DEF Around, Queue!ReapRoute, Queue!Restart
<1>11. CASE UNCHANGED vars
  BY <1>1, <1>11 DEF vars, qvars, GivingBack
<1> QED
  BY <1>2, <1>3, <1>4, <1>5, <1>6, <1>7, <1>8, <1>9, <1>10, <1>11 DEF Next, Proceed, Run

\* While workers outlive no lease, and the API process does not die between the
\* two transactions of a cancellation, no race of deletions, cancellations and
\* kills loses the purge of a project that refuses writes.
THEOREM DeletionStaysInHand ==
  ASSUME Punctual, "clearing" \notin CrashPoints
  PROVE  Spec => []DeletionInHand
<1>1. Init => DeletionInHand
  BY DEF Init, DeletionInHand
<1>2. TypeOK /\ (QP!OwnInv /\ PurgeInv) /\ DeletionInHand /\ [Next]_vars => DeletionInHand'
  BY NextInHand
<1> QED
  BY <1>1, <1>2, PurgeAlways, TypeCorrect, PTL DEF Spec
-----------------------------------------------------------------------------
(***************************************************************************)
(* The contract of the queue.                                              *)
(***************************************************************************)

\* The purge deletes rows, of which none is worked on but its own.
LEMMA PurgeDeletes ==
  ASSUME QP!TypeOK, NEW w \in Workers, Purge(w)
  PROVE  QP!Contract!Next
<1>1. \A j \in Jobs : Queue!Reset(jobs[j], "gone").status = "gone"
  BY ResetRow DEF QP!TypeOK, QP!Status
<1>2. PICK S \in SUBSET Jobs :
        S = {j \in Jobs : /\ jobs[j].status \notin {"absent", "gone"}
                          /\ jobs'[j].status = "gone"}
  OBVIOUS
<1>3. \A j \in Jobs \ S : jobs'[j].status = jobs[j].status
  BY <1>1, <1>2 DEF Purge
<1>4. \A v \in Workers, j \in Jobs : QP!Holds(v, j)' <=> QP!Holds(v, j)
  BY DEF Purge, QP!Holds
<1> QED
  BY <1>2, <1>3, <1>4, QPConstants, QP!DeletingSteps

\* While workers outlive no lease, jobs keep the contract of the queue (JobContract)
\* though the purge deletes rows in whatever state they are.
THEOREM Implementation ==
  ASSUME Punctual
  PROVE  Spec => QP!ImplementsContract
<1>1. Init => QP!Contract!Init
  <2>1. Init => QP!Init
    BY DEF Init, Queue!Init, Queue!Absent, Queue!Idle, Queue!Lapsed, Queue!Unset,
           QP!Init, QP!Absent, QP!Idle, QP!Lapsed, QP!Unset
  <2> QED
    BY <2>1, QPConstants, QP!InitContract
<1>2. TypeOK /\ QP!OwnInv /\ QP!OwnInv' /\ [Next]_vars => [QP!Contract!Next]_(QP!Contract!cvars)
  <2> SUFFICES ASSUME TypeOK, QP!OwnInv, QP!OwnInv', [Next]_vars
               PROVE  [QP!Contract!Next]_(QP!Contract!cvars)
    OBVIOUS
  <2>1. ASSUME NEW w \in Workers, Purge(w) PROVE QP!Contract!Next
    BY <2>1, SameState, PurgeDeletes DEF TypeOK
  <2>2. ASSUME \/ \E w \in Workers : Raise(w)
               \/ \E c \in Clients : ApiCrash(c)
        PROVE  UNCHANGED QP!Contract!cvars
    BY <2>2, QPConstants, QP!StutterSteps DEF Raise, ApiCrash, QP!Holds
  <2>3. ASSUME [QP!Next]_(QP!vars) PROVE [QP!Contract!Next]_(QP!Contract!cvars)
    BY <2>3, SameState, QPConstants, QP!ContractStep DEF TypeOK
  <2> QED
    BY <2>1, <2>2, <2>3, QueueStep
<1> QED
  BY <1>1, <1>2, PurgeAlways, TypeCorrect, PTL DEF Spec, QP!ImplementsContract, QP!Contract!Spec
=============================================================================
