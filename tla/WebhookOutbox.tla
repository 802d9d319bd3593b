--------------------------- MODULE WebhookOutbox ---------------------------
(***************************************************************************)
(* Webhook deliveries (webhooks.py) as work items of the job queue.        *)
(*                                                                         *)
(* record_event writes a delivery and a job for it in one transaction.  A  *)
(* worker that runs the job is inside deliver_delivery: it reads the       *)
(* delivery, POSTs it, marks the outcome in one transaction and, when the  *)
(* delivery is to be tried again, schedules a job for that in another.     *)
(* Claims, leases, reaping and the endings of a job are JobQueue's own     *)
(* actions; the statements by which webhooks.py writes the jobs table      *)
(* itself are here.                                                        *)
(***************************************************************************)
EXTENDS Integers, FiniteSets

CONSTANTS
  Jobs, Workers, NoJob, NoWorker, Lease, MaxAttempts, MaxDelay, MaxFaults,
  Punctual, Forceable,   \* as in JobQueue
  Deliveries,    \* ids of deliveries, each to a webhook of its own
  NoDelivery,    \* the delivery of a job that does not exist yet
  MaxTries,      \* webhook_max_attempts
  Backoff,       \* 2 ** attempt, in ticks
  MaxReplays,    \* bound: operator replays
  Cancels,       \* TRUE: operators may cancel delivery jobs
  KillStages,    \* the stages of the handler at which a worker may be killed
  ErrorStages    \* the stages at which a statement may raise

VARIABLES
  jobs, agent, arrivals, faults, retries,   \* JobQueue's
  deliveries,  \* the webhook_deliveries table
  target,      \* the delivery that a job's payload names
  call,        \* each worker's locals inside deliver_delivery
  replays,     \* replays so far
  tries,       \* history: tries begun since the delivery was recorded or replayed
  cut          \* history: deliveries whose retry was cut short since their last try began

history == <<tries, cut>>
qvars   == <<jobs, agent, arrivals, faults, retries>>
ovars   == <<deliveries, target, call, replays, history>>
vars    == <<qvars, ovars>>

Queue == INSTANCE JobQueue

Stage == {"off", "sending", "accepted", "rejected", "marked", "scheduling",
          "returned", "raised"}

ASSUME QueueConstantsOK == Queue!ConstantsOK

\* A lease is 300 s, or at least 30 s (lease_seconds), and a delivery that is
\* tried 5 times waits at most 2 ** 4 s.
ASSUME OutboxConstantsOK ==
  /\ NoDelivery \notin Deliveries
  /\ MaxTries \in Nat \ {0}
  /\ Backoff \in 1 .. Lease
  /\ Backoff <= MaxDelay
  /\ MaxReplays \in Nat
  /\ Cancels \in BOOLEAN
  /\ KillStages \subseteq Stage
  /\ ErrorStages \subseteq Stage

Unset == Queue!Unset

\* A delivery's "next" is next_attempt_at - now, or 0 once that is past or NULL.
Delivery == [status   : {"absent", "queued", "succeeded", "dead", "gone"},
             attempts : 0 .. MaxTries,
             next     : 0 .. Backoff]

\* "try" is current_attempt; "runAt" is run_at - now; "found" is the queued job
\* that _schedule_delivery_retry has selected.
Call == [stage : Stage, try : 0 .. MaxTries, runAt : 0 .. Backoff, found : Jobs \cup {NoJob}]

Off == [stage |-> "off", try |-> 0, runAt |-> 0, found |-> NoJob]

JobsOf(d, s) == {j \in Jobs : target[j] = d /\ jobs[j].status = s}

Oldest(S) == CHOOSE j \in S : \A k \in S : jobs[j].created <= jobs[k].created

Smaller(a, b) == IF a <= b THEN a ELSE b

-----------------------------------------------------------------------------
Init ==
  /\ Queue!Init
  /\ deliveries = [d \in Deliveries |-> [status |-> "absent", attempts |-> 0, next |-> 0]]
  /\ target = [j \in Jobs |-> NoDelivery]
  /\ call = [w \in Workers |-> Off]
  /\ replays = 0
  /\ tries = [d \in Deliveries |-> 0] /\ cut = {}

\* _enqueue_delivery_job: INSERT a job that is due in t.
NewJob(j, d, t) ==
  /\ Queue!Enqueue(j, t)
  /\ target' = [target EXCEPT ![j] = d]

RecordEvent(d, j) ==
  /\ deliveries[d].status = "absent"
  /\ deliveries' = [deliveries EXCEPT ![d].status = "queued"]
  /\ NewJob(j, d, 0)
  /\ UNCHANGED <<call, replays, history>>

\* delete_webhook: the deliveries go with their webhook, the jobs stay.
DeleteWebhook(d) ==
  /\ deliveries[d].status \notin {"absent", "gone"}
  /\ deliveries' = [deliveries EXCEPT ![d] = [status |-> "gone", attempts |-> 0, next |-> 0]]
  /\ UNCHANGED <<qvars, target, call, replays, history>>

(***************************************************************************)
(* replay_delivery, one BEGIN IMMEDIATE transaction.                       *)
(***************************************************************************)
\* Mutant: replay does not ask whether a worker is at it.
ReplayableRunning(d) == deliveries[d].status \in {"queued", "dead"}

Replayable(d) == deliveries[d].status \in {"queued", "dead"} /\ JobsOf(d, "running") = {}

\* The oldest queued job is made due and fresh; the others are deleted.
ReuseJob(d) ==
  LET first == Oldest(JobsOf(d, "queued")) IN
  /\ JobsOf(d, "queued") # {}
  /\ jobs' = [j \in Jobs |->
                IF j \notin JobsOf(d, "queued") THEN jobs[j]
                ELSE IF j = first THEN [jobs[j] EXCEPT !.attempts = 0, !.delay = 0]
                ELSE Queue!Reset(jobs[j], "gone")]
  /\ UNCHANGED <<agent, arrivals, faults, retries, target>>

\* Mutant: replay adds a job without looking for a queued one.
AddJob(d) == \E j \in Jobs : NewJob(j, d, 0)

ReuseOrAddJob(d) ==
  \/ ReuseJob(d)
  \/ JobsOf(d, "queued") = {} /\ \E j \in Jobs : NewJob(j, d, 0)

Replay(d) ==
  /\ replays < MaxReplays
  /\ Replayable(d)
  /\ ReuseOrAddJob(d)
  /\ deliveries' = [deliveries EXCEPT ![d] = [status |-> "queued", attempts |-> 0, next |-> 0]]
  /\ tries' = [tries EXCEPT ![d] = 0] /\ cut' = cut \ {d}
  /\ replays' = replays + 1
  /\ UNCHANGED call

(***************************************************************************)
(* deliver_delivery, in the worker that runs the delivery's job.           *)
(***************************************************************************)
At(w, s) == agent[w].pc = "working" /\ call[w].stage = s

DeliveryOf(w) == target[agent[w].job]

\* _mark_delivery: an UPDATE by id, which finds no row once the webhook is gone.
Mark(w, s, next) ==
  LET d == DeliveryOf(w) IN
  deliveries' = IF deliveries[d].status = "gone" THEN deliveries
                ELSE [deliveries EXCEPT
                        ![d] = [status |-> s, attempts |-> call[w].try, next |-> next]]

\* The row is read once.  Without a row, or when it is not to be sent or not
\* yet, the job is done.
Look(w) ==
  LET row == deliveries[DeliveryOf(w)] IN
  /\ At(w, "off")
  /\ IF row.status # "queued" \/ row.next > 0
       THEN call' = [call EXCEPT ![w].stage = "returned"] /\ UNCHANGED history
       ELSE /\ call' = [call EXCEPT ![w].stage = "sending", ![w].try = row.attempts + 1]
            /\ tries' = [tries EXCEPT ![DeliveryOf(w)] = @ + 1]
            /\ cut' = cut \ {DeliveryOf(w)}
  /\ UNCHANGED <<qvars, deliveries, target, replays>>

\* The POST is answered with 2xx; or refused, answered otherwise or not at all,
\* or not even sent because the target is unsafe.
Send(w) ==
  /\ At(w, "sending")
  /\ \E s \in {"accepted", "rejected"} : call' = [call EXCEPT ![w].stage = s]
  /\ UNCHANGED <<qvars, deliveries, target, replays, history>>

MarkSucceeded(w) ==
  /\ At(w, "accepted")
  /\ Mark(w, "succeeded", 0)
  /\ call' = [call EXCEPT ![w].stage = "returned"]
  /\ UNCHANGED <<qvars, target, replays, history>>

\* Mutant: one try too few.
SpentEarly(w) == call[w].try + 1 >= MaxTries

\* Mutant: one try too many.
SpentLate(w) == call[w].try > MaxTries

Spent(w) == call[w].try >= MaxTries

\* _requeue_or_dead up to and including its first commit.
MarkFailed(w) ==
  /\ At(w, "rejected")
  /\ \/ /\ Spent(w)
        /\ Mark(w, "dead", 0)
        /\ call' = [call EXCEPT ![w].stage = "returned"]
     \/ /\ ~Spent(w)
        /\ Mark(w, "queued", Backoff)
        /\ call' = [call EXCEPT ![w].stage = "marked", ![w].runAt = Backoff]
  /\ UNCHANGED <<qvars, target, replays, history>>

\* Mutant: the job that is running counts as the future job.
PendingOrRunning(d) == JobsOf(d, "queued") \cup JobsOf(d, "running")

Pending(d) == JobsOf(d, "queued")

\* _schedule_delivery_retry: SELECT the oldest queued job of the delivery ...
ScheduleRead(w) ==
  LET pending == Pending(DeliveryOf(w))
      job     == Oldest(pending) IN
  /\ At(w, "marked")
  /\ call' = IF pending = {} THEN [call EXCEPT ![w].stage = "scheduling"]
             ELSE [call EXCEPT ![w].stage = "scheduling", ![w].found = job,
                               ![w].runAt = IF jobs[job].delay = Unset THEN @
                                            ELSE Smaller(jobs[job].delay, @)]
  /\ UNCHANGED <<qvars, deliveries, target, replays, history>>

\* Mutant: the job is added without a time to wait for.
RetryJobAtOnce(w, j) == NewJob(j, DeliveryOf(w), Unset)

RetryJob(w, j) == NewJob(j, DeliveryOf(w), call[w].runAt)

\* ... then UPDATE that row's run_after, by id, or INSERT a job if there was none.
ScheduleWrite(w) ==
  LET job == call[w].found IN
  /\ At(w, "scheduling")
  /\ \/ job = NoJob /\ \E j \in Jobs : RetryJob(w, j)
     \/ /\ job # NoJob
        /\ jobs' = [jobs EXCEPT ![job].delay =
                      IF jobs[job].status = "gone" THEN @ ELSE call[w].runAt]
        /\ UNCHANGED <<agent, arrivals, faults, retries, target>>
  /\ call' = [call EXCEPT ![w] = [Off EXCEPT !.stage = "returned"]]
  /\ UNCHANGED <<deliveries, replays, history>>

\* The retry is cut short if the outcome is committed and the job for the next try is
\* not, and the worker's own job is taken up again before the delivery is due.
CutsShort(w, wait) ==
  cut' = IF call[w].stage \in {"marked", "scheduling"} /\ deliveries[DeliveryOf(w)].next > wait
           THEN cut \cup {DeliveryOf(w)} ELSE cut

\* A statement raises: a locked database, a secret that cannot be decrypted.
\* Up to the answer of the POST the handler's own except clause counts it as a
\* failed try; after that it is run_once that catches it.
Raise(w) ==
  /\ agent[w].pc = "working"
  /\ call[w].stage \in ErrorStages
  /\ faults < MaxFaults
  /\ faults' = faults + 1
  /\ call' = [call EXCEPT ![w].stage = IF @ = "accepted" THEN "rejected" ELSE "raised"]
  /\ CutsShort(w, 0)
  /\ UNCHANGED <<jobs, agent, arrivals, retries, deliveries, target, replays, tries>>

(***************************************************************************)
(* The queue's steps, in which the outbox has no part.                     *)
(***************************************************************************)
Leave(w) == call' = [call EXCEPT ![w] = Off] /\ UNCHANGED <<deliveries, target, replays, tries>>

End(w) ==
  \E j \in Jobs :
    /\ \/ call[w].stage = "returned" /\ Queue!Complete(w, j)
       \/ call[w].stage = "raised" /\ Queue!Requeue(w, j)
       \/ /\ call[w].stage = "raised" /\ agent[w].attempts >= MaxAttempts
          /\ Queue!Fail(w, j)
    /\ Leave(w) /\ UNCHANGED cut

Poll(w) ==
  /\ \/ Queue!ReapBeforePoll(w)
     \/ Queue!EmptyPoll(w)
     \/ \E j \in Jobs :
          \/ Queue!ClaimSelect(w, j) \/ Queue!ClaimLost(w, j) \/ Queue!Claim(w, j)
          \/ Queue!Fetch(w, j) \/ Queue!Heartbeat(w, j)
  /\ UNCHANGED ovars

\* The reaper waits for the lease to lapse.
Kill(w) ==
  /\ call[w].stage \in KillStages
  /\ Queue!Kill(w) \/ Queue!Escape(w)
  /\ CutsShort(w, jobs[agent[w].job].lease + 1)
  /\ Leave(w)

Restart(w) == Queue!Restart(w) /\ UNCHANGED ovars

Operator ==
  /\ \/ Queue!ReapRoute
     \/ Cancels /\ \E j \in Jobs : Queue!Cancel(j)
  /\ UNCHANGED ovars

Countdown(n) == IF n = 0 THEN 0 ELSE n - 1

Tick ==
  /\ Queue!Tick
  /\ deliveries' = [d \in Deliveries |-> [deliveries[d] EXCEPT !.next = Countdown(@)]]
  /\ call' = [w \in Workers |-> [call[w] EXCEPT !.runAt = Countdown(@)]]
  /\ UNCHANGED <<target, replays, history>>

-----------------------------------------------------------------------------
Run(w) ==
  \/ Poll(w) \/ Look(w) \/ Send(w) \/ MarkSucceeded(w) \/ MarkFailed(w)
  \/ ScheduleRead(w) \/ ScheduleWrite(w) \/ End(w)

Next ==
  \/ \E d \in Deliveries : DeleteWebhook(d) \/ Replay(d)
  \/ \E d \in Deliveries, j \in Jobs : RecordEvent(d, j)
  \/ Operator
  \/ Tick
  \/ \E w \in Workers : Run(w) \/ Raise(w) \/ Kill(w) \/ Restart(w)

Spec == Init /\ [][Next]_vars

\* A worker that is up keeps running and time passes; nothing else is promised.
FairSpec == Spec /\ WF_vars(Tick) /\ \A w \in Workers : WF_vars(Run(w))

-----------------------------------------------------------------------------
TypeOK ==
  /\ Queue!TypeOK
  /\ deliveries \in [Deliveries -> Delivery]
  /\ target \in [Jobs -> Deliveries \cup {NoDelivery}]
  /\ call \in [Workers -> Call]
  /\ replays \in 0 .. MaxReplays
  /\ tries \in [Deliveries -> Nat] /\ cut \subseteq Deliveries

\* "Ensure exactly one future job exists for a retried delivery"
\* (_schedule_delivery_retry): a delivery that is still to be made has a job
\* that will make it, or one that says why not: it was cancelled, or it failed
\* for good.  Reaping, retries and replays in any order never just lose it, nor do
\* kills and errors, except in the one place that is noted: between the commit of
\* the outcome and that of the job, if the old job comes back before the delivery
\* is due.
NoDeliveryStranded ==
  \A d \in Deliveries \ cut :
    deliveries[d].status = "queued" =>
      \E s \in {"queued", "running", "failed", "cancelled"} : JobsOf(d, s) # {}

\* ... and no more than one, so that no two workers send it at once.
OneFutureJob == \A d \in Deliveries : Cardinality(JobsOf(d, "queued")) <= 1

\* A delivery that has succeeded stays so: no late worker and no replay has it
\* sent again.
SucceededIsFinal ==
  [][\A d \in Deliveries : deliveries[d].status = "succeeded" =>
                             deliveries'[d].status \in {"succeeded", "gone"}]_vars

\* A delivery is given up only after MaxTries tries, and a try that a fault
\* cut short is the only one that is not counted.
TriesAreCounted ==
  \A d \in Deliveries :
    /\ deliveries[d].status = "dead" => tries[d] >= MaxTries
    /\ tries[d] <= MaxTries + faults

\* Every delivery is eventually made, given up or deleted, with a receiver that
\* may answer anything and a worker that may be killed.
EveryDeliveryResolves ==
  \A d \in Deliveries :
    (deliveries[d].status = "queued") ~>
      (deliveries[d].status \in {"succeeded", "dead", "gone"})
=============================================================================
