------------------------------ MODULE JobQueue ------------------------------
(***************************************************************************)
(* The durable job queue (jobs.py) with the worker processes that drain it *)
(* (worker.run_once and worker.main), the operator routes that act on it   *)
(* (cancel, reap) and scripts/recover_stuck_jobs.py --force.               *)
(*                                                                         *)
(* Every action is one committed SQLite statement or transaction, so the   *)
(* interleavings are those of processes sharing the database file.  Time   *)
(* is kept as the distance to each deadline: a row's "lease" is            *)
(* lease_expires_at - now and its "delay" is run_after - now, or Unset for *)
(* the 0.0 that stands for no run_after.                                   *)
(***************************************************************************)
EXTENDS Integers, FiniteSets

CONSTANTS
  Jobs,         \* job ids that clients may enqueue
  Workers,      \* worker processes
  NoJob,        \* an idle worker's job
  NoWorker,     \* the NULL of the worker column
  Lease,        \* lease_seconds(), in ticks
  MaxAttempts,  \* worker.MAX_ATTEMPTS
  MaxDelay,     \* bound: the largest run_after - now a client asks for
  MaxFaults,    \* bound: worker kills and unhandled database errors
  Punctual,     \* TRUE: a live worker reports before its lease runs out
  Forceable     \* TRUE: the operator may run recover_stuck_jobs.py --force

ASSUME ConstantsOK ==
  /\ NoJob \notin Jobs
  /\ NoWorker \notin Workers
  /\ Lease \in Nat \ {0}
  /\ MaxAttempts \in Nat \ {0}
  /\ MaxDelay \in Nat
  /\ MaxFaults \in Nat
  /\ Punctual \in BOOLEAN
  /\ Forceable \in BOOLEAN

VARIABLES
  jobs,      \* the jobs table
  agent,     \* what each worker process holds in memory
  arrivals,  \* number of rows inserted so far: the source of created_at
  faults,    \* kills and unhandled errors so far
  retries    \* history: how often run_once put each job back after an error

vars == <<jobs, agent, arrivals, faults, retries>>

Terminal == {"done", "failed", "cancelled"}
Status   == {"absent", "queued", "running", "gone"} \cup Terminal
Lapsed   == -1
Unset    == -1

(***************************************************************************)
(* A worker's program counter inside main() and run_once().                *)
(***************************************************************************)
Phase == {"loop", "poll", "selected", "claimed", "fetched", "working", "reporting", "down"}

Row == [status   : Status,
        attempts : Nat,
        worker   : Workers \cup {NoWorker},
        lease    : Lapsed .. Lease,
        delay    : Unset .. MaxDelay,
        created  : Nat]

\* "claim" numbers the claim (history); "attempts" is what run_once read.
Agent == [pc : Phase, job : Jobs \cup {NoJob}, claim : Nat, attempts : Nat]

Absent == [status |-> "absent", attempts |-> 0, worker |-> NoWorker,
           lease |-> Lapsed, delay |-> Unset, created |-> 0]

Idle(p) == [pc |-> p, job |-> NoJob, claim |-> 0, attempts |-> 0]

\* w works on j, or is about to: its claim of j has succeeded.
Holds(w, j) == agent[w].job = j /\ agent[w].pc # "selected"

\* w is the worker that made the job's latest claim.
Claimant(w, j) == Holds(w, j) /\ agent[w].claim = jobs[j].attempts

LeaseLive(j) == jobs[j].status = "running" /\ jobs[j].lease >= 0

\* Mutant: the deadline itself already counts as lapsed.
StaleAtDeadline(j) == jobs[j].status = "running" /\ jobs[j].lease <= 0

Stale(j)     == jobs[j].status = "running" /\ jobs[j].lease < 0

Due(j)       == jobs[j].status = "queued" /\ jobs[j].delay <= 0

Reset(row, s) == [row EXCEPT !.status = s, !.worker = NoWorker, !.lease = Lapsed]

-----------------------------------------------------------------------------
Init ==
  /\ jobs = [j \in Jobs |-> Absent]
  /\ agent = [w \in Workers |-> Idle("loop")]
  /\ arrivals = 0
  /\ faults = 0
  /\ retries = [j \in Jobs |-> 0]

(***************************************************************************)
(* Clients and operators.                                                  *)
(***************************************************************************)
Enqueue(j, d) ==
  /\ jobs[j].status = "absent"
  /\ jobs' = [jobs EXCEPT ![j].status = "queued", ![j].delay = d, ![j].created = arrivals]
  /\ arrivals' = arrivals + 1
  /\ UNCHANGED <<agent, faults, retries>>

\* The row is deleted: by the retention sweep once it is terminal, by
\* purge_project in any state.
Remove(j) ==
  /\ jobs[j].status \notin {"absent", "gone"}
  /\ jobs' = [jobs EXCEPT ![j] = Reset(jobs[j], "gone")]
  /\ UNCHANGED <<agent, arrivals, faults, retries>>

\* Mutant: the reaper gives a job its attempts back.
ReapedAfresh ==
  [j \in Jobs |-> IF Stale(j) THEN [Reset(jobs[j], "queued") EXCEPT !.attempts = 0]
                             ELSE jobs[j]]

Reaped == [j \in Jobs |-> IF Stale(j) THEN Reset(jobs[j], "queued") ELSE jobs[j]]

\* POST /v4/maintenance/reap-jobs
ReapRoute ==
  /\ jobs' = Reaped
  /\ UNCHANGED <<agent, arrivals, faults, retries>>

\* Mutant: cancel interrupts running work as well.
CancelRunning(j) ==
  /\ jobs[j].status \in {"queued", "running"}
  /\ jobs' = [jobs EXCEPT ![j] = Reset(jobs[j], "cancelled")]
  /\ UNCHANGED <<agent, arrivals, faults, retries>>

\* Mutant: cancel looks only at the lease, not at the status.
CancelLeaseless(j) ==
  /\ jobs[j].status # "absent" /\ jobs[j].lease < 0
  /\ jobs' = [jobs EXCEPT ![j] = Reset(jobs[j], "cancelled")]
  /\ UNCHANGED <<agent, arrivals, faults, retries>>

Cancel(j) ==
  /\ jobs[j].status = "queued" \/ Stale(j)
  /\ jobs' = [jobs EXCEPT ![j] = Reset(jobs[j], "cancelled")]
  /\ UNCHANGED <<agent, arrivals, faults, retries>>

\* recover_stuck_jobs.py --force: lapse every live lease, then reap.
ForceRecover ==
  /\ Forceable
  /\ jobs' = [j \in Jobs |-> IF jobs[j].status = "running"
                               THEN Reset(jobs[j], "queued") ELSE jobs[j]]
  /\ UNCHANGED <<agent, arrivals, faults, retries>>

(***************************************************************************)
(* The passage of time.  jobs.py asks that a lease "exceed the slowest     *)
(* single unit of work between heartbeats"; Punctual is that assumption.   *)
(***************************************************************************)
Tick ==
  /\ Punctual => \A w \in Workers, j \in Jobs : Holds(w, j) => jobs[j].lease # 0
  /\ jobs' = [j \in Jobs |->
                [jobs[j] EXCEPT !.lease = IF @ = Lapsed THEN @ ELSE @ - 1,
                                !.delay = IF @ <= 0 THEN @ ELSE @ - 1]]
  /\ UNCHANGED <<agent, arrivals, faults, retries>>

(***************************************************************************)
(* A worker process.                                                       *)
(***************************************************************************)
\* Mutant: main() polls without reaping first.
PollWithoutReaping(w) ==
  /\ agent[w].pc = "loop"
  /\ agent' = [agent EXCEPT ![w] = Idle("poll")]
  /\ UNCHANGED <<jobs, arrivals, faults, retries>>

ReapBeforePoll(w) ==
  /\ agent[w].pc = "loop"
  /\ jobs' = Reaped
  /\ agent' = [agent EXCEPT ![w] = Idle("poll")]
  /\ UNCHANGED <<arrivals, faults, retries>>

EmptyPoll(w) ==
  /\ agent[w].pc = "poll"
  /\ \A j \in Jobs : ~Due(j)
  /\ agent' = [agent EXCEPT ![w] = Idle("loop")]
  /\ UNCHANGED <<jobs, arrivals, faults, retries>>

\* claim() selects the oldest due row and updates it inside BEGIN IMMEDIATE;
\* but when that times out on a locked database claim() goes on without it,
\* and then the SELECT and the UPDATE are two transactions.
ClaimSelect(w, j) ==
  /\ agent[w].pc = "poll"
  /\ Due(j)
  /\ \A k \in Jobs : Due(k) => jobs[j].created <= jobs[k].created
  /\ agent' = [agent EXCEPT ![w].pc = "selected", ![w].job = j]
  /\ UNCHANGED <<jobs, arrivals, faults, retries>>

ClaimLost(w, j) ==
  /\ agent[w].pc = "selected" /\ agent[w].job = j
  /\ jobs[j].status # "queued"
  /\ agent' = [agent EXCEPT ![w] = Idle("loop")]
  /\ UNCHANGED <<jobs, arrivals, faults, retries>>

\* The claim of j by w succeeds as the row's claim number n.
Granted(w, j, n) ==
  agent' = [agent EXCEPT ![w] = [pc |-> "claimed", job |-> j, claim |-> n, attempts |-> 0]]

\* Mutant: the UPDATE trusts the SELECT.
ClaimUnguarded(w, j) ==
  /\ agent[w].pc = "selected" /\ agent[w].job = j
  /\ jobs' = [jobs EXCEPT ![j].status = "running", ![j].worker = w,
                          ![j].attempts = @ + 1, ![j].lease = Lease]
  /\ Granted(w, j, jobs[j].attempts + 1)
  /\ UNCHANGED <<arrivals, faults, retries>>

\* Mutant: claim() leaves it to the failure path to count the attempt.
ClaimUncounted(w, j) ==
  /\ agent[w].pc = "selected" /\ agent[w].job = j
  /\ jobs[j].status = "queued"
  /\ jobs' = [jobs EXCEPT ![j].status = "running", ![j].worker = w, ![j].lease = Lease]
  /\ Granted(w, j, jobs[j].attempts + 1)
  /\ UNCHANGED <<arrivals, faults, retries>>

Claim(w, j) ==
  /\ agent[w].pc = "selected" /\ agent[w].job = j
  /\ jobs[j].status = "queued"
  /\ jobs' = [jobs EXCEPT ![j].status = "running", ![j].worker = w,
                          ![j].attempts = @ + 1, ![j].lease = Lease]
  /\ Granted(w, j, jobs[j].attempts + 1)
  /\ UNCHANGED <<arrivals, faults, retries>>

\* claim() returns get(), which reads the row after the claim's commit.
Fetch(w, j) ==
  /\ agent[w].pc = "claimed" /\ Holds(w, j)
  /\ agent' = IF jobs[j].status = "gone"
                THEN [agent EXCEPT ![w] = Idle("loop")]
                ELSE [agent EXCEPT ![w].pc = "fetched", ![w].attempts = jobs[j].attempts]
  /\ UNCHANGED <<jobs, arrivals, faults, retries>>

\* Mutant: the heartbeat extends the old deadline instead of starting at now.
HeartbeatAdds(w, j) ==
  /\ agent[w].pc = "fetched" /\ Holds(w, j)
  /\ jobs' = [jobs EXCEPT ![j].lease = IF LeaseLive(j) THEN @ + Lease ELSE @]
  /\ agent' = [agent EXCEPT ![w].pc = "working"]
  /\ UNCHANGED <<arrivals, faults, retries>>

\* heartbeat(): its result, the only sign of a lost claim, is not looked at.
Heartbeat(w, j) ==
  /\ agent[w].pc = "fetched" /\ Holds(w, j)
  /\ jobs' = [jobs EXCEPT ![j].lease = IF LeaseLive(j) THEN Lease ELSE @]
  /\ agent' = [agent EXCEPT ![w].pc = "working"]
  /\ UNCHANGED <<arrivals, faults, retries>>

\* update_result(): SELECT the status, in a statement of its own ...
ReportRead(w, j) ==
  /\ agent[w].pc = "working" /\ Holds(w, j)
  /\ jobs[j].status = "running"
  /\ agent' = [agent EXCEPT ![w].pc = "reporting"]
  /\ UNCHANGED <<jobs, arrivals, faults, retries>>

\* ... then renew the lease of whatever the row has become.
ReportWrite(w, j) ==
  /\ agent[w].pc = "reporting" /\ Holds(w, j)
  /\ jobs' = [jobs EXCEPT ![j].lease = IF jobs[j].status = "gone" THEN @ ELSE Lease]
  /\ agent' = [agent EXCEPT ![w].pc = "working"]
  /\ UNCHANGED <<arrivals, faults, retries>>

\* Mutant: ending a job forgets _clear_lease.
EndedLeased(row, s) == IF row.status = "gone" THEN row ELSE [row EXCEPT !.status = s]

\* Each ending of run_once writes the row by id alone and goes back to main().
Ended(row, s) ==
  IF row.status = "gone" THEN row
  ELSE IF s = "queued" THEN [Reset(row, s) EXCEPT !.delay = Unset]
  ELSE [row EXCEPT !.status = s, !.lease = Lapsed]

Finish(w, j, s) ==
  /\ agent[w].pc = "working" /\ Holds(w, j)
  /\ jobs' = [jobs EXCEPT ![j] = Ended(jobs[j], s)]
  /\ agent' = [agent EXCEPT ![w] = Idle("loop")]
  /\ UNCHANGED <<arrivals, faults>>

Complete(w, j) == Finish(w, j, "done") /\ UNCHANGED retries

\* A ValueError is permanent; any other error is, once the attempts are spent.
Fail(w, j) == Finish(w, j, "failed") /\ UNCHANGED retries

Requeue(w, j) ==
  /\ agent[w].attempts < MaxAttempts
  /\ Finish(w, j, "queued")
  /\ retries' = [retries EXCEPT ![j] = @ + 1]

(***************************************************************************)
(* Faults.  A killed process and an error that escapes run_once (a locked  *)
(* database in heartbeat, fail or requeue) both leave the row as it is.    *)
(***************************************************************************)
Drop(w, p) ==
  /\ faults < MaxFaults
  /\ agent[w].pc # "down"
  /\ agent' = [agent EXCEPT ![w] = Idle(p)]
  /\ faults' = faults + 1
  /\ UNCHANGED <<jobs, arrivals, retries>>

Kill(w)    == Drop(w, "down")
Escape(w)  == agent[w].pc # "loop" /\ Drop(w, "loop")

Restart(w) ==
  /\ agent[w].pc = "down"
  /\ agent' = [agent EXCEPT ![w] = Idle("loop")]
  /\ UNCHANGED <<jobs, arrivals, faults, retries>>

-----------------------------------------------------------------------------
\* The steps a running worker takes on its own.
Run(w) ==
  \/ ReapBeforePoll(w)
  \/ EmptyPoll(w)
  \/ \E j \in Jobs :
       \/ ClaimSelect(w, j) \/ ClaimLost(w, j) \/ Claim(w, j)
       \/ Fetch(w, j)      \/ Heartbeat(w, j)
       \/ ReportWrite(w, j)
       \/ Complete(w, j)   \/ Fail(w, j)      \/ Requeue(w, j)

Next ==
  \/ \E j \in Jobs, d \in Unset .. MaxDelay : Enqueue(j, d)
  \/ \E j \in Jobs : Remove(j) \/ Cancel(j)
  \/ ReapRoute
  \/ ForceRecover
  \/ Tick
  \/ \E w \in Workers : Run(w) \/ Kill(w) \/ Escape(w) \/ Restart(w)
  \/ \E w \in Workers, j \in Jobs : ReportRead(w, j)

Spec == Init /\ [][Next]_vars

(***************************************************************************)
(* Fairness: a worker that is up keeps running, a handler's work is finite *)
(* however often it reports, and time passes.  Clients, operators, kills   *)
(* and restarts are never promised.                                        *)
(***************************************************************************)
End(w) == \E j \in Jobs : Complete(w, j) \/ Fail(w, j) \/ Requeue(w, j)

FairSpec ==
  Spec /\ WF_vars(Tick) /\ \A w \in Workers : WF_vars(Run(w)) /\ SF_vars(End(w))

-----------------------------------------------------------------------------
TypeOK ==
  /\ jobs \in [Jobs -> Row]
  /\ agent \in [Workers -> Agent]
  /\ arrivals \in Nat
  /\ faults \in 0 .. MaxFaults
  /\ retries \in [Jobs -> Nat]

\* Whatever stalls, dies or is reaped, and whether or not claim() got its lock,
\* two workers that work on one job never do so under one and the same claim:
\* attempts would be a fencing token, if the writes of a late worker looked at it.
ClaimsAreDistinct ==
  \A w1, w2 \in Workers, j \in Jobs :
    Holds(w1, j) /\ Holds(w2, j) /\ w1 # w2 => agent[w1].claim # agent[w2].claim

\* Attempts survive the reaper (jobs.py, reap_stale), so however many workers
\* stall on a job and report late, run_once puts it back after an error fewer
\* than MAX_ATTEMPTS times in its whole life.
RetriesBounded == \A j \in Jobs : retries[j] < MaxAttempts

\* While workers outlive no lease, a job never has two workers, and its row,
\* unless deleted, names the one it has, under a lease that still runs.
OneWorkerPerJob ==
  \A w \in Workers, j \in Jobs :
    Holds(w, j) => /\ \A v \in Workers : Holds(v, j) => v = w
                   /\ jobs[j].status # "gone" => LeaseLive(j) /\ jobs[j].worker = w

\* "A terminal job must not hold a lease" (tests/test_jobs_lease.py), nor may
\* a queued one: update_result decides on a status it read in an earlier
\* statement.
LeaseMeansRunning ==
  \A j \in Jobs : jobs[j].lease >= 0 => jobs[j].status = "running"

\* A finished, failed or cancelled job is never brought back to life: it
\* stays as it is until its row is deleted.
TerminalIsFinal ==
  [][\A j \in Jobs : jobs[j].status \in Terminal =>
                       jobs'[j].status \in {jobs[j].status, "gone"}]_vars

\* In this step the job is ended, put back, or claimed anew.
TakenAway(j) ==
  jobs'[j].status \notin {"running", "gone"} \/ jobs'[j].attempts # jobs[j].attempts

\* "A running job whose lease is still valid is never cancelled and never
\* stolen" (docs/OPERATIONS.md): short of deleting the row, only the worker
\* whose claim it is ends it.
LiveLeaseNeverStolen ==
  [][\A j \in Jobs :
       LeaseLive(j) /\ TakenAway(j)
         => \E w \in Workers : Claimant(w, j) /\ ~Holds(w, j)']_vars

\* While workers outlive no lease the queue implements the contract: leases,
\* reaping and heartbeats are an implementation of "its worker is gone".
HolderOf(j) ==
  IF \E w \in Workers : Holds(w, j) THEN CHOOSE w \in Workers : Holds(w, j) ELSE NoWorker

Contract == INSTANCE JobContract WITH
  phase  <- [j \in Jobs |-> jobs[j].status],
  holder <- [j \in Jobs |-> HolderOf(j)]

ImplementsContract == Contract!Spec

\* Whatever stalls, fails or is forced, and as long as a worker stays up, an
\* enqueued job is eventually done, failed, cancelled or deleted: the reaper that
\* main() runs before each poll leaves none stranded in "running".
EveryJobSettles ==
  \A j \in Jobs :
    (jobs[j].status # "absent") ~> (jobs[j].status \in Terminal \cup {"gone"})
=============================================================================
