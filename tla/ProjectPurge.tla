---------------------------- MODULE ProjectPurge ----------------------------
(***************************************************************************)
(* The deletion of a project: delete_project, cancel_job and the writes of *)
(* app.py race with each other and with the purge_project job that a       *)
(* worker runs.                                                            *)
(*                                                                         *)
(* The routes are not serialised: each is a sequence of SQLite statements  *)
(* and transactions, with other requests and workers in between.  A write  *)
(* asks whether the project is being deleted before the transaction that   *)
(* inserts, and no foreign key ties the inserted row to the project.       *)
(***************************************************************************)
EXTENDS Integers, FiniteSets

CONSTANTS
  Jobs, Workers, NoJob, NoWorker, Lease, MaxAttempts, MaxDelay, MaxFaults,
  Punctual, Forceable,   \* as in JobQueue; the jobs are the purge jobs
  Clients,       \* API requests in flight, each with a document of its own
  KillStages,    \* the stages of the handler at which a worker may be killed
  ErrorStages,   \* the stages at which a statement may raise
  CrashPoints    \* where in a request the API process may die

VARIABLES
  jobs, agent, arrivals, faults, retries,   \* JobQueue's
  project,   \* the row of the projects table
  copies,    \* how many rows documents has for each client's custom_id
  request,   \* where each API request is
  stage      \* where each worker is in the handler of purge_project

qvars == <<jobs, agent, arrivals, faults, retries>>
vars  == <<qvars, project, copies, request, stage>>

Queue == INSTANCE JobQueue

Stage == {"off", "purging", "returned", "raised"}
Point == {"writing", "deleting", "clearing"}

ASSUME QueueConstantsOK == Queue!ConstantsOK

ASSUME PurgeConstantsOK ==
  /\ KillStages \subseteq Stage
  /\ ErrorStages \subseteq Stage
  /\ CrashPoints \subseteq Point

Init ==
  /\ Queue!Init
  /\ project = "active"
  /\ copies = [c \in Clients |-> 0]
  /\ request = [c \in Clients |-> "none"]
  /\ stage = [w \in Workers |-> "off"]

-----------------------------------------------------------------------------
(***************************************************************************)
(* The API.                                                                *)
(***************************************************************************)
Goes(c, from, to) ==
  request[c] = from /\ request' = [request EXCEPT ![c] = to]

\* effective_project and authorize: a SELECT of the deleting flag.
Admit(c) ==
  /\ project = "active"
  /\ Goes(c, "none", "writing")
  /\ UNCHANGED <<qvars, project, copies, stage>>

\* Mutant: create_document inserts without looking for the custom_id.
InsertAlways(c) == copies[c] + 1

\* create_document inserts a row, or refreshes the one with that custom_id.
Upserted(c) == 1

Write(c) ==
  /\ Goes(c, "writing", "none")
  /\ copies' = [copies EXCEPT ![c] = Upserted(c)]
  /\ UNCHANGED <<qvars, project, stage>>

\* delete_project: SELECT the row ...
FindProject(c) ==
  /\ project = "active"
  /\ Goes(c, "none", "deleting")
  /\ UNCHANGED <<qvars, project, copies, stage>>

\* Mutant: the flag is set on whatever the row has become.
MarkDeletingUnguarded(c) ==
  /\ Goes(c, "deleting", "none")
  /\ \E j \in Jobs : Queue!Enqueue(j, Queue!Unset)
  /\ project' = IF project = "gone" THEN project ELSE "deleting"
  /\ UNCHANGED <<copies, stage>>

\* ... then enqueue the job and set the flag in one transaction, rolled back
\* when the guarded UPDATE changes nothing.
MarkDeleting(c) ==
  /\ Goes(c, "deleting", "none")
  /\ \/ /\ project = "active"
        /\ project' = "deleting"
        /\ \E j \in Jobs : Queue!Enqueue(j, Queue!Unset)
     \/ project # "active" /\ UNCHANGED <<qvars, project>>
  /\ UNCHANGED <<copies, stage>>

\* Mutant: cancel interrupts a running purge.
CancelLivePurge(c, j) ==
  /\ Goes(c, "none", "clearing")
  /\ jobs[j].status \in {"queued", "running"}
  /\ jobs' = [jobs EXCEPT ![j] = Queue!Reset(@, "cancelled")]
  /\ UNCHANGED <<agent, arrivals, faults, retries, project, copies, stage>>

\* cancel_job: the job is cancelled in one transaction ...
CancelPurge(c, j) ==
  /\ Goes(c, "none", "clearing")
  /\ Queue!Cancel(j)
  /\ UNCHANGED <<project, copies, stage>>

\* ... and the flag is cleared in the next.
ClearFlag(c) ==
  /\ Goes(c, "clearing", "none")
  /\ project' = IF project = "gone" THEN project ELSE "active"
  /\ UNCHANGED <<qvars, copies, stage>>

\* The API process dies; what is committed stays.
ApiCrash(c) ==
  /\ request[c] \in CrashPoints
  /\ faults < MaxFaults
  /\ faults' = faults + 1
  /\ request' = [request EXCEPT ![c] = "none"]
  /\ UNCHANGED <<jobs, agent, arrivals, retries, project, copies, stage>>

-----------------------------------------------------------------------------
(***************************************************************************)
(* The handler of purge_project in the worker that runs the job.           *)
(***************************************************************************)
Handler(w, from, to) ==
  /\ agent[w].pc = "working"
  /\ stage[w] = from
  /\ stage' = [stage EXCEPT ![w] = to]

\* A purge that finds its project gone has nothing left to do.
Look(w) ==
  /\ IF project = "gone" THEN Handler(w, "off", "returned") ELSE Handler(w, "off", "purging")
  /\ UNCHANGED <<qvars, project, copies, request>>

\* db.purge_project, one transaction: every row of the project, its jobs but
\* this one, and the project itself.
Purge(w) ==
  /\ Handler(w, "purging", "returned")
  /\ project' = "gone"
  /\ IF project = "gone" THEN UNCHANGED <<copies, jobs>>
     ELSE /\ copies' = [c \in Clients |-> 0]
          /\ jobs' = [j \in Jobs |->
                        IF j = agent[w].job \/ jobs[j].status = "absent" THEN jobs[j]
                        ELSE Queue!Reset(jobs[j], "gone")]
  /\ UNCHANGED <<agent, arrivals, faults, retries, request>>

\* A statement raises, or the vector store does, which is emptied first.
Raise(w) ==
  /\ stage[w] \in ErrorStages
  /\ faults < MaxFaults
  /\ faults' = faults + 1
  /\ Handler(w, stage[w], "raised")
  /\ UNCHANGED <<jobs, agent, arrivals, retries, project, copies, request>>

Leave(w) == stage' = [stage EXCEPT ![w] = "off"] /\ UNCHANGED <<project, copies, request>>

\* Mutant: an error of the purge is swallowed, and its job completed.
EndSwallowing(w) ==
  /\ stage[w] \in {"returned", "raised"}
  /\ \E j \in Jobs : Queue!Complete(w, j)
  /\ Leave(w)

End(w) ==
  \E j \in Jobs :
    /\ \/ stage[w] = "returned" /\ Queue!Complete(w, j)
       \/ stage[w] = "raised" /\ Queue!Requeue(w, j)
       \/ stage[w] = "raised" /\ agent[w].attempts >= MaxAttempts /\ Queue!Fail(w, j)
    /\ Leave(w)

\* Mutant: the worker polls without reaping.
PollUnreaped(w) ==
  /\ \/ Queue!PollWithoutReaping(w)
     \/ Queue!EmptyPoll(w)
     \/ \E j \in Jobs :
          \/ Queue!ClaimSelect(w, j) \/ Queue!ClaimLost(w, j) \/ Queue!Claim(w, j)
          \/ Queue!Fetch(w, j) \/ Queue!Heartbeat(w, j)
  /\ UNCHANGED <<project, copies, request, stage>>

Poll(w) ==
  /\ \/ Queue!ReapBeforePoll(w)
     \/ Queue!EmptyPoll(w)
     \/ \E j \in Jobs :
          \/ Queue!ClaimSelect(w, j) \/ Queue!ClaimLost(w, j) \/ Queue!Claim(w, j)
          \/ Queue!Fetch(w, j) \/ Queue!Heartbeat(w, j)
  /\ UNCHANGED <<project, copies, request, stage>>

Kill(w) ==
  /\ stage[w] \in KillStages
  /\ Queue!Kill(w) \/ Queue!Escape(w)
  /\ Leave(w)

Around ==
  /\ Queue!ReapRoute \/ Queue!Tick \/ \E w \in Workers : Queue!Restart(w)
  /\ UNCHANGED <<project, copies, request, stage>>

-----------------------------------------------------------------------------
Run(w) == Poll(w) \/ Look(w) \/ Purge(w) \/ End(w)

\* A request that has committed its first transaction goes on to the second.
Proceed(c) == MarkDeleting(c) \/ ClearFlag(c)

Next ==
  \/ \E c \in Clients :
       \/ Admit(c) \/ Write(c) \/ FindProject(c) \/ Proceed(c) \/ ApiCrash(c)
       \/ \E j \in Jobs : CancelPurge(c, j)
  \/ \E w \in Workers : Run(w) \/ Raise(w) \/ Kill(w)
  \/ Around

Spec == Init /\ [][Next]_vars

FairSpec ==
  /\ Spec
  /\ WF_vars(Queue!Tick /\ UNCHANGED <<project, copies, request, stage>>)
  /\ \A w \in Workers : WF_vars(Run(w))
  /\ \A c \in Clients : WF_vars(Proceed(c))

-----------------------------------------------------------------------------
Pending == {j \in Jobs : jobs[j].status \in {"queued", "running"}}

\* "UNIQUE(container_tag, custom_id, org_id, project_id)" (db.py): documents
\* has at most one row per custom_id.
TypeOK ==
  /\ Queue!TypeOK
  /\ project \in {"active", "deleting", "gone"}
  /\ copies \in [Clients -> 0 .. 1]
  /\ request \in [Clients -> Point \cup {"none"}]
  /\ stage \in [Workers -> Stage]

\* A purge whose retries are spent: the project stays in deleting, for an operator to see.
GivenUp == \E j \in Jobs : jobs[j].status = "failed"

GivingBack == \E c \in Clients : request[c] = "clearing"

\* A project that refuses writes (delete_project) has a job that will purge it,
\* or an operator who is just giving it back (cancel_job), or a job that failed
\* and says why: no race of deletions, cancellations and kills loses its purge.
DeletionInHand == project = "deleting" => Pending # {} \/ GivingBack \/ GivenUp

\* Concurrent DELETEs of a project and cancellations of its purge
\* (delete_project, cancel_job) never leave two jobs that will purge it.
OnePurge == Cardinality(Pending) <= 1

\* A project is purged only while its deletion is requested: a cancelled purge
\* has no worker left that would still carry it out (jobs.cancel refuses while
\* one holds a live lease).
PurgedOnRequest == [][project' = "gone" => project # "active"]_vars

\* As long as a worker is up now and then, a requested deletion ends, whoever is
\* killed: the project is purged or given back (jobs.reap_stale, cancel_job),
\* unless its job fails for good.
DeletionEnds ==
  []<>(\E w \in Workers : agent[w].pc # "down") =>
    (project = "deleting" ~> project # "deleting" \/ GivenUp)
=============================================================================
