---------------------------- MODULE IngestProofs ----------------------------
(***************************************************************************)
(* Theorems about a document and its ingest jobs, for any number of jobs,  *)
(* workers, requests and versions, any lease length and any bounds.  What  *)
(* JobQueue's proofs show of the queue is used through the instance QP:    *)
(* without recover_stuck_jobs.py --force, which is no action of Ingest.    *)
(***************************************************************************)
EXTENDS Ingest, TLAPS

QP == INSTANCE JobQueueProofs WITH Forceable <- FALSE

-----------------------------------------------------------------------------
(***************************************************************************)
(* The queue inside.  Queue and QP are instances of the same module, so    *)
(* that what either says of the same variables is the same.                *)
(***************************************************************************)

\* What QP's lemmas ask of the constants.
LEMMA QPConstants ==
  /\ NoJob \notin Jobs /\ NoWorker \notin Workers
  /\ Lease \in Nat \ {0} /\ MaxAttempts \in Nat \ {0}
  /\ MaxDelay \in Nat /\ MaxFaults \in Nat
  /\ Punctual \in BOOLEAN /\ FALSE \in BOOLEAN
  BY QueueConstantsOK DEF Queue!ConstantsOK

\* The types ...
LEMMA SameTypes == QP!TypeOK <=> Queue!TypeOK
  BY DEF QP!TypeOK, QP!Row, QP!Agent, QP!Status, QP!Phase, QP!Terminal, QP!Lapsed, QP!Unset,
         Queue!TypeOK, Queue!Row, Queue!Agent, Queue!Status, Queue!Phase, Queue!Terminal,
         Queue!Lapsed, Queue!Unset

\* ... and who holds a job.
LEMMA SameState ==
  /\ QP!TypeOK <=> Queue!TypeOK
  /\ \A w \in Workers, j \in Jobs : QP!Holds(w, j) <=> Queue!Holds(w, j)
  BY SameTypes DEF QP!Holds, Queue!Holds

\* The steps that concern one worker and no job, or none.
LEMMA SameSteps ==
  ASSUME NEW w \in Workers
  PROVE  /\ Queue!ReapBeforePoll(w) <=> QP!ReapBeforePoll(w)
         /\ Queue!EmptyPoll(w) <=> QP!EmptyPoll(w)
         /\ Queue!Kill(w) <=> QP!Kill(w)
         /\ Queue!Escape(w) <=> QP!Escape(w)
         /\ Queue!Restart(w) <=> QP!Restart(w)
<1>1. Queue!ReapBeforePoll(w) <=> QP!ReapBeforePoll(w)
  BY DEF Queue!ReapBeforePoll, Queue!Reaped, Queue!Stale, Queue!Idle, Queue!Reset, Queue!Lapsed,
         QP!ReapBeforePoll, QP!Reaped, QP!Stale, QP!Idle, QP!Reset, QP!Lapsed
<1>2. Queue!EmptyPoll(w) <=> QP!EmptyPoll(w)
  BY DEF Queue!EmptyPoll, Queue!Due, Queue!Idle, QP!EmptyPoll, QP!Due, QP!Idle
<1>3. Queue!Kill(w) <=> QP!Kill(w)
  BY DEF Queue!Kill, Queue!Drop, Queue!Idle, QP!Kill, QP!Drop, QP!Idle
<1>4. Queue!Escape(w) <=> QP!Escape(w)
  BY DEF Queue!Escape, Queue!Drop, Queue!Idle, QP!Escape, QP!Drop, QP!Idle
<1>5. Queue!Restart(w) <=> QP!Restart(w)
  BY DEF Queue!Restart, Queue!Idle, QP!Restart, QP!Idle
<1> QED
  BY <1>1, <1>2, <1>3, <1>4, <1>5

\* The reaper's route and the clock.
LEMMA SameAround == (Queue!ReapRoute <=> QP!ReapRoute) /\ (Queue!Tick <=> QP!Tick)
<1>1. Queue!ReapRoute <=> QP!ReapRoute
  BY DEF Queue!ReapRoute, Queue!Reaped, Queue!Stale, Queue!Reset, Queue!Lapsed,
         QP!ReapRoute, QP!Reaped, QP!Stale, QP!Reset, QP!Lapsed
<1>2. Queue!Tick <=> QP!Tick
  BY DEF Queue!Tick, Queue!Holds, Queue!Lapsed, QP!Tick, QP!Holds, QP!Lapsed
<1> QED
  BY <1>1, <1>2

\* The steps of requests on a job.
LEMMA SameRequests ==
  ASSUME NEW j \in Jobs
  PROVE  /\ Queue!Enqueue(j, Queue!Unset) <=> QP!Enqueue(j, QP!Unset)
         /\ Queue!Cancel(j) <=> QP!Cancel(j)
  BY DEF Queue!Enqueue, Queue!Unset, Queue!Cancel, Queue!Stale, Queue!Reset, Queue!Lapsed,
         QP!Enqueue, QP!Unset, QP!Cancel, QP!Stale, QP!Reset, QP!Lapsed

\* The steps of a worker on a job.
LEMMA SameWork ==
  ASSUME NEW w \in Workers, NEW j \in Jobs
  PROVE  /\ Queue!ClaimSelect(w, j) <=> QP!ClaimSelect(w, j)
         /\ Queue!ClaimLost(w, j) <=> QP!ClaimLost(w, j)
         /\ Queue!Claim(w, j) <=> QP!Claim(w, j)
         /\ Queue!Fetch(w, j) <=> QP!Fetch(w, j)
         /\ Queue!Heartbeat(w, j) <=> QP!Heartbeat(w, j)
         /\ Queue!Complete(w, j) <=> QP!Complete(w, j)
         /\ Queue!Fail(w, j) <=> QP!Fail(w, j)
         /\ Queue!Requeue(w, j) <=> QP!Requeue(w, j)
<1>1. Queue!ClaimSelect(w, j) <=> QP!ClaimSelect(w, j)
  BY DEF Queue!ClaimSelect, Queue!Due, QP!ClaimSelect, QP!Due
<1>2. Queue!ClaimLost(w, j) <=> QP!ClaimLost(w, j)
  BY DEF Queue!ClaimLost, Queue!Idle, QP!ClaimLost, QP!Idle
<1>3. Queue!Claim(w, j) <=> QP!Claim(w, j)
  BY DEF Queue!Claim, Queue!Granted, QP!Claim, QP!Granted
<1>4. Queue!Fetch(w, j) <=> QP!Fetch(w, j)
  BY DEF Queue!Fetch, Queue!Holds, Queue!Idle, QP!Fetch, QP!Holds, QP!Idle
<1>5. Queue!Heartbeat(w, j) <=> QP!Heartbeat(w, j)
  BY DEF Queue!Heartbeat, Queue!Holds, Queue!LeaseLive, QP!Heartbeat, QP!Holds, QP!LeaseLive
<1>6. \A s : Queue!Finish(w, j, s) <=> QP!Finish(w, j, s)
  BY DEF Queue!Finish, Queue!Holds, Queue!Ended, Queue!Reset, Queue!Lapsed, Queue!Unset, Queue!Idle,
         QP!Finish, QP!Holds, QP!Ended, QP!Reset, QP!Lapsed, QP!Unset, QP!Idle
<1>7. Queue!Complete(w, j) <=> QP!Complete(w, j)
  BY <1>6 DEF Queue!Complete, QP!Complete
<1>8. Queue!Fail(w, j) <=> QP!Fail(w, j)
  BY <1>6 DEF Queue!Fail, QP!Fail
<1>9. Queue!Requeue(w, j) <=> QP!Requeue(w, j)
  BY <1>6 DEF Queue!Requeue, QP!Requeue
<1> QED
  BY <1>1, <1>2, <1>3, <1>4, <1>5, <1>7, <1>8, <1>9

\* Every step is one of the queue, or leaves it alone, but for an error.
LEMMA QueueStep ==
  ASSUME [Next]_vars, ~ \E w \in Workers : Raise(w)
  PROVE  [QP!Next]_(QP!vars)
<1> USE QPConstants
<1>1. CASE UNCHANGED qvars
  BY <1>1 DEF qvars, QP!vars
<1>2. ASSUME NEW w \in Workers,
             \/ QP!ReapBeforePoll(w) \/ QP!EmptyPoll(w)
             \/ \E j \in Jobs :
                  \/ QP!ClaimSelect(w, j) \/ QP!ClaimLost(w, j) \/ QP!Claim(w, j)
                  \/ QP!Fetch(w, j) \/ QP!Heartbeat(w, j)
                  \/ QP!Complete(w, j) \/ QP!Fail(w, j) \/ QP!Requeue(w, j)
      PROVE  QP!Next
  BY <1>2 DEF QP!Next, QP!Run
<1>3. ASSUME NEW c \in Clients, Post(c) \/ PatchEnqueue(c) \/ \E j \in Jobs : CancelIngest(c, j)
      PROVE  QP!Next
  <2>1. QP!Unset \in QP!Unset .. MaxDelay
    BY DEF QP!Unset
  <2> QED
    BY <1>3, <2>1, SameRequests DEF Post, PatchEnqueue, CancelIngest, QP!Next
<1>4. ASSUME NEW w \in Workers, Poll(w) PROVE QP!Next
  BY <1>2, <1>4, SameSteps, SameWork DEF Poll
<1>5. ASSUME NEW w \in Workers, End(w) PROVE QP!Next
  BY <1>2, <1>5, SameWork DEF End
<1>6. ASSUME NEW w \in Workers, Kill(w) PROVE QP!Next
  BY <1>6, SameSteps DEF Kill, QP!Next
<1>7. ASSUME Around PROVE QP!Next
  BY <1>7, SameAround, SameSteps DEF Around, QP!Next
<1> QED
  BY <1>1, <1>3, <1>4, <1>5, <1>6, <1>7
  DEF Next, Patch, PatchRead, PatchUnindex, PatchReplace, SetCancelled, Run, Read, AddChunks, Index,
      SetDone, SetFailed, vars, QP!vars

\* An error that the queue does not see is counted, and that is all.
LEMMA FaultOnly ==
  ASSUME QP!TypeOK, faults < MaxFaults, faults' = faults + 1,
         UNCHANGED <<jobs, agent, arrivals, retries>>
  PROVE  QP!TypeOK' /\ (QP!OwnInv => QP!OwnInv')
<1>1. QP!TypeOK'
  BY QPConstants DEF QP!TypeOK
<1>2. QP!OwnInv => QP!OwnInv'
  BY DEF QP!OwnInv, QP!IdleHoldsNothing, QP!OneWorkerPerJob, QP!ClaimIsLatest, QP!LeaseMeansRunning,
         QP!Holds, QP!LeaseLive, QP!Claimant
<1> QED
  BY <1>1, <1>2

\* The queue's types and, with no worker that outlives its lease, the queue's invariant.
LEMMA NextQueue ==
  ASSUME QP!TypeOK, [Next]_vars
  PROVE  QP!TypeOK' /\ (Punctual /\ QP!OwnInv => QP!OwnInv')
<1>1. ASSUME NEW w \in Workers, Raise(w) PROVE QP!TypeOK' /\ (QP!OwnInv => QP!OwnInv')
  BY <1>1, FaultOnly DEF Raise
<1>2. ASSUME [QP!Next]_(QP!vars) PROVE QP!TypeOK' /\ (Punctual /\ QP!OwnInv => QP!OwnInv')
  BY <1>2, QPConstants, QP!NextTypeOK, QP!NextOwnInv
<1> QED
  BY <1>1, <1>2, QueueStep

-----------------------------------------------------------------------------
(***************************************************************************)
(* Types.                                                                  *)
(***************************************************************************)

\* Every step keeps every variable in its type, and an added chunk has an id.
LEMMA NextTypeOK == TypeOK /\ [Next]_vars => TypeOK'
<1> SUFFICES ASSUME TypeOK, [Next]_vars PROVE TypeOK'
  OBVIOUS
<1>1. Queue!TypeOK'
  <2>1. QP!TypeOK'
    BY SameState, NextQueue DEF TypeOK
  <2> QED
    BY <2>1, SameTypes, PTL
<1>2. doc' \in [status : {"absent", "queued", "done", "failed", "cancelled"}, version : Version]
  <2>1. ASSUME Replace
        PROVE  doc' \in [status : {"absent", "queued", "done", "failed", "cancelled"}, version : Version]
    BY <2>1, IngestConstantsOK DEF TypeOK, Replace, Version, Nothing
  <2> QED
    BY <2>1
    DEF TypeOK, Next, Post, Patch, PatchRead, PatchUnindex, PatchReplace, PatchEnqueue, CancelIngest,
        SetCancelled, Run, Poll, Read, AddChunks, Index, SetDone, SetFailed, End, Leave, Raise, Kill,
        Around, vars
<1>3. chunks' \in [Ids -> Version]
  <2>1. Nothing \in Version
    BY IngestConstantsOK DEF Version, Nothing
  <2>2. \A w \in Workers : call[w].version \in Version
    BY DEF TypeOK, Call
  <2> QED
    BY <2>1, <2>2
    DEF TypeOK, Next, Post, Replace, Patch, PatchRead, PatchUnindex, PatchReplace, PatchEnqueue,
        CancelIngest, SetCancelled, Run, Poll, Read, AddChunks, Index, SetDone, SetFailed, End, Leave,
        Raise, Kill, Around, vars
<1>4. store' \in [Ids -> Version]
  <2>1. Nothing \in Version
    BY IngestConstantsOK DEF Version, Nothing
  <2>2. \A w \in Workers : call[w].version \in Version
    BY DEF TypeOK, Call
  <2> QED
    BY <2>1, <2>2
    DEF TypeOK, Next, Post, Patch, PatchRead, PatchUnindex, PatchReplace, PatchEnqueue,
        CancelIngest, SetCancelled, Run, Poll, Read, AddChunks, Index, SetDone, SetFailed, End, Leave,
        Raise, Kill, Around, vars
<1>5. request' \in [Clients -> Request]
  <2>1. ASSUME NEW c \in Clients, NEW ids \in SUBSET Ids,
               NEW from \in {"none", "unindexing", "replacing", "enqueueing", "cancelling"},
               NEW to \in {"none", "unindexing", "replacing", "enqueueing", "cancelling"},
               Goes(c, from, to, ids)
        PROVE  request' \in [Clients -> Request]
    BY <2>1 DEF TypeOK, Goes, Request
  <2>2. Chunked \in SUBSET Ids /\ {} \in SUBSET Ids
    BY DEF Chunked
  <2> QED
    BY <2>1, <2>2
    DEF TypeOK, Next, Post, Patch, PatchRead, PatchUnindex, PatchReplace, PatchEnqueue,
        CancelIngest, SetCancelled, Run, Poll, Read, AddChunks, Index, SetDone, SetFailed, End, Leave,
        Raise, Kill, Around, vars
<1>6. /\ call' \in [Workers -> Call]
      /\ \A w \in Workers : call'[w].stage = "added" => call'[w].id # Nothing
  <2>1. ASSUME call' = call
        PROVE  /\ call' \in [Workers -> Call]
               /\ \A w \in Workers : call'[w].stage = "added" => call'[w].id # Nothing
    BY <2>1 DEF TypeOK
  <2>2. ASSUME NEW w \in Workers, NEW l \in Call, l.stage = "added" => l.id # Nothing,
               call' = [call EXCEPT ![w] = l]
        PROVE  /\ call' \in [Workers -> Call]
               /\ \A v \in Workers : call'[v].stage = "added" => call'[v].id # Nothing
    BY <2>2 DEF TypeOK
  <2>3. ASSUME NEW w \in Workers, NEW s \in Stage \ {"added"}, call' = [call EXCEPT ![w].stage = s]
        PROVE  /\ call' \in [Workers -> Call]
               /\ \A v \in Workers : call'[v].stage = "added" => call'[v].id # Nothing
    <3>1. [call[w] EXCEPT !.stage = s] \in Call /\ [call[w] EXCEPT !.stage = s].stage = s
      BY <2>3 DEF TypeOK, Call
    <3>2. call' = [call EXCEPT ![w] = [call[w] EXCEPT !.stage = s]]
      BY <2>3
    <3> QED
      BY <2>2, <3>1, <3>2
  <2>4. ASSUME NEW w \in Workers, Read(w)
        PROVE  /\ call' \in [Workers -> Call]
               /\ \A v \in Workers : call'[v].stage = "added" => call'[v].id # Nothing
    <3> DEFINE l == [call[w] EXCEPT !.stage = "read", !.version = doc.version]
    <3>1. l \in Call /\ l.stage = "read"
      BY DEF TypeOK, Call, Stage
    <3>2. call' = [call EXCEPT ![w] = l]
      BY <2>4 DEF Read
    <3> QED
      BY <2>2, <3>1, <3>2
  <2>5. ASSUME NEW w \in Workers, AddChunks(w)
        PROVE  /\ call' \in [Workers -> Call]
               /\ \A v \in Workers : call'[v].stage = "added" => call'[v].id # Nothing
    <3>1. PICK i \in Ids : call' = [call EXCEPT ![w].stage = "added", ![w].id = i]
      BY <2>5 DEF AddChunks
    <3> DEFINE l == [call[w] EXCEPT !.stage = "added", !.id = i]
    <3>2. l \in Call /\ l.id = i
      BY DEF TypeOK, Call, Stage
    <3>3. call' = [call EXCEPT ![w] = l]
      BY <3>1
    <3>4. i # Nothing
      BY IngestConstantsOK DEF Ids, Nothing
    <3> QED
      BY <2>2, <3>2, <3>3, <3>4
  <2>6. ASSUME NEW w \in Workers, Leave(w)
        PROVE  /\ call' \in [Workers -> Call]
               /\ \A v \in Workers : call'[v].stage = "added" => call'[v].id # Nothing
    <3>1. Off \in Call /\ Off.stage = "off"
      BY IngestConstantsOK DEF Off, Call, Stage, Version, Nothing, Ids
    <3> QED
      BY <2>2, <2>6, <3>1 DEF Leave
  <2>7. ASSUME NEW w \in Workers, Index(w) \/ SetDone(w) \/ SetFailed(w)
        PROVE  /\ call' \in [Workers -> Call]
               /\ \A v \in Workers : call'[v].stage = "added" => call'[v].id # Nothing
    BY <2>3, <2>7 DEF Index, SetDone, SetFailed, Handler, Stage
  <2>8. ASSUME NEW w \in Workers, Raise(w)
        PROVE  /\ call' \in [Workers -> Call]
               /\ \A v \in Workers : call'[v].stage = "added" => call'[v].id # Nothing
    <3>1. PICK s \in {"failing", "raised"} : call' = [call EXCEPT ![w].stage = s]
      BY <2>8 DEF Raise
    <3> QED
      BY <2>3, <3>1 DEF Stage
  <2> QED
    BY <2>1, <2>4, <2>5, <2>6, <2>7, <2>8
    DEF Next, Post, Patch, PatchRead, PatchUnindex, PatchReplace, PatchEnqueue, CancelIngest,
        SetCancelled, Run, Poll, End, Kill, Around, vars
<1> QED
  BY <1>1, <1>2, <1>3, <1>4, <1>5, <1>6 DEF TypeOK

\* Every variable keeps its type, and a worker that goes on to index its chunk
\* knows the chunk's id, whatever else writes the rows meanwhile.
THEOREM TypeCorrect == Spec => []TypeOK
<1>1. Init => TypeOK
  <2> SUFFICES ASSUME Init PROVE TypeOK
    OBVIOUS
  <2>1. QP!Init
    BY DEF Init, Queue!Init, Queue!Absent, Queue!Idle, Queue!Lapsed, Queue!Unset,
           QP!Init, QP!Absent, QP!Idle, QP!Lapsed, QP!Unset
  <2>2. Queue!TypeOK
    BY <2>1, SameState, QPConstants, QP!InitTypeOK
  <2>3. Nothing \in Version
    BY IngestConstantsOK DEF Version, Nothing
  <2> QED
    BY <2>2, <2>3 DEF Init, TypeOK, Free, Request, Off, Call, Stage
<1> QED
  BY <1>1, NextTypeOK, PTL DEF Spec
-----------------------------------------------------------------------------
(***************************************************************************)
(* The inductive invariant.  NoContentIsLost counts a running job, but a   *)
(* job that is about to end as done helps nobody: of a running job it must *)
(* be known how far its worker has come, and with which content.           *)
(***************************************************************************)

Enqueueing == \E c \in Clients : request[c].at = "enqueueing"

\* A job that a worker will run, or whose row says why none does.
InHand(j) == jobs[j].status \in {"queued", "failed", "cancelled"}

\* The worker will read the document as it is, has it in its hands, or will not
\* return: its job will be put back or fail.
Current(w) ==
  \/ call[w].stage \in {"off", "failing", "raised"}
  \/ call[w].stage = "read" /\ call[w].version = doc.version

\* A running job that will index the present content, or not end as done; a job
\* that lost its worker is one.
WillIndex(j) ==
  jobs[j].status = "running" /\ \A w \in Workers : Queue!Holds(w, j) => Current(w)

\* A running job that has not yet set the status.
WillSettle(j) ==
  /\ jobs[j].status = "running"
  /\ \A w \in Workers : Queue!Holds(w, j) => call[w].stage # "returned"

\* Nothing in this module deletes the row of a job.
NoneGone == \A j \in Jobs : jobs[j].status # "gone"

\* Only a worker that works on a job is inside process_document.
CallsAreWork ==
  \A w \in Workers : IF agent[w].pc = "working" THEN agent[w].job \in Jobs ELSE call[w] = Off

\* Before the document is first written there is no job and no request for it.
NotYet ==
  doc.version = Nothing =>
    /\ doc.status = "absent"
    /\ \A j \in Jobs : jobs[j].status = "absent"
    /\ \A c \in Clients : request[c].at = "none"

ContentKept ==
  \/ doc.version = Nothing
  \/ Indexed
  \/ Enqueueing
  \/ \E j \in Jobs : InHand(j) \/ WillIndex(j)

StatusKept ==
  doc.status \in {"queued", "failed"} => Enqueueing \/ \E j \in Jobs : InHand(j) \/ WillSettle(j)

IngestInv == NoneGone /\ CallsAreWork /\ NotYet /\ ContentKept /\ StatusKept

\* A job that is worked on is running, under a lease, and has one worker.
LEMMA HeldIsLive ==
  ASSUME QP!TypeOK, QP!OwnInv, NoneGone, NEW w \in Workers, NEW j \in Jobs, Queue!Holds(w, j)
  PROVE  /\ jobs[j].status = "running" /\ ~Queue!Stale(j)
         /\ \A v \in Workers : Queue!Holds(v, j) => v = w
<1>1. QP!LeaseLive(j) /\ \A v \in Workers : Queue!Holds(v, j) => v = w
  BY SameState DEF QP!OwnInv, QP!OneWorkerPerJob, NoneGone
<1>2. jobs[j].lease \in Int
  BY QPConstants DEF QP!TypeOK, QP!Row, QP!Lapsed
<1> QED
  BY <1>1, <1>2 DEF QP!LeaseLive, Queue!Stale

-----------------------------------------------------------------------------
(***************************************************************************)
(* The steps of the queue, of workers and of requests on jobs.             *)
(***************************************************************************)

\* What such a step does to a job's status: a row stays as it is, is claimed, is
\* taken in hand, or is done because its handler returned.
StatusMoves ==
  \A j \in Jobs :
    \/ jobs'[j].status = jobs[j].status
    \/ jobs[j].status # "absent" /\ jobs'[j].status \in {"queued", "failed", "cancelled"}
    \/ jobs[j].status = "queued" /\ jobs'[j].status = "running"
    \/ /\ jobs'[j].status = "done"
       /\ \E w \in Workers : Queue!Holds(w, j) /\ call[w].stage = "returned"

\* ... and to whom works on it: a worker that has just taken the job is not yet
\* inside process_document.
HoldsMoves ==
  \A w \in Workers, j \in Jobs :
    Queue!Holds(w, j)' => \/ call'[w] = Off
                          \/ Queue!Holds(w, j) /\ call'[w] = call[w]

\* Whatever moves so loses neither the content nor its status.
LEMMA MovesKeep ==
  ASSUME QP!TypeOK, QP!OwnInv, IngestInv, StatusMoves, HoldsMoves, CallsAreWork',
         UNCHANGED <<doc, chunks>>, Enqueueing => Enqueueing',
         doc.version = Nothing => request' = request
  PROVE  IngestInv'
<1> USE DEF IngestInv
<1>1. ASSUME NEW w \in Workers, NEW j \in Jobs, Queue!Holds(w, j)
      PROVE  jobs[j].status = "running"
  BY <1>1, HeldIsLive
<1>2. NoneGone'
  BY DEF StatusMoves, NoneGone
<1>3. NotYet'
  BY <1>1 DEF StatusMoves, NotYet
<1>4. ASSUME NEW j \in Jobs, InHand(j) PROVE InHand(j)' \/ WillIndex(j)'
  <2>1. ASSUME jobs[j].status = "queued", jobs'[j].status = "running" PROVE WillIndex(j)'
    <3>1. \A w \in Workers : Queue!Holds(w, j)' => call'[w].stage = "off"
      BY <1>1, <2>1 DEF HoldsMoves, Off
    <3> QED
      BY <2>1, <3>1 DEF WillIndex, Current
  <2>2. \A w \in Workers : ~Queue!Holds(w, j)
    BY <1>1, <1>4 DEF InHand
  <2> QED
    BY <1>4, <2>1, <2>2 DEF StatusMoves, InHand
<1>5. ASSUME NEW w \in Workers, NEW j \in Jobs, Queue!Holds(w, j)'
      PROVE  \/ Current(w)' /\ call'[w].stage # "returned"
             \/ Queue!Holds(w, j) /\ call'[w] = call[w]
  BY <1>5 DEF HoldsMoves, Off, Current
<1>6. ASSUME NEW j \in Jobs, WillIndex(j) PROVE InHand(j)' \/ WillIndex(j)'
  <2>1. jobs'[j].status # "done"
    BY <1>6 DEF StatusMoves, WillIndex, Current
  <2>2. \A w \in Workers : Queue!Holds(w, j)' => Current(w)'
    BY <1>5, <1>6 DEF WillIndex, Current
  <2> QED
    BY <1>6, <2>1, <2>2 DEF StatusMoves, InHand, WillIndex
<1>7. ASSUME NEW j \in Jobs, WillSettle(j) PROVE InHand(j)' \/ WillSettle(j)'
  <2>1. jobs'[j].status # "done"
    BY <1>7 DEF StatusMoves, WillSettle
  <2>2. \A w \in Workers : Queue!Holds(w, j)' => call'[w].stage # "returned"
    BY <1>5, <1>7 DEF WillSettle
  <2> QED
    BY <1>7, <2>1, <2>2 DEF StatusMoves, InHand, WillSettle
<1>8. \A j \in Jobs : WillIndex(j)' => WillSettle(j)'
  BY DEF WillIndex, WillSettle, Current
<1>9. ContentKept'
  BY <1>4, <1>6 DEF ContentKept, Indexed
<1>10. StatusKept'
  BY <1>4, <1>7, <1>8 DEF StatusKept
<1> QED
  BY <1>2, <1>3, <1>9, <1>10

\* What becomes of a row that is cancelled or put back.
LEMMA ResetRow ==
  ASSUME NEW row \in QP!Row, NEW s \in QP!Status
  PROVE  Queue!Reset(row, s).status = s
<1>1. Queue!Reset(row, s) = QP!Reset(row, s)
  BY DEF Queue!Reset, Queue!Lapsed, QP!Reset, QP!Lapsed
<1> QED
  BY <1>1 DEF QP!Reset, QP!Row

\* A reaper pass puts back what is running under no lease.
LEMMA ReapedRows ==
  ASSUME QP!TypeOK
  PROVE  \A j \in Jobs :
           \/ Queue!Reaped[j] = jobs[j]
           \/ jobs[j].status = "running" /\ Queue!Reaped[j].status = "queued"
<1> SUFFICES ASSUME NEW j \in Jobs
             PROVE  \/ Queue!Reaped[j] = jobs[j]
                    \/ jobs[j].status = "running" /\ Queue!Reaped[j].status = "queued"
  OBVIOUS
<1>1. CASE Queue!Stale(j)
  BY <1>1, ResetRow DEF Queue!Reaped, Queue!Stale, QP!TypeOK, QP!Status
<1>2. CASE ~Queue!Stale(j)
  BY <1>2 DEF Queue!Reaped
<1> QED
  BY <1>1, <1>2

\* A worker that lets go of its job, or takes one, leaves the others alone.
LEMMA WorkerMoves ==
  ASSUME NEW w \in Workers, CallsAreWork,
         \A v \in Workers \ {w} : agent'[v] = agent[v] /\ call'[v] = call[v],
         \/ /\ agent'[w].pc # "working" /\ call'[w] = Off
         \/ /\ agent'[w].pc = "working" /\ agent'[w].job \in Jobs
            /\ call'[w] = Off
  PROVE  HoldsMoves /\ CallsAreWork'
<1>1. CallsAreWork'
  BY DEF CallsAreWork
<1>2. HoldsMoves
  BY DEF HoldsMoves, Queue!Holds
<1> QED
  BY <1>1, <1>2

\* Polling for a job: the reaper, the claim, the heartbeat.
LEMMA PollMoves ==
  ASSUME QP!TypeOK, CallsAreWork, NEW w \in Workers, Poll(w)
  PROVE  StatusMoves /\ HoldsMoves /\ CallsAreWork'
<1> USE DEF Poll
<1>1. call' = call
  OBVIOUS
<1>2. CASE Queue!ReapBeforePoll(w)
  <2>1. /\ jobs' = Queue!Reaped
        /\ agent[w].pc = "loop" /\ agent'[w].pc = "poll"
        /\ \A v \in Workers \ {w} : agent'[v] = agent[v]
    BY <1>2 DEF Queue!ReapBeforePoll, Queue!Idle, QP!TypeOK
  <2>2. HoldsMoves /\ CallsAreWork'
    BY <1>1, <2>1, WorkerMoves DEF CallsAreWork
  <2>3. StatusMoves
    BY <2>1, ReapedRows DEF StatusMoves
  <2> QED
    BY <2>2, <2>3
<1>3. CASE Queue!EmptyPoll(w)
  <2>1. /\ jobs' = jobs
        /\ agent[w].pc = "poll" /\ agent'[w].pc = "loop"
        /\ \A v \in Workers \ {w} : agent'[v] = agent[v]
    BY <1>3 DEF Queue!EmptyPoll, Queue!Idle, QP!TypeOK
  <2> QED
    BY <1>1, <2>1, WorkerMoves DEF CallsAreWork, StatusMoves
<1>4. ASSUME NEW j \in Jobs, Queue!ClaimSelect(w, j) \/ Queue!ClaimLost(w, j) \/ Queue!Fetch(w, j)
      PROVE  StatusMoves /\ HoldsMoves /\ CallsAreWork'
  <2>1. /\ jobs' = jobs
        /\ agent[w].pc # "working" /\ agent'[w].pc # "working"
        /\ \A v \in Workers \ {w} : agent'[v] = agent[v]
    <3>1. CASE Queue!ClaimSelect(w, j)
      BY <3>1 DEF Queue!ClaimSelect, QP!TypeOK, QP!Agent
    <3>2. CASE Queue!ClaimLost(w, j)
      BY <3>2 DEF Queue!ClaimLost, Queue!Idle, QP!TypeOK
    <3>3. CASE Queue!Fetch(w, j)
      BY <3>3 DEF Queue!Fetch, Queue!Idle, QP!TypeOK, QP!Agent
    <3> QED
      BY <1>4, <3>1, <3>2, <3>3
  <2> QED
    BY <1>1, <2>1, WorkerMoves DEF CallsAreWork, StatusMoves
<1>5. ASSUME NEW j \in Jobs, Queue!Claim(w, j) PROVE StatusMoves /\ HoldsMoves /\ CallsAreWork'
  <2>1. /\ jobs[j].status = "queued" /\ jobs'[j].status = "running"
        /\ \A k \in Jobs \ {j} : jobs'[k] = jobs[k]
        /\ agent[w].pc = "selected" /\ agent'[w].pc = "claimed"
        /\ \A v \in Workers \ {w} : agent'[v] = agent[v]
    BY <1>5 DEF Queue!Claim, Queue!Granted, QP!TypeOK, QP!Row
  <2>2. HoldsMoves /\ CallsAreWork'
    BY <1>1, <2>1, WorkerMoves DEF CallsAreWork
  <2> QED
    BY <2>1, <2>2 DEF StatusMoves
<1>6. ASSUME NEW j \in Jobs, Queue!Heartbeat(w, j) PROVE StatusMoves /\ HoldsMoves /\ CallsAreWork'
  <2>1. /\ \A k \in Jobs : jobs'[k].status = jobs[k].status
        /\ agent[w].pc = "fetched" /\ agent'[w].pc = "working" /\ agent'[w].job = j
        /\ \A v \in Workers \ {w} : agent'[v] = agent[v]
    BY <1>6 DEF Queue!Heartbeat, Queue!Holds, QP!TypeOK, QP!Row, QP!Agent
  <2>2. HoldsMoves /\ CallsAreWork'
    BY <1>1, <2>1, WorkerMoves DEF CallsAreWork
  <2> QED
    BY <2>1, <2>2 DEF StatusMoves
<1> QED
  BY <1>2, <1>3, <1>4, <1>5, <1>6

\* The end of the handler, whichever it is.
LEMMA EndMoves ==
  ASSUME QP!TypeOK, QP!OwnInv, call \in [Workers -> Call], CallsAreWork, NoneGone,
         NEW w \in Workers, End(w)
  PROVE  StatusMoves /\ HoldsMoves /\ CallsAreWork'
<1>1. PICK j \in Jobs, s \in {"queued", "done", "failed"} :
        /\ Queue!Finish(w, j, s)
        /\ s = "done" => call[w].stage = "returned"
  BY DEF End, Queue!Complete, Queue!Requeue, Queue!Fail
<1>2. /\ jobs' = [jobs EXCEPT ![j] = Queue!Ended(jobs[j], s)]
      /\ Queue!Holds(w, j)
      /\ agent[w].pc = "working" /\ agent'[w].pc = "loop"
      /\ \A v \in Workers \ {w} : agent'[v] = agent[v]
  BY <1>1 DEF Queue!Finish, Queue!Idle, QP!TypeOK
<1>3. Queue!Ended(jobs[j], s).status = s
  <2>1. Queue!Ended(jobs[j], s) = QP!Ended(jobs[j], s)
    BY DEF Queue!Ended, Queue!Reset, Queue!Lapsed, Queue!Unset, QP!Ended, QP!Reset, QP!Lapsed, QP!Unset
  <2> QED
    BY <2>1, QPConstants, QP!EndedRow DEF QP!TypeOK, NoneGone
<1>4. jobs'[j].status = s /\ \A k \in Jobs \ {j} : jobs'[k] = jobs[k]
  BY <1>2, <1>3 DEF QP!TypeOK
<1>5. jobs[j].status = "running"
  BY <1>2, HeldIsLive
<1>6. HoldsMoves /\ CallsAreWork'
  BY <1>2, WorkerMoves DEF End, Leave
<1> QED
  BY <1>1, <1>2, <1>4, <1>5, <1>6 DEF StatusMoves

\* A kill, an error that escapes, the reaper's route, the clock, a restart.
LEMMA OutsideMoves ==
  ASSUME QP!TypeOK, call \in [Workers -> Call], CallsAreWork,
         Around \/ \E w \in Workers : Kill(w)
  PROVE  StatusMoves /\ HoldsMoves /\ CallsAreWork'
<1>1. ASSUME NEW w \in Workers, Kill(w) PROVE StatusMoves /\ HoldsMoves /\ CallsAreWork'
  <2>1. PICK p \in {"down", "loop"} : Queue!Drop(w, p)
    BY <1>1 DEF Kill, Queue!Kill, Queue!Escape
  <2>2. /\ jobs' = jobs /\ agent'[w].pc # "working"
        /\ \A v \in Workers \ {w} : agent'[v] = agent[v]
    BY <2>1 DEF Queue!Drop, Queue!Idle, QP!TypeOK
  <2> QED
    BY <1>1, <2>2, WorkerMoves DEF Kill, Leave, StatusMoves
<1>2. CASE Around
  <2>1. call' = call
    BY <1>2 DEF Around
  <2>2. CASE Queue!ReapRoute
    <3>1. jobs' = Queue!Reaped /\ agent' = agent
      BY <2>2 DEF Queue!ReapRoute
    <3>2. StatusMoves
      BY <3>1, ReapedRows DEF StatusMoves
    <3> QED
      BY <2>1, <3>1, <3>2 DEF HoldsMoves, Queue!Holds, CallsAreWork
  <2>3. CASE Queue!Tick
    <3>1. agent' = agent /\ \A j \in Jobs : jobs'[j].status = jobs[j].status
      BY <2>3 DEF Queue!Tick, QP!TypeOK, QP!Row
    <3> QED
      BY <2>1, <3>1 DEF StatusMoves, HoldsMoves, Queue!Holds, CallsAreWork
  <2>4. ASSUME NEW w \in Workers, Queue!Restart(w)
        PROVE  StatusMoves /\ HoldsMoves /\ CallsAreWork'
    <3>1. /\ jobs' = jobs /\ agent[w].pc = "down" /\ agent'[w].pc = "loop"
          /\ \A v \in Workers \ {w} : agent'[v] = agent[v]
      BY <2>4 DEF Queue!Restart, Queue!Idle, QP!TypeOK
    <3> QED
      BY <2>1, <3>1, WorkerMoves DEF StatusMoves, CallsAreWork
  <2> QED
    BY <1>2, <2>2, <2>3, <2>4 DEF Around
<1> QED
  BY <1>1, <1>2

\* A cancellation takes a job that nobody works on.
LEMMA CancelMoves ==
  ASSUME QP!TypeOK, CallsAreWork, NEW c \in Clients, NEW j \in Jobs, CancelIngest(c, j)
  PROVE  StatusMoves /\ HoldsMoves /\ CallsAreWork' /\ jobs[j].status # "absent"
<1>1. /\ jobs[j].status \in {"queued", "running"}
      /\ agent' = agent /\ call' = call
  BY DEF CancelIngest, Queue!Cancel, Queue!Stale
<1>2. jobs'[j].status = "cancelled" /\ \A k \in Jobs \ {j} : jobs'[k] = jobs[k]
  BY ResetRow DEF CancelIngest, Queue!Cancel, QP!TypeOK, QP!Status, QP!Terminal
<1> QED
  BY <1>1, <1>2 DEF StatusMoves, HoldsMoves, Queue!Holds, CallsAreWork

-----------------------------------------------------------------------------
(***************************************************************************)
(* Each step keeps the invariant.                                          *)
(***************************************************************************)

\* A job is enqueued, with new content or for content that was just written.
LEMMA EnqueueKeeps ==
  ASSUME QP!TypeOK, IngestInv, NEW j \in Jobs, Queue!Enqueue(j, Queue!Unset),
         call' = call, doc'.version # Nothing
  PROVE  IngestInv'
<1>1. /\ agent' = agent /\ jobs[j].status = "absent" /\ jobs'[j].status = "queued"
      /\ \A k \in Jobs \ {j} : jobs'[k] = jobs[k]
  BY DEF Queue!Enqueue, QP!TypeOK, QP!Row
<1>2. NoneGone' /\ CallsAreWork'
  BY <1>1 DEF IngestInv, NoneGone, CallsAreWork
<1>3. InHand(j)'
  BY <1>1 DEF InHand
<1> QED
  BY <1>2, <1>3 DEF IngestInv, NotYet, ContentKept, StatusKept

\* The content is replaced by a request that has its job still to enqueue.
LEMMA ReplaceKeeps ==
  ASSUME doc.version \in Nat, IngestInv, UNCHANGED qvars, call' = call, Replace, Enqueueing'
  PROVE  IngestInv'
<1>1. doc'.version # Nothing
  BY DEF Replace, Nothing
<1>2. NoneGone' /\ CallsAreWork'
  BY DEF qvars, IngestInv, NoneGone, CallsAreWork
<1> QED
  BY <1>1, <1>2 DEF IngestInv, NotYet, ContentKept, StatusKept

\* A request that neither writes the document nor enqueues a job.
LEMMA RequestKeeps ==
  ASSUME IngestInv, UNCHANGED <<qvars, chunks, call>>, Enqueueing => Enqueueing',
         doc'.version = doc.version,
         doc'.status = doc.status \/ doc'.status = "cancelled",
         doc.version # Nothing
  PROVE  IngestInv'
<1>1. NoneGone' /\ CallsAreWork'
  BY DEF qvars, IngestInv, NoneGone, CallsAreWork
<1>2. \A j \in Jobs : /\ InHand(j) => InHand(j)'
                      /\ WillIndex(j) => WillIndex(j)'
                      /\ WillSettle(j) => WillSettle(j)'
  BY DEF qvars, InHand, WillIndex, WillSettle, Current, Queue!Holds
<1>3. ContentKept'
  BY <1>2 DEF IngestInv, ContentKept, Indexed
<1>4. StatusKept'
  BY <1>2 DEF IngestInv, StatusKept
<1> QED
  BY <1>1, <1>3, <1>4 DEF IngestInv, NotYet

\* A step of the handler, which writes no job: its worker is the only one on its
\* job, which either was no job that will index the content, or still is one.
LEMMA HandlerKeeps ==
  ASSUME QP!TypeOK, QP!OwnInv, IngestInv, NEW w \in Workers, agent[w].pc = "working",
         UNCHANGED <<jobs, agent, request>>,
         \A v \in Workers \ {w} : call'[v] = call[v],
         doc'.version = doc.version,
         doc.version # Nothing => (Current(w) => Current(w)' \/ Indexed'),
         doc.version # Nothing => (Indexed => Indexed'),
         doc'.status \in {"queued", "failed"} =>
           /\ doc'.status = doc.status \/ call'[w].stage # "returned"
           /\ call[w].stage # "returned" => call'[w].stage # "returned"
  PROVE  IngestInv'
<1> USE DEF IngestInv
<1>1. NoneGone' /\ CallsAreWork'
  BY DEF NoneGone, CallsAreWork
<1>2. PICK own \in Jobs : own = agent[w].job
  BY DEF CallsAreWork
<1>3. Queue!Holds(w, own) /\ \A j \in Jobs : Queue!Holds(w, j) => j = own
  BY <1>2 DEF Queue!Holds
<1>4. jobs[own].status = "running" /\ \A v \in Workers : Queue!Holds(v, own) => v = w
  BY <1>3, HeldIsLive
<1>5. doc.version # Nothing
  BY <1>4 DEF NotYet
<1>6. \A j \in Jobs : InHand(j) => InHand(j)'
  BY DEF InHand
<1>7. \A j \in Jobs : WillIndex(j) => WillIndex(j)' \/ Indexed'
  BY <1>3, <1>5 DEF WillIndex, Current, Queue!Holds
<1>8. ContentKept'
  BY <1>5, <1>6, <1>7 DEF ContentKept, Enqueueing
<1>9. StatusKept'
  <2> SUFFICES ASSUME doc'.status \in {"queued", "failed"} PROVE StatusKept'
    BY DEF StatusKept
  <2>1. CASE doc'.status = doc.status
    <3>1. \A j \in Jobs : WillSettle(j) => WillSettle(j)'
      BY <1>3 DEF WillSettle, Queue!Holds
    <3> QED
      BY <1>6, <2>1, <3>1 DEF StatusKept, Enqueueing
  <2>2. CASE call'[w].stage # "returned"
    <3>1. WillSettle(own)'
      BY <1>4, <2>2 DEF WillSettle, Queue!Holds
    <3> QED
      BY <3>1 DEF StatusKept
  <2> QED
    BY <2>1, <2>2
<1> QED
  BY <1>1, <1>5, <1>8, <1>9 DEF NotYet

\* A document that exists was written, and keeps its version but when it is replaced.
LEMMA HandlerInv ==
  ASSUME TypeOK, QP!OwnInv, IngestInv, NEW w \in Workers,
         Read(w) \/ AddChunks(w) \/ Index(w) \/ SetDone(w) \/ SetFailed(w) \/ Raise(w)
  PROVE  IngestInv'
<1> USE DEF TypeOK
<1>1. QP!TypeOK
  BY SameState
<1>2. /\ agent[w].pc = "working" /\ UNCHANGED <<jobs, agent, request>>
      /\ doc'.version = doc.version
      /\ \A v \in Workers \ {w} : call'[v] = call[v]
  BY DEF Read, AddChunks, Index, SetDone, SetFailed, Raise, Handler, qvars
<1>3. CASE Read(w)
  <2>1. call'[w].stage = "read" /\ call'[w].version = doc.version
    BY <1>3 DEF Read, Call
  <2>2. doc' = doc /\ chunks' = chunks
    BY <1>3 DEF Read
  <2> QED
    BY <1>1, <1>2, <2>1, <2>2, HandlerKeeps DEF Current, Indexed
<1>4. CASE AddChunks(w)
  <2>1. PICK i \in Ids : /\ NextId(i)
                         /\ chunks' = [chunks EXCEPT ![i] = call[w].version]
                         /\ call' = [call EXCEPT ![w].stage = "added", ![w].id = i]
    BY <1>4 DEF AddChunks
  <2>2. doc' = doc /\ call[w].stage = "read" /\ call'[w].stage = "added"
    <3>1. doc' = doc /\ call[w].stage = "read"
      BY <1>4 DEF AddChunks
    <3>2. call'[w] = [call[w] EXCEPT !.stage = "added", !.id = i]
      BY <2>1
    <3>3. call[w] \in Call
      OBVIOUS
    <3> QED
      BY <3>1, <3>2, <3>3 DEF Call
  <2>3. chunks[i] = Nothing
    BY <2>1 DEF NextId, Chunked, Ids
  <2>4. doc.version # Nothing => (Indexed => Indexed')
    BY <2>1, <2>2, <2>3 DEF Indexed
  <2>5. Current(w) => Indexed'
    BY <2>1, <2>2 DEF Current, Indexed
  <2>6. /\ doc'.status = doc.status
        /\ call[w].stage # "returned" => call'[w].stage # "returned"
    BY <2>2
  <2> QED
    BY <1>1, <1>2, <2>4, <2>5, <2>6, HandlerKeeps
<1>5. CASE Index(w) \/ SetDone(w)
  <2>1. /\ call[w].stage \in {"added", "indexed"} /\ chunks' = chunks
        /\ \/ doc' = doc /\ call'[w].stage = "indexed"
           \/ doc'.status = "done"
    BY <1>5 DEF Index, SetDone, Handler, Call
  <2>2. ~Current(w)
    BY <2>1 DEF Current
  <2> QED
    BY <1>1, <1>2, <2>1, <2>2, HandlerKeeps DEF Indexed
<1>6. CASE SetFailed(w) \/ Raise(w)
  <2>1. call'[w].stage \in {"failing", "raised"} /\ chunks' = chunks
    BY <1>6 DEF SetFailed, Raise, Handler, Call
  <2> QED
    BY <1>1, <1>2, <2>1, HandlerKeeps DEF Current, Indexed
<1> QED
  BY <1>3, <1>4, <1>5, <1>6

\* Posting, patching, and the second transaction of a cancellation.
LEMMA RequestInv ==
  ASSUME TypeOK, IngestInv, NEW c \in Clients, Post(c) \/ Patch(c) \/ SetCancelled(c)
  PROVE  IngestInv'
<1> USE DEF TypeOK
<1>1. QP!TypeOK /\ doc.version \in Nat
  BY SameState, IngestConstantsOK DEF Version, Nothing
<1>2. CASE Post(c)
  <2>1. PICK j \in Jobs : Queue!Enqueue(j, Queue!Unset)
    BY <1>2 DEF Post
  <2>2. doc'.version # Nothing
    BY <1>1, <1>2 DEF Post, Replace, Nothing
  <2> QED
    BY <1>1, <1>2, <2>1, <2>2, EnqueueKeeps DEF Post
<1>3. CASE PatchReplace(c)
  <2>1. Enqueueing'
    BY <1>3 DEF PatchReplace, Goes, Enqueueing
  <2> QED
    BY <1>1, <1>3, <2>1, ReplaceKeeps DEF PatchReplace
<1>4. CASE PatchEnqueue(c)
  <2>1. PICK j \in Jobs : Queue!Enqueue(j, Queue!Unset)
    BY <1>4 DEF PatchEnqueue
  <2>2. doc.version # Nothing
    BY <1>4 DEF PatchEnqueue, Goes, IngestInv, NotYet
  <2> QED
    BY <1>1, <1>4, <2>1, <2>2, EnqueueKeeps DEF PatchEnqueue
<1>5. CASE PatchRead(c) \/ PatchUnindex(c) \/ SetCancelled(c)
  <2>1. doc.version # Nothing
    BY <1>5 DEF PatchRead, PatchUnindex, SetCancelled, Goes, IngestInv, NotYet
  <2>2. Enqueueing => Enqueueing'
    BY <1>5 DEF PatchRead, PatchUnindex, SetCancelled, Goes, Enqueueing
  <2>3. doc'.version = doc.version /\ (doc'.status = doc.status \/ doc'.status = "cancelled")
    BY <1>5 DEF PatchRead, PatchUnindex, SetCancelled
  <2> QED
    BY <1>5, <2>1, <2>2, <2>3, RequestKeeps DEF PatchRead, PatchUnindex, SetCancelled
<1> QED
  BY <1>2, <1>3, <1>4, <1>5 DEF Patch

\* Every step keeps the invariant.
LEMMA NextIngestInv ==
  ASSUME TypeOK, QP!OwnInv, IngestInv, [Next]_vars
  PROVE  IngestInv'
<1> USE DEF TypeOK
<1>1. QP!TypeOK
  BY SameState
<1>2. ASSUME StatusMoves, HoldsMoves, CallsAreWork', UNCHANGED <<doc, chunks, request>>
      PROVE  IngestInv'
  BY <1>1, <1>2, MovesKeep DEF Enqueueing
<1>3. ASSUME NEW w \in Workers, Poll(w) PROVE IngestInv'
  BY <1>1, <1>2, <1>3, PollMoves DEF Poll, IngestInv
<1>4. ASSUME NEW w \in Workers, End(w) PROVE IngestInv'
  <2>1. UNCHANGED <<doc, chunks, request>>
    BY <1>4 DEF End, Leave
  <2> QED
    BY <1>1, <1>2, <1>4, <2>1, EndMoves DEF IngestInv
<1>5. ASSUME Around \/ \E w \in Workers : Kill(w) PROVE IngestInv'
  <2>1. UNCHANGED <<doc, chunks, request>>
    BY <1>5 DEF Around, Kill, Leave
  <2> QED
    BY <1>1, <1>2, <1>5, <2>1, OutsideMoves DEF IngestInv
<1>6. ASSUME NEW c \in Clients, NEW j \in Jobs, CancelIngest(c, j) PROVE IngestInv'
  <2>1. /\ StatusMoves /\ HoldsMoves /\ CallsAreWork' /\ jobs[j].status # "absent"
        /\ UNCHANGED <<doc, chunks>>
    BY <1>1, <1>6, CancelMoves DEF CancelIngest, IngestInv
  <2>2. Enqueueing => Enqueueing'
    BY <1>6 DEF CancelIngest, Goes, Enqueueing
  <2>3. doc.version # Nothing
    BY <2>1 DEF IngestInv, NotYet
  <2> QED
    BY <1>1, <2>1, <2>2, <2>3, MovesKeep
<1>7. CASE UNCHANGED vars
  BY <1>2, <1>7 DEF vars, qvars, StatusMoves, HoldsMoves, Queue!Holds, IngestInv, CallsAreWork
<1> QED
  BY <1>3, <1>4, <1>5, <1>6, <1>7, HandlerInv, RequestInv DEF Next, Run

\* While workers outlive no lease, the invariant and the queue's hold in every
\* reachable state.
LEMMA IngestAlways ==
  ASSUME Punctual
  PROVE  Spec => [](QP!OwnInv /\ IngestInv)
<1>1. Init => QP!OwnInv /\ IngestInv
  <2> SUFFICES ASSUME Init PROVE QP!OwnInv /\ IngestInv
    OBVIOUS
  <2>1. /\ \A j \in Jobs : jobs[j].status = "absent" /\ ~(jobs[j].lease >= 0)
        /\ \A w \in Workers : agent[w].pc = "loop" /\ agent[w].job = NoJob /\ call[w] = Off
        /\ doc.status = "absent" /\ doc.version = Nothing
        /\ \A c \in Clients : request[c].at = "none"
    BY DEF Init, Queue!Init, Queue!Absent, Queue!Idle, Queue!Lapsed, Free
  <2>2. QP!OwnInv
    BY <2>1, QPConstants
    DEF QP!OwnInv, QP!IdleHoldsNothing, QP!OneWorkerPerJob, QP!ClaimIsLatest, QP!LeaseMeansRunning,
        QP!Holds
  <2>3. IngestInv
    BY <2>1 DEF IngestInv, NoneGone, CallsAreWork, NotYet, ContentKept, StatusKept
  <2> QED
    BY <2>2, <2>3
<1>2. TypeOK /\ (QP!OwnInv /\ IngestInv) /\ [Next]_vars => (QP!OwnInv /\ IngestInv)'
  BY SameState, NextQueue, NextIngestInv DEF TypeOK
<1> QED
  BY <1>1, <1>2, TypeCorrect, PTL DEF Spec

-----------------------------------------------------------------------------
(***************************************************************************)
(* The theorem.                                                            *)
(***************************************************************************)

\* While workers outlive no lease, no race of replacements and cancellations with
\* workers that are killed, raise or are slow loses the content of a document.
THEOREM ContentIsSafe ==
  ASSUME Punctual
  PROVE  Spec => []NoContentIsLost
<1>1. TypeOK /\ IngestInv => NoContentIsLost
  <2> SUFFICES ASSUME TypeOK, IngestInv, doc.status \notin {"absent", "cancelled"}
               PROVE  NoContentIsLost
    BY DEF NoContentIsLost
  <2>1. doc.version # Nothing
    BY DEF IngestInv, NotYet
  <2>2. CASE doc.status = "done"
    BY <2>1, <2>2
    DEF IngestInv, ContentKept, NoContentIsLost, Enqueueing, InHand, WillIndex
  <2>3. CASE doc.status \in {"queued", "failed"}
    BY <2>3 DEF IngestInv, StatusKept, NoContentIsLost, Enqueueing, InHand, WillSettle
  <2> QED
    BY <2>2, <2>3 DEF TypeOK
<1> QED
  BY <1>1, IngestAlways, TypeCorrect, PTL
-----------------------------------------------------------------------------
(***************************************************************************)
(* The contract of the queue.                                              *)
(***************************************************************************)

\* While workers outlive no lease, the jobs of this component keep the contract of
\* the queue (JobContract) whatever the handler does between a claim and its end.
THEOREM Implementation ==
  ASSUME Punctual
  PROVE  Spec => QP!ImplementsContract
<1>1. Init => QP!Contract!Init
  <2>1. Init => QP!Init
    BY DEF Init, Queue!Init, Queue!Absent, Queue!Idle, Queue!Lapsed, Queue!Unset,
           QP!Init, QP!Absent, QP!Idle, QP!Lapsed, QP!Unset
  <2> QED
    BY <2>1, QPConstants, QP!InitContract
<1>2. TypeOK /\ QP!OwnInv /\ QP!OwnInv' /\ [Next]_vars => [QP!Contract!Next]_(QP!Contract!cvars)
  <2> SUFFICES ASSUME TypeOK, QP!OwnInv, QP!OwnInv', [Next]_vars
               PROVE  [QP!Contract!Next]_(QP!Contract!cvars)
    OBVIOUS
  <2>1. ASSUME NEW w \in Workers, Raise(w) PROVE UNCHANGED QP!Contract!cvars
    BY <2>1, QPConstants, QP!StutterSteps DEF Raise, QP!Holds
  <2>2. ASSUME [QP!Next]_(QP!vars) PROVE [QP!Contract!Next]_(QP!Contract!cvars)
    BY <2>2, SameState, QPConstants, QP!ContractStep DEF TypeOK
  <2> QED
    BY <2>1, <2>2, QueueStep
<1> QED
  BY <1>1, <1>2, IngestAlways, TypeCorrect, PTL DEF Spec, QP!ImplementsContract, QP!Contract!Spec
=============================================================================
