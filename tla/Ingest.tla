------------------------------- MODULE Ingest -------------------------------
(***************************************************************************)
(* A document (documents, chunks and the vector store) that clients write  *)
(* and replace, and the ingest jobs by which workers chunk, embed and      *)
(* index it (ingest.process_document), on the job queue.                   *)
(*                                                                         *)
(* There is one document, each version of which is one chunk.  Chunk ids   *)
(* are rowids of a table without AUTOINCREMENT: an id whose row is deleted *)
(* is given out again.  The dream job that follows an ingest is FactGraph's*)
(* matter, and its handler does not touch what is modelled here.           *)
(***************************************************************************)
EXTENDS Integers, FiniteSets

CONSTANTS
  Jobs, Workers, NoJob, NoWorker, Lease, MaxAttempts, MaxDelay, MaxFaults,
  Punctual, Forceable,   \* as in JobQueue; the jobs are ingest jobs
  MaxVersion,    \* bound: how often the content is written
  MaxId,         \* bound: the largest chunk id
  Clients,       \* API requests in flight
  InProject      \* TRUE: the document belongs to a project

VARIABLES
  jobs, agent, arrivals, faults, retries,   \* JobQueue's
  doc,       \* the row of documents
  chunks,    \* the version that each chunk row holds the text of
  store,     \* the same of each vector
  request,   \* where each API request is, and the chunk ids it has read
  call       \* each worker's locals inside process_document

qvars == <<jobs, agent, arrivals, faults, retries>>
vars  == <<qvars, doc, chunks, store, request, call>>

Queue == INSTANCE JobQueue

Ids     == 1 .. MaxId
Nothing == 0
Version == Nothing .. MaxVersion

ASSUME QueueConstantsOK == Queue!ConstantsOK

ASSUME IngestConstantsOK ==
  /\ MaxVersion \in Nat \ {0}
  /\ MaxId \in Nat \ {0}
  /\ InProject \in BOOLEAN

Stage   == {"off", "read", "added", "indexed", "failing", "returned", "raised"}
Call    == [stage : Stage, version : Version, id : Ids \cup {Nothing}]
Request == [at : {"none", "unindexing", "replacing", "enqueueing", "cancelling"}, ids : SUBSET Ids]

Off  == [stage |-> "off", version |-> Nothing, id |-> Nothing]
Free == [at |-> "none", ids |-> {}]

Chunked == {i \in Ids : chunks[i] # Nothing}

Init ==
  /\ Queue!Init
  /\ doc = [status |-> "absent", version |-> Nothing]
  /\ chunks = [i \in Ids |-> Nothing]
  /\ store = [i \in Ids |-> Nothing]
  /\ request = [c \in Clients |-> Free]
  /\ call = [w \in Workers |-> Off]

-----------------------------------------------------------------------------
(***************************************************************************)
(* The API.                                                                *)
(***************************************************************************)
Goes(c, from, to, ids) ==
  request[c].at = from /\ request' = [request EXCEPT ![c] = [at |-> to, ids |-> ids]]

\* The content is replaced: the row is queued afresh and its chunks are deleted.
Replace ==
  /\ doc.version < MaxVersion
  /\ doc' = [status |-> "queued", version |-> doc.version + 1]
  /\ chunks' = [i \in Ids |-> Nothing]

\* POST /v3/documents: create_document and the job in one transaction.  The
\* vectors of a refreshed document are not deleted.
Post(c) ==
  /\ request[c].at = "none"
  /\ Replace
  /\ \E j \in Jobs : Queue!Enqueue(j, Queue!Unset)
  /\ UNCHANGED <<store, request, call>>

\* PATCH /v3/documents/{id}: the ids of the old chunks are read, ...
PatchRead(c) ==
  /\ doc.status # "absent"
  /\ Goes(c, "none", IF Chunked = {} THEN "replacing" ELSE "unindexing", Chunked)
  /\ UNCHANGED <<qvars, doc, chunks, store, call>>

\* ... their vectors are deleted, ...
PatchUnindex(c) ==
  /\ Goes(c, "unindexing", "replacing", {})
  /\ store' = [i \in Ids |-> IF i \in request[c].ids THEN Nothing ELSE store[i]]
  /\ UNCHANGED <<qvars, doc, chunks, call>>

\* ... update_document commits, ...
PatchReplace(c) ==
  /\ Goes(c, "replacing", "enqueueing", {})
  /\ Replace
  /\ UNCHANGED <<qvars, store, call>>

\* ... and the job is enqueued in a transaction of its own.
PatchEnqueue(c) ==
  /\ Goes(c, "enqueueing", "none", {})
  /\ \E j \in Jobs : Queue!Enqueue(j, Queue!Unset)
  /\ UNCHANGED <<doc, chunks, store, call>>

\* Mutant: the job is enqueued before the content is replaced.
PatchOutOfOrder(c) ==
  \/ PatchRead(c)
  \/ PatchUnindex(c)
  \/ /\ Goes(c, "replacing", "enqueueing", {})
     /\ \E j \in Jobs : Queue!Enqueue(j, Queue!Unset)
     /\ UNCHANGED <<doc, chunks, store, call>>
  \/ /\ Goes(c, "enqueueing", "none", {})
     /\ Replace
     /\ UNCHANGED <<qvars, store, call>>

Patch(c) == PatchRead(c) \/ PatchUnindex(c) \/ PatchReplace(c) \/ PatchEnqueue(c)

\* cancel_job: the job is cancelled; for a project's document the status is
\* set in another transaction.
CancelIngest(c, j) ==
  /\ Goes(c, "none", IF InProject THEN "cancelling" ELSE "none", {})
  /\ Queue!Cancel(j)
  /\ UNCHANGED <<doc, chunks, store, call>>

SetCancelled(c) ==
  /\ Goes(c, "cancelling", "none", {})
  /\ doc' = [doc EXCEPT !.status = "cancelled"]
  /\ UNCHANGED <<qvars, chunks, store, call>>

-----------------------------------------------------------------------------
(***************************************************************************)
(* process_document, in the worker that runs an ingest job.                *)
(***************************************************************************)
Handler(w, from, to) ==
  /\ agent[w].pc = "working" /\ call[w].stage = from
  /\ call' = [call EXCEPT ![w].stage = to]

\* The row is read once; the text is then chunked and embedded.
Read(w) ==
  /\ agent[w].pc = "working" /\ call[w].stage = "off"
  /\ call' = [call EXCEPT ![w].stage = "read", ![w].version = doc.version]
  /\ UNCHANGED <<qvars, doc, chunks, store, request>>

\* The id that SQLite gives a new row: one more than the largest there is.
NextId(i) == i \in Ids /\ (\A k \in Chunked : k < i) /\ (i = 1 \/ i - 1 \in Chunked)

\* Mutant: the ids of the new rows are not kept.
AddChunksUnnamed(w) ==
  /\ Handler(w, "read", "added")
  /\ \E i \in Ids : NextId(i) /\ chunks' = [chunks EXCEPT ![i] = call[w].version]
  /\ UNCHANGED <<qvars, doc, store, request>>

\* add_chunks adds rows, whatever rows the document has.
AddChunks(w) ==
  /\ agent[w].pc = "working" /\ call[w].stage = "read"
  /\ \E i \in Ids :
       /\ NextId(i)
       /\ chunks' = [chunks EXCEPT ![i] = call[w].version]
       /\ call' = [call EXCEPT ![w].stage = "added", ![w].id = i]
  /\ UNCHANGED <<qvars, doc, store, request>>

\* vector_store.upsert, by chunk id.
Index(w) ==
  /\ Handler(w, "added", "indexed")
  /\ store' = [store EXCEPT ![call[w].id] = call[w].version]
  /\ UNCHANGED <<qvars, doc, chunks, request>>

SetDone(w) ==
  /\ Handler(w, "indexed", "returned")
  /\ doc' = [doc EXCEPT !.status = "done"]
  /\ UNCHANGED <<qvars, chunks, store, request>>

SetFailed(w) ==
  /\ Handler(w, "failing", "raised")
  /\ doc' = [doc EXCEPT !.status = "failed"]
  /\ UNCHANGED <<qvars, chunks, store, request>>

\* A statement or the embedder raises.  Before the row is read, while the status
\* is being set and after the return there is no except clause to set it.
Raise(w) ==
  /\ agent[w].pc = "working" /\ call[w].stage # "raised"
  /\ faults < MaxFaults
  /\ faults' = faults + 1
  /\ call' = [call EXCEPT ![w].stage =
                IF @ \in {"read", "added", "indexed"} THEN "failing" ELSE "raised"]
  /\ UNCHANGED <<jobs, agent, arrivals, retries, doc, chunks, store, request>>

-----------------------------------------------------------------------------
(***************************************************************************)
(* The queue's steps.                                                      *)
(***************************************************************************)
Leave(w) == call' = [call EXCEPT ![w] = Off] /\ UNCHANGED <<doc, chunks, store, request>>

\* A ValueError, as of an answer that is not JSON, is permanent.
End(w) ==
  \E j \in Jobs :
    /\ \/ call[w].stage = "returned" /\ Queue!Complete(w, j)
       \/ call[w].stage = "raised" /\ (Queue!Requeue(w, j) \/ Queue!Fail(w, j))
    /\ Leave(w)

\* Mutant: the worker polls without reaping.
PollUnreaped(w) ==
  /\ \/ Queue!PollWithoutReaping(w)
     \/ Queue!EmptyPoll(w)
     \/ \E j \in Jobs :
          \/ Queue!ClaimSelect(w, j) \/ Queue!ClaimLost(w, j) \/ Queue!Claim(w, j)
          \/ Queue!Fetch(w, j) \/ Queue!Heartbeat(w, j)
  /\ UNCHANGED <<doc, chunks, store, request, call>>

Poll(w) ==
  /\ \/ Queue!ReapBeforePoll(w)
     \/ Queue!EmptyPoll(w)
     \/ \E j \in Jobs :
          \/ Queue!ClaimSelect(w, j) \/ Queue!ClaimLost(w, j) \/ Queue!Claim(w, j)
          \/ Queue!Fetch(w, j) \/ Queue!Heartbeat(w, j)
  /\ UNCHANGED <<doc, chunks, store, request, call>>

Kill(w) == (Queue!Kill(w) \/ Queue!Escape(w)) /\ Leave(w)

Around ==
  /\ Queue!ReapRoute \/ Queue!Tick \/ \E w \in Workers : Queue!Restart(w)
  /\ UNCHANGED <<doc, chunks, store, request, call>>

-----------------------------------------------------------------------------
Run(w) ==
  \/ Poll(w) \/ Read(w) \/ AddChunks(w) \/ Index(w) \/ SetDone(w) \/ SetFailed(w) \/ End(w)

Next ==
  \/ \E c \in Clients : Post(c) \/ Patch(c) \/ SetCancelled(c)
  \/ \E c \in Clients, j \in Jobs : CancelIngest(c, j)
  \/ \E w \in Workers : Run(w) \/ Raise(w) \/ Kill(w)
  \/ Around

Spec == Init /\ [][Next]_vars

\* Workers that are up run, time passes, and a request that has committed its
\* first transaction goes on to the last.
FairSpec ==
  /\ Spec
  /\ WF_vars(Queue!Tick /\ UNCHANGED <<doc, chunks, store, request, call>>)
  /\ \A w \in Workers : WF_vars(Run(w))
  /\ \A c \in Clients : WF_vars(PatchEnqueue(c) \/ SetCancelled(c))

-----------------------------------------------------------------------------
TypeOK ==
  /\ Queue!TypeOK
  /\ doc \in [status : {"absent", "queued", "done", "failed", "cancelled"}, version : Version]
  /\ chunks \in [Ids -> Version]
  /\ store \in [Ids -> Version]
  /\ request \in [Clients -> Request]
  /\ call \in [Workers -> Call]
  /\ \A w \in Workers : call[w].stage = "added" => call[w].id # Nothing

Indexed == \E i \in Ids : chunks[i] = doc.version

\* A document whose current content is not indexed, or which reads "queued" or
\* "failed", has a job that will see to it or one that says why not, or its
\* request is still on its way (update_document, process_document, cancel_job):
\* no race of a replacement with the workers loses the content it wrote.
NoContentIsLost ==
  \/ doc.status \in {"absent", "cancelled"}
  \/ doc.status = "done" /\ Indexed
  \/ \E j \in Jobs : jobs[j].status \in {"queued", "running", "failed", "cancelled"}
  \/ \E c \in Clients : request[c].at = "enqueueing"

\* "Documents read queued until the worker flips them" (docs/ARCHITECTURE.md),
\* and a worker does, whoever is killed, unless the job failed for good or was
\* cancelled.
EveryDocumentSettles ==
  (doc.status = "queued") ~>
    \/ doc.status \in {"done", "failed", "cancelled"}
    \/ \E j \in Jobs : jobs[j].status \in {"failed", "cancelled"}
=============================================================================
