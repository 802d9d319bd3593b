# A TLA+ model of Memoratum

Memoratum is a self-hosted memory service for AI agents: a FastAPI process and
any number of worker processes that share one SQLite file (WAL mode). This
directory holds TLA+ specifications of its core, written from the source under
`src/memoratum/` (all paths below are relative to the repository), TLC
configurations that check them on small instances, and TLAPS proofs.

`PROJECT.json` maps every definition to the lines it stands for and lists runs,
mutants, findings, hazards and theorems.

## The system

| Part | State | Operations | Speaks to |
|---|---|---|---|
| Durable job queue (`jobs.py`) | table `jobs`: status, attempts, worker, lease deadline, `run_after`, `created_at` | enqueue, claim, heartbeat, update_result, complete, fail, requeue, cancel, reap_stale | everything below through the table |
| Worker (`worker.py`) | what `run_once` holds in memory: the job as read after the claim | reap, claim, dispatch to a handler, end the job | queue, every handler |
| Recovery (`scripts/recover_stuck_jobs.py`) | none | list, reap, `--force` | the table, with workers up |
| Webhook outbox (`webhooks.py`) | `webhook_deliveries`: status, attempts, `next_attempt_at`; one job per owed delivery | record_event (in the transaction of the change), deliver, retry or give up, replay, delete | the queue; HTTP receivers |
| Project deletion (`app.delete_project`, `app.cancel_job`, `db.purge_project`) | `projects.deleting`, every row of the project | request, cancel, purge | the queue; every writing route |
| Ingest (`ingest.py`) | `documents.status`, `chunks`, vectors | process, replace, cancel | queue, embedder, vector store |
| Fact graph (`facts.py`, `dreaming.py`) | `facts`: validity and supersession; a memory per fact | add, revive, supersede, forget | memories, webhooks |
| Memories (`db.py`, `app.py`, `worker.py`) | `memories` (version, state, text), `memory_history`, vectors | create, update, categorise, soft delete, batches, bulk jobs, reindex | queue, vector store |
| Idempotency (`db.py` 1272-1350) | `idempotency_keys` | claim, complete, release, expire | the routes that write memories |
| Start-up (`db.connect`, `db._apply_migration`) | `schema_migrations`, tables | apply, verify | every request, worker round and tool |
| Backup and restore (`backup.py`) | the database file, its -wal file, a snapshot | copy, verify, replace, unlink | the database file |
| Authorization and management (`app.py`, `db.py`, `retention.py`) | `projects`, `project_members`, `api_keys`, `revoked_keys`, `share_links`, `webhooks` | admit, issue, revoke, share, create, purge, sweep | every route |
| Search and ranking (`search.py`, `rerank.py`) | none; `facts.embedding` as a cache | three legs, fusion, reranking | chunks, facts, memories, vector store |
| Vector stores (`vectorstore.py`) | points; readiness and transaction of each process | upsert, query, delete | SQLite, Qdrant, Chroma, Postgres |
| Chunking, embeddings, LLM, rate limiting, metering, auditing | counters | pure functions, calls to external models | |
| Evaluation harness, dashboard, clients | outside the running service | | HTTP |

What makes it hard:

* **Concurrency.** API requests are not serialised (the lock in `app.py` only
  covers opening a connection): every route is a sequence of SQLite statements
  between which other requests and workers commit. Workers coordinate only
  through the `jobs` table.
* **Failure.** A worker may be killed at any point; its claim is then recovered
  when the lease lapses. A worker that is merely slow looks the same. An error
  that `run_once` catches is retried; one that escapes it (a locked database in
  `heartbeat`, `fail` or `requeue`) leaves the job to the reaper.
* **Ordering and time.** Leases, `run_after`, `next_attempt_at` and idempotency
  expiry are deadlines compared with the wall clock by different processes.
* **Several commits for one operation.** Marking a delivery and scheduling its
  retry, cancelling a purge and clearing the project's flag, chunks and status
  of a document: each pair is two transactions.

The properties that make each part correct are the hazards of `PROJECT.json`
turned round; those that are checked are listed with the runs below.

## Modules

| Module | What it is |
|---|---|
| `JobContract` | What the queue promises: at most one holder per job, only the holder ends it, a job without a holder may be taken back, ended is ended. No leases, clocks or attempts. |
| `JobQueue` | `jobs.py`, the loop of `worker.py`, the cancel and reap routes and the recovery script; refines `JobContract`. |
| `JobQueueProofs` | TLAPS proofs about `JobQueue`. |
| `WebhookOutbox` | `webhooks.py` composed with an instance of `JobQueue`: the handler of `webhook_delivery`, replay and deletion. |
| `WebhookOutboxProofs` | TLAPS proofs about `WebhookOutbox`. |
| `ProjectPurge` | The deletion of a project composed with an instance of `JobQueue`: routes, the handler of `purge_project`, and the writes that race with them. |
| `ProjectPurgeProofs` | TLAPS proofs about `ProjectPurge`. |
| `FactGraph` | `facts.py` with the memory that each fact projects into: one relation, written by the API and by dreaming workers. |
| `Ingest` | A document, its chunks and its vectors, composed with an instance of `JobQueue`: posting, patching, cancelling, and the handler of `ingest`. |
| `IngestProofs` | TLAPS proofs about `Ingest`. |
| `Memories` | The writers of memories: every route and job that writes them, in the steps between their commits, with history, idempotency keys and vectors. |
| `MemoriesProofs` | TLAPS proofs about `Memories`. |
| `Startup` | `connect` with its migrations, by several processes and builds, kills, backup and restore. |
| `StartupProofs` | TLAPS proofs about `Startup`. |
| `Access` | Credentials, scopes and roles, the routes that check and then commit, the purge of a project and of a tag, and the sweep. |
| `AccessProofs` | TLAPS proofs about `Access`. |
| `VectorIndex` | What the protocol `VectorStore` promises: points by identifier, deleted and found by scope. |
| `Retrieval` | `search.py` over the rows and one of the five adapters; to each process an adapter refines `VectorIndex`. |
| `KnowledgeProofs` | TLAPS proofs about `Retrieval`, and about `FactGraph`. |
| `MC...` | Small instances for TLC: the sets of model values and the symmetry. |

`WebhookOutbox`, `ProjectPurge` and `Ingest` take the queue's variables into their own
with `Queue == INSTANCE JobQueue` and use its actions for claims, leases, reaping
and endings; a worker's handler is a further variable per worker (`call`,
`stage`) that is reset when the job ends or its worker dies. Their jobs are
those of their own kind: jobs of different kinds meet only in `claim`'s order.

### JobQueue

*Rows.* `jobs[j]` is the row of `j`. Time is kept as distances: `lease` is
`lease_expires_at - now` (`Lapsed` once it is in the past or 0), `delay` is
`run_after - now` (`Unset` for 0.0), and `Tick` moves all of them. `created` is
the order of insertion. `absent` and `gone` stand for a row that is not yet
inserted or has been deleted. `agent[w]` is what a worker process remembers: its
place in `main`/`run_once`, the job, the `attempts` it read, and, as a history
variable, the number of its claim.

*Steps.* Each action is one committed statement or transaction.

| Action | Code |
|---|---|
| `Enqueue` | `jobs.enqueue` |
| `ReapBeforePoll`, `EmptyPoll` | the loop of `worker.main` |
| `ClaimSelect`, `Claim`, `ClaimLost` | `jobs.claim`: the SELECT, and the guarded UPDATE that succeeds or changes nothing. They are two steps because `claim` swallows a failure of `BEGIN IMMEDIATE` and goes on |
| `Fetch` | the `get` that `claim` returns, after its commit |
| `Heartbeat` | `jobs.heartbeat` in `run_once`, its result ignored |
| `ReportRead`, `ReportWrite` | `jobs.update_result`: SELECT the status, then UPDATE |
| `Complete`, `Fail`, `Requeue` | the endings in `run_once`; by id alone, on whatever the row has become. `Fail` also stands for `ValueError`, which is permanent at once |
| `Kill`, `Escape`, `Restart` | SIGKILL or OOM; an error that leaves `run_once`; a new process |
| `Cancel`, `ReapRoute`, `ForceRecover` | `jobs.cancel`, `POST /v4/maintenance/reap-jobs`, `recover_stuck_jobs.py --force` |
| `Remove` | the retention sweep (terminal rows) and `purge_project` (any row) |

The two writes to `jobs` that `webhooks.py` makes on its own (the replay that
resets `attempts`, the retry that moves `run_after`) belong to `WebhookOutbox`, and
what `purge_project` deletes to `ProjectPurge`: what is proved of `JobQueue` is about rows
that `jobs.py` alone writes, and the proofs about those modules show that it stays true.

*Assumptions as constants.* `Punctual` is the sentence of `jobs.py` that the
lease "must exceed the slowest single unit of work between heartbeats": when it
is TRUE, time does not pass a deadline that a worker holds. `Forceable` lets an
operator run the recovery script with `--force`. `queue_punctual` fixes
`Punctual = TRUE`, `Forceable = FALSE`; `queue_stalls` the opposite, so that what
does not depend on them is checked without them.

### WebhookOutbox

A delivery is `[status, attempts, next]`; `target[j]` is the delivery that a job's
payload names; `call[w]` holds the locals of `deliver_delivery`. The handler goes
through `off -> sending -> accepted | rejected -> marked -> scheduling -> returned`
(or `raised`): `Look` reads the row once, `Send` lets the receiver answer
anything, `MarkSucceeded`/`MarkFailed` commit the outcome, and `ScheduleRead`/
`ScheduleWrite` are the SELECT and the UPDATE-or-INSERT of
`_schedule_delivery_retry`. `Replay` is one transaction. `DeleteWebhook` deletes
the deliveries by cascade and leaves the jobs. `tries` counts tries begun, as
history; so is `cut`, below.

`KillStages` and `ErrorStages` name the points of the handler at which a worker
may be killed or a statement may raise. They matter, because the code is not
safe everywhere:

* killed or raising before the outcome is committed: the try is repeated, and
  nothing else is lost (`outbox_retries`, `outbox_resolves`);
* killed or raising between that commit and the one of the retry's job: the worker's own
  job is reaped or requeued. If the delivery is due by then it is tried, and nothing is
  lost. If not, the next worker finds nothing to do and ends the job, and the delivery has
  none. `outbox_retries` has both. `CutsShort` notes the second in `cut`, when
  `next_attempt_at` is later than the earliest time at which the job can be claimed again;
  a try that begins after all, or a replay, takes the delivery out of `cut`.
  `NoDeliveryStranded` says that nothing else strands one;
* killed or raising after the handler returned, before its job is ended: the retry's job and
  the old one are then both there. No run and no theorem but the type invariant allows this
  one; see the disagreements without a run.

### ProjectPurge

One project (`project`: active, deleting, gone) and API requests in flight:
`request[c]` is where request `c` is between two of its transactions. `Admit` is
the SELECT of `deleting` in `effective_project` and `authorize`, `Write` the later
transaction that inserts or refreshes the document with the client's `custom_id`
(`copies[c]` counts its rows). `FindProject` and `MarkDeleting` are the two halves
of `delete_project`, `CancelPurge` and `ClearFlag` those of `cancel_job`. The
handler looks the project up (`Look`), empties the vector store (which may raise,
`Raise`) and purges in one transaction (`Purge`). `CrashPoints` names the points at
which the API process may die.

### FactGraph

One container tag, subject and predicate; `rows[f]` is the row of `facts` with id `f`,
`by` its `superseded_by`, `projection[f]` the state of the memory with that `fact_id`, and
`born` the order of insertion, which is history. A request's `add_fact` is one step
(`CreateFact`), because the route opens `BEGIN IMMEDIATE`; a worker's is not, because it
runs in autocommit mode: `Find` and `Scan` are its two SELECTs, `Store` and `AssertSame`
what it then commits on the strength of them. `Extractions` is what the language model may
extract from one document; a document may contradict itself. `Forget` deletes by fact
id, `DeleteMemory` by memory id (with what it is linked to, `Linked`), `PurgeTag` all.
The foreign keys are part of the actions: a referenced row is not deleted
and a memory cannot be inserted for a row that is gone.

### Ingest

One document whose versions are one chunk each. `doc` is its row, `chunks` and `store`
the version that each chunk id holds in the table and in the vector store. Ids are
rowids, so a freed id is given out again (`NextId`). `Post` is one transaction;
`PATCH` is four steps (`PatchRead`, `PatchUnindex`, `PatchReplace`, `PatchEnqueue`) and a
cancellation two. The handler goes `off -> read -> added -> indexed -> returned`, or by
`failing` to `raised`, each with its own commit; `call[w].version` is the content that was
read at the start. Text, embedding and metadata are abstracted to the version.

### Memories

`row[m]` is the row of a memory (state, version, text), `history[m]` its events in commit
order, `vector[m]` the text whose vector the store holds, `job[j]` a job of the three kinds
that write or index memories (that a job is run again after a kill or an error is
`JobQueue`'s; here `Abort` queues it again). `at[p]` is where a request or a worker is, with
what it has read. `ran[k]` counts, as history, what was committed under the present claim
of key `k`.

| Action | Code |
|---|---|
| `AskAdd` ... `Bulk` | the routes: `mem0_add`, `create_native_memory`, `mem0_update` (text, or metadata only), `categorize_memory_route`, `mem0_delete`, `mem0_batch_update`, `mem0_batch_delete`, `mem0_delete_all`, `native_bulk_memories`; each reads the memories it names |
| `Claim`, `Refuse`, `Finish`, `Fail`, `Expire` | `_begin_idempotency`, `claim_idempotency`, `complete_idempotency`, `release_idempotency` |
| `Check`, `ReadRow`, `Write` | `update_memory`, `soft_delete_memory`: the SELECTs, then the UPDATE with its event in one transaction |
| `Add`, `CreateNative`, `Rewrite`, `Sweep` | the routes whose reads and writes are in one transaction, and `delete_all_memories` |
| `Reindex`, `ReadIndex`, `Index` | `reindex_memory`: queued one by one after the commit, reads the row, embeds, upserts |
| `Take`, `List`, `NextItem`, `NotFound`, `ItemFails`, `IndexFails`, `Result`, `Finished`, `Abort` | the handlers of `bulk_memories` and `delete_all_memories`, with the progress that `update_result` keeps |

An `add` of several messages is one memory, and metadata is not told apart from text except
that `annotate` writes back the text it has read.

### Startup

`main` is the committed content of the database: recorded versions, `documents`, the copy
that a rebuilding migration makes, and, as history, what was ever written. `conn[c]` is a
connection inside `connect`, at a migration and, for one that rebuilds a table, at one of
its statements, each of which commits by itself. `wal` says whose changes the -wal file
holds. `tool` is a backup or a restore. Four migrations stand for the list: one creates the
table, one adds a column, one rebuilds the table and loses the column (as the code's does),
one adds it again; `Build[c]` is how many of them the program of a connection knows.

Nothing is assumed of how an upgrade is made: any process, of either build, may connect,
write, or be killed between any two statements, and a restore may be killed, or overtaken by
a worker, before it unlinks the old log (the server is stopped for a restore; the worker is
another process). The code does lose documents that way, so three history variables record
what happened, and the properties say which happenings the damage comes from:

| History | What it records |
|---|---|
| `mishaps`: `crossed` | a connection or a backup was there during a rebuild |
| `mishaps`: `rerun` | a rebuild began while `documents` was dropped |
| `mishaps`: `outdated` | a rebuild dropped `documents` though another connection had committed since it copied it (`outdated` is the set of those that would) |
| `mishaps`: `torn` | a restore was killed, or a connection opened, between its rename and its unlink |
| `cut` | versions whose rebuild was killed after its DROP and before its record |

`LossHasACause`: without `rerun`, `outdated` and `torn` every document is in the table, or,
between a DROP and a RENAME, in the copy; neither a kill at any statement nor a connection at
any time loses one by itself. `ServesWholeDatabase`: without `torn` a connection has
the log of its own database, and, if no rebuild was `crossed` nor one that its build does not know
`cut`, every document and the columns of its build. After a kill between DROP and RENAME
the next start of a build that makes the rebuild drops the copy, which is `rerun` and loses the
documents; but it fails at the INSERT ... SELECT, and so does every later start: nothing
less than the whole database is served. What the repository says of these cases is
compared with the code by `startup_interrupted` and among the disagreements below.

`Intact` stands for the verification. A database that is whole passes it; one that is not may
pass or fail, since whether `foreign_key_check` finds a row that names a document which is gone,
or `integrity_check` the damage of a foreign log, depends on data that the model leaves out.

### Access

`Known`, `Bound`, `ScopeAllows`, `MayAccess`, `EffectiveProject`, `EffectiveOrg`, `Role` and
`MayWrite` are the functions that decide (`scope_of`, `scope_allows`, `may_access`,
`effective_project`, `authorize`, `_project_scope_error`, `require_project_write`);
`Granted` is the scope that a route ends with and `Listed`, `TagPurged` what its query
selects. A request is two steps, `Ask...` (the checks) and the commit: `at[c]` is one that
has been admitted. `PurgeProject` is `db.purge_project`, `Sweep` the share links and
revocations that `retention.sweep` deletes. A document, a memory or a fact is a record of a
scope. `Insert` uses an identifier that no request in hand names, as `uuid4` does.

### VectorIndex and Retrieval

`VectorIndex` has one variable, `point`, and a call with its reply: an upsert changes the
point it names, a deletion those it names or those of a scope, a query answers with the
nearest of a scope, filtered before or after the limit; a call may fail and then has no
effect. `Retrieval` has the five adapters (`LocalCall`, `QdrantCall`, `ChromaCall`, `PgCall`)
over one `store`, with the empty string that Chroma keeps for an absent tenant (`Stored`,
`Decoded`), the collection that Qdrant's adapter must have seen, Postgres' transaction, and
the in-memory store that each process has for itself. `AdaptersAgree` is
`Server!Spec /\ Worker!Spec`, two instances of `VectorIndex` under the mapping `View`: to
each process its adapter is that store.

A search is a sequence of statements (`Lexical`, `CountRows`, `ReadRows`, `ReadFacts`,
`Rank`) between which
chunks are added, indexed, erased (`EraseChunk`, `EraseTag`, then `EraseRows`: points first,
rows afterwards), documents expire, the memory of a fact is edited or deleted, and processes
restart. `search` is what it has read so far and the hits of the queries it is done with.
`Rank` asks the store, fuses the legs by reciprocal rank (`Fused`), reranks (`Relevance`), and
either goes on to the next query of a rewritten search or concludes it (`Conclude`); `answer` is
what is returned, and `seen`, as history, what was visible at some time or all the time while
it ran. A text is its nearness to each query and whether it has a word of it, so a score is
one of a few numbers.

A ranked list is the function that gives each member its rank, from 1 on: `Rankings(S, score)`
is the set of all that fall with the score, so ties come in any order, `Top` cuts one, and
`Kept` is what is left, ranked anew, when hits are passed over.

## Runs

Runs that pass:

| Run | Properties | Bounds |
|---|---|---|
| `queue_punctual` | `TypeOK`, `OneWorkerPerJob`, `LeaseMeansRunning`, `TerminalIsFinal`, `LiveLeaseNeverStolen`, `ImplementsContract` | 2 jobs, 2 workers, lease 1, 2 attempts, 1 fault |
| `queue_stalls` | `ClaimsAreDistinct`, `RetriesBounded`, `EveryJobSettles` | 1 job, 2 workers, lease 1, 2 attempts, 1 fault, not punctual, `--force` allowed |
| `outbox_retries` | `TypeOK`, `NoDeliveryStranded`, `OneFutureJob`, `SucceededIsFinal`, `TriesAreCounted` | 1 delivery, 4 jobs, 2 workers, lease and backoff of 2 ticks, 2 tries, 2 attempts, 1 replay, 2 faults, cancellations |
| `outbox_resolves` | `EveryDeliveryResolves` | 1 delivery, 3 jobs, 2 workers, 3 attempts, 1 fault |
| `purge_races` | `TypeOK`, `DeletionInHand`, `OnePurge`, `PurgedOnRequest`, `DeletionEnds` | 2 jobs, 2 workers, 2 requests, 2 attempts, 2 faults |
| `facts_supersede` | `FactTypeOK`, `SupersessionIsForward`, `ValueSurvives`, `Projected`, `TombstoneIsFinal` | 3 rows, 2 objects, 2 dreaming workers |
| `ingest_faults` | `TypeOK`, `NoContentIsLost`, `EveryDocumentSettles` | 2 versions, 2 jobs, 2 workers, 1 client, 2 attempts, 1 fault |
| `memories` | `TypeOK`, `HistoryExplainsRow`, `AtMostOnce`, `IndexCatchesUp` | 2 memories, 2 texts, 2 requests, 1 worker, 2 jobs, 1 key, 1 bulk job of 2 items, 1 fault |
| `startup` | `TypeOK`, `ServesWholeDatabase`, `LossHasACause` | 1 server connection and 2 workers, one of the old build, 1 document, 4 migrations, 2 kills, 2 uses of a tool |
| `access` | `TypeOK`, `ScopeIsKept`, `NothingOutlivesItsOwner` | 2 tags, 2 organizations, 2 projects, 1 identity, 1 key of 4 kinds, 1 record, 1 link, 1 webhook, 2 requests |
| `retrieval` | `SearchKeepsFaith`, `AdaptersAgree` | all 5 adapters, 2 chunk ids, 3 documents, 2 kinds of search, at first no chunk or one that the filter refuses, 2 changes, 1 fault |

Why the bounds are enough. Every hazard of the queue involves one row and two or three
processes: one that lost the row, one that holds it, one that takes it next; two jobs
are there for `claim`'s order. A lease of one tick already separates "live", "on the
deadline" and "lapsed". Two attempts let one be lost to a kill or an error and the other
be the last. Two tries and a replay give a delivery each of its transitions; a delivery
needs a job per try, so the number of jobs bounds the tries and is never reached short
of them. Deliveries, projects and documents do not interact with others of their kind
except through `claim`, which `JobQueue` checks. Supersession relates two rows, and a
third lets a writer close what another one has closed or deleted. A document's second
version is the one that races with the ingest of the first. `arrivals`, `retries`, `tries`
and `inserted` are bounded by the jobs, rows and faults. A lease and a backoff of two ticks
in `outbox_retries` are what it takes for a slow POST, a late mark and a kill to bring the old
job back before the delivery is due.

In `memories` two requests and a worker give every pair of writers that can race on a row,
and two memories a batch whose parts differ; one worker, because two that reindex one memory
may leave its index stale (below). In `startup` the three connections are the upgraded
server's, that of an upgraded worker, and that of a worker of the old build; two kills are
enough for a kill of the recovery. It is the one run with a state constraint, `StillClaimed`:
a state in which a restore has been torn, or in which rebuilds have crossed and one of them
has gone wrong, is checked but not followed further, because the properties claim nothing of
the documents after it. `StartupProofs` needs no such bound.
In `access` a check and a commit of one request, with another request, a purge or a sweep
between them, is what the properties are about; keys, a membership and a record that are
there from the start make three-step histories out of two requests. In `retrieval` an id is
given out again as soon as two documents follow each other, which two ids allow; a pool
factor of 1 in place of 3 and a prefilter threshold of 1 in place of thousands make both
limits bite on two chunks.

Runs that show a disagreement between the code and what the repository says of it
(each checks the one property, and the finding in `PROJECT.json` quotes the line):

| Run | What happens |
|---|---|
| `startup_interrupted` | between DROP and RENAME of a migration that rebuilds `documents` the copy holds the only rows; a worker that connects then (compose starts it as soon as the server's process runs), or the next start after a kill, runs the migration from its first statement, which drops the copy |

Disagreements met while modelling for which there is no run, so that the properties
above are stated around them:

* `complete`, `fail` and `requeue` are not fenced: a worker that outlived its lease ends or
  requeues the job of the worker that took over. Hence `Punctual`.
* A job that kills its worker is reaped and claimed beyond `MAX_ATTEMPTS`.
* A worker killed between the failed mark and the retry's job, late in its lease, or a
  scheduling that raises, leaves a delivery without a job: the job is reaped, or requeued at
  once, while `next_attempt_at` is still ahead, the next worker finds nothing due, and the job
  is done. A lease is 300 s unless configured otherwise, and never below 30 s (jobs.py:25, :37); a backoff is
  at most 16 s. So for a kill the POST must have taken most of the lease; for an error nothing
  more is needed. (`outbox_retries` has both steps, and `cut` says when they lose a delivery.)
* The API process dies between cancelling a purge and clearing the project's flag; a
  cancelled purge whose worker is merely slow purges the project all the same; a write
  that was admitted before the deletion commits during it.
* A superseded fact that is asserted again is revived beside the value that superseded it.
* An ingest that is retried after `add_chunks` adds the same chunks once more, and one that
  read the old content adds its chunks after a replacement has deleted the old ones; the old
  text stays searchable (docs/API.md:14, :28).
* `recover_stuck_jobs.py --force` does not refuse live leases, as docs/OPERATIONS.md:43 says:
  the refusal stands inside the branch of `--dry-run`. (`queue_stalls` has this step.)
* A worker killed after it scheduled a retry leaves two jobs; the next retry keeps the earlier
  time of the one it finds (webhooks.py:791), which then runs too early and completes.
* A purge that raises MAX_ATTEMPTS times fails for good, and the project stays in `deleting`
  with no job to cancel or reap, which docs/OPERATIONS.md:36 calls no longer possible.
* A fact that superseded another one is named by it, so the foreign key refuses its deletion
  (docs/SECURITY.md:58 promises it).
* Two updates of a memory that read the same version write the same number twice; a metadata
  update writes back the text it has read over one that came between; an update that was
  reading while a deletion committed leaves an UPDATE event after the DELETE.
* Two concurrent deletions of one memory: the second commits nothing, raises for want of
  `deleted_ids`, and its idempotency key stays in flight until it expires.
* `mem0_add` with `infer=false` queues no reindexing, so its memories have no vectors; with two
  workers that reindex one memory, or a deletion beside a reindexing, an old vector may stay
  (docs/MEM0_COMPATIBILITY.md:53); so it does when a process dies between the commit and the
  deletion of the vector or the queueing of the job, stages that `CrashPoints` leaves out.
* "Fail startup loudly rather than serving from a broken schema", says `_verify_schema`
  (db.py:585), but it looks for damaged pages and dangling rows, and not for the tables and columns of
  the build. A worker of the old build that connects between DROP and RENAME of a rebuild finds
  the version it knows, has nothing to apply, passes (without chunks nothing names a document) and
  serves a database that has no `documents`. `startup` has these steps; they are why
  `ServesWholeDatabase` excepts rebuilds that were `crossed`.
* Two processes that apply the same plain migration: the later one fails and the process ends.
  A backup that is taken between the DROP and the RENAME of a rebuild lacks the documents. A
  restore that is killed before it unlinks the old -wal file leaves it beside the snapshot.
* The sweep deletes rows of `revoked_keys` after their window, and so does `purge_project`,
  while `api_keys` keeps the key: it is known again (docs/API.md:114 and retention.py:31 say
  otherwise). `DELETE /v4/tags/{tag}` asks for no role (docs/SECURITY.md:15).
* A record whose creation was admitted before the purge of its project is committed after it,
  and two changes of a project's settings that read the same row lose one.
* Qdrant's adapter answers nothing and deletes nothing in a process that has not upserted yet;
  the server never does, so there searches fall back to the rows and deletions leave points.
  pgvector's query leaves its transaction open, which keeps the first `ALTER TABLE` of another
  process waiting, and a statement that failed leaves the connection failing.
* A document that spans several dreaming bundles is marked as dreamed after the first; when
  the language model fails it is marked all the same (dreaming.py:168, :63).
* The Python client repeats a request after any error (client.py:45), without a key.

Each property of a passing run has a mutant in `PROJECT.json`: a variant of a
modelled operation with a plausible bug, under which TLC finds the property
violated. Mutants stand before the operation they vary, with a comment that
starts "Mutant:".

## Fairness

`WF_vars(Tick)`: time passes. `WF_vars(Run(w))`: a worker process that is up keeps
executing `main`; nothing is promised of a worker that is down, and restarts are not
fair (`DeletionEnds`, with as many faults as workers, therefore assumes that one is up
again and again). In `JobQueue` a handler may report progress again and again, so its
end is strongly fair (`SF_vars(End(w))`): handlers are finite loops. In `ProjectPurge` and
`Ingest` a request that has committed its first transaction goes on to the last
(`WF_vars(Proceed(c))`, `WF_vars(PatchEnqueue(c) \/ SetCancelled(c))`), unless, in
`ProjectPurge`, its process dies. In `Memories` a request that is being served
and the worker's loop go on (`WF_vars(Serve(c))`, `WF_vars(Work(w))`), which is what an
event loop and `main` do. `Startup`, `Access` and `Retrieval` state no liveness and need no
fairness. Clients, operators, kills and errors are never fair;
kills and errors are bounded by `MaxFaults`, without which a job may be killed for ever.

## Proofs

What is proved holds for every set of jobs, workers, requests, documents and so on, every
lease and every limit; what the constants are assumed to be is the `ASSUME` of the module
(`ConstantsOK`, `QueueConstantsOK`, `OutboxConstantsOK`, `IngestConstantsOK`, `PurgeConstantsOK`, `FactConstantsOK`, `AccessConstantsOK`,
`MemoriesConstantsOK`, `StartupConstantsOK`, `RetrievalConstantsOK`), which TLC evaluates on each run. Some theorems have
one more hypothesis, given with them; the run that checks the property meets it, and the
disagreements above or the text below say why it is there. Every inductive invariant was checked by
TLC on the run before it was proved.

No goal or fact of a proof has the form S \subseteq A \cap B (it is stated as two
inclusions): tlapm 1.4.5 hands it to Zenon in a way that drops A.

### JobQueueProofs

| Theorem | States |
|---|---|
| `TypeCorrect` | `Spec => []TypeOK` |
| `DistinctClaims` | `Spec => []ClaimsAreDistinct`, with no assumption about time or `--force` |
| `RetriesAreBounded` | `Spec => []RetriesBounded`, likewise |
| `ExclusiveWork` | `Spec => []OneWorkerPerJob`, if `Punctual` and `~Forceable` |
| `LeasesOnlyWhileRunning` | `Spec => []LeaseMeansRunning`, same assumptions |
| `TerminalStays` | `Spec => TerminalIsFinal`, same assumptions |
| `LiveLeasesAreSafe` | `Spec => LiveLeaseNeverStolen`, same assumptions |
| `Implementation` | `Spec => ImplementsContract`, same assumptions |

`ClaimsAreDistinct` is not inductive: a worker's claim number must also
be at most the row's `attempts`, which only grows, so that the next claim is new. With
`Punctual`, `OneWorkerPerJob` is almost inductive: as long as a worker holds a job the
row is `running` under a live lease and names it, unless the row is gone; `Tick` is
stopped at the deadline, the reaper and `Cancel` take only lapsed rows, and `Claim`
is guarded by `queued`. It needs beside it that a row which is not `running` has no
lease, and that a gone row's holder is its only one. The action properties and the step
simulation follow from it, one action at a time. For the refinement, a job's `holder`
is the worker that holds it (`HolderOf`), a choice that exclusiveness makes unique.

`RetriesBounded` says nothing of how a retry is counted twice, and so needs a ledger: for each
job there is a set of claim numbers below `MaxAttempts`, as many as it has been retried,
none of which any worker still holds (`RetriesSpendClaims`). A retry adds the number of the
claim it ends. That number is below the limit because the worker read the row after
its claim, hence `attempts` no smaller (`AttemptsReadLate`), and new because claims are
distinct, even of workers that outlived their leases.

### KnowledgeProofs

| Theorem | States |
|---|---|
| `TypeCorrect` | `Spec => []TypeOK` (of `Retrieval`) |
| `SearchIsFaithful` | `Spec => []SearchKeepsFaith` |
| `AdaptersImplement` | `Spec => AdaptersAgree`: refinement of `VectorIndex` by both processes |
| `FactsTypeCorrect` | `FactSpec => []FactTypeOK` |
| `HistoryIsForward` | `FactSpec => []SupersessionIsForward` |
| `ValueNeverLost` | `FactSpec => []ValueSurvives` |
| `ProjectionHolds` | `FactSpec => []Projected` |
| `TombstonesStay` | `FactSpec => TombstoneIsFinal` |

*Retrieval.* For every set of adapters, documents, texts, queries and searches, every limit,
number of chunks, writes and faults. The lemmas on rankings carry most of it: a ranking of a
finite set numbers it from 1 on (`RankingNumbers`, by injectivity and counting), so that
`Top(o, n)` has n members or is all of it (`TopCuts`). `TypeOK` is inductive: a score is a
natural number, and a search asks each of its queries once.

`SearchKeepsFaith` speaks of the answer alone, and is not inductive: the invariant (`Faithful`)
says of a search on its way what will make its answer faithful. `HoldsTrue`: what it has read
was visible while it ran, in words of a document in scope, and the hits so far are of such
keys, each once, with such a text (`Found`, `Sought`). What the store returns plays no part in
it, as a hit counts only if its chunk was read and its own text matches. `HoldsAll`: if the
keyword limit does not bite, what was visible throughout is among the rows and the facts that
were read (unless the prefilter left it out, and then it has no word of the query), and the
queries that are done have *covered* each such key (`Covered`): it is among the hits, or there are
as many hits as the limit, or it has no word of those queries and the store had something to
say. Merging keeps that, because a key only leaves the hits for one of the same key that scores
better. The rows do not keep still meanwhile: a chunk id may be given out again, but
not while its chunk is visible throughout, which is why `seen.always` and not the present
tables stand in the invariant.

`AdaptersImplement` maps each step by a step of `VectorIndex` for the process that calls and
`Others` for the other one. Three things had to be shown: filtering Chroma's encoded tenants selects
what filtering the decoded ones does (`Absent`, and no tenant is the empty string:
`RetrievalConstantsOK`); the two orders of filtering and limiting are the two disjuncts of
`Answers`; and a call that an adapter ignores leaves every view as it is. The places
of the in-memory store are the processes, and the other process' view does not change.

*Fact graph.* The module extends both specifications, whose names are therefore kept apart
(`FactInit`, `FactNext`, `FactSpec`); neither's variables occur in the other.
`SupersessionIsForward` is inductive once it is known that every row is
born before the next insertion (`BornBefore`): a new row is then newer than any that it
closes, even one that another writer closed or deleted since it was read, and the
foreign key keeps a row that is named from disappearing. `ValueSurvives` is a consequence
and not inductive by itself: rows are numbered below `inserted`, so there is a newest one
(well-foundedness of `<`), and it cannot have been superseded. `Projected` needs that an id
not yet used has no memory (`Fresh`).

### The modules composed with the queue

`ProjectPurgeProofs`, `IngestProofs` and `WebhookOutboxProofs` use the lemmas of `JobQueueProofs`
through `QP == INSTANCE JobQueueProofs WITH Forceable <- FALSE`: each step of the composition
is one of the queue, or leaves its variables alone, or is an error that the queue only
counts, or one of the writes to `jobs` that the component makes itself. The last are shown
to keep the queue's invariant `OwnInv`.

| Theorem | States |
|---|---|
| `ProjectPurgeProofs!TypeCorrect` | `Spec => []TypeOK` |
| `NeverTwoPurges` | `Spec => []OnePurge`, if `Punctual` |
| `PurgesOnRequest` | `Spec => PurgedOnRequest`, if `Punctual` |
| `DeletionStaysInHand` | `Spec => []DeletionInHand`, if `Punctual` and the API process does not die between the two transactions of a cancellation |
| `IngestProofs!TypeCorrect` | `Spec => []TypeOK` |
| `ContentIsSafe` | `Spec => []NoContentIsLost`, if `Punctual` |
| `WebhookOutboxProofs!TypeCorrect` | `Spec => []TypeOK` |
| `OneJobAhead` | `Spec => []OneFutureJob`, if `Punctual` and no worker ends, killed or raising, between the handler's return and the commit that ends its job |
| `EveryTryCounts` | `Spec => []TriesAreCounted`, same assumptions |
| `SuccessIsFinal` | `Spec => SucceededIsFinal`, same assumptions |
| `NoneStranded` | `Spec => []NoDeliveryStranded`, same assumptions |
| `Implementation` (in each of the three) | `Spec => QP!ImplementsContract`, if `Punctual`: the composed system keeps `JobContract` |

*Deletion.* `PurgeInv`: a job that a worker holds is running, at most one purge is live, a
project that is being given back has none (`GivingBackAlone`), nor has one that takes writes
(`ActiveIsQuiet`), and a handler that has returned leaves the project gone. `MarkDeleting`
makes a purge only of an active project, so `ActiveIsQuiet` keeps purges single;
`Cancel` refuses a job under a live lease, which is how `Punctual` comes in. That a purge
deletes rows of jobs is harmless because the only live job is its own (`PurgeSpares`).

*Ingest.* `IngestInv`: no row is deleted, only a worker at work has a version in hand, and
there is a document before there is a job. `NoContentIsLost` is not inductive where a
worker has read an old version: the invariant says who will index the present one
(`ContentKept`: it is indexed, or a request is about to queue a job, or a job is queued or
says why it was given up, or one is running whose worker will yet read it or has
it in hand) and who will set the status (`StatusKept`). `Punctual` is needed because a second worker on a job may end it while the first
is between its commits.

*Outbox.* `OneAtWork`: a delivery has at most one job that is queued or running and not
about to end (`OneActive`); `Replay` asks for no running job and `ScheduleWrite` is made by the
only active one, whose own job is `Finishing` from then on. A consequence is that the
branch of `_schedule_delivery_retry` which finds a queued job is never taken
(`NothingFound`) under these assumptions. The counts follow with what a worker has in hand (`Counted`).
`AllKept`, for `NoneStranded`, adds that a delivery still to be made, and not in `cut`, has a
job that will not find it too early (`Timely`): a queued job waits as long as the delivery, and
a running one has its worker in the retry, or has lost it with so much of the lease left that
the delivery is due when the reaper comes (`Retrying`). Errors and kills between the two commits
of a retry are steps of the theorem like any other, for every lease and every backoff: it
says which of them lose a delivery, and that nothing else does. The stage that the
assumptions leave out, between the handler's return and the end of its job, is where
`OneFutureJob` is false of the code: the delivery then has two active jobs, and either may
be the one that finds it too early.

*The contract.* `JobContract` deletes a set of rows at once, because a replay and a purge do. A
replay that resets `attempts` and a retry that moves `run_after` change nothing that the
contract sees: exclusive work does not rest on those two columns.

### MemoriesProofs

| Theorem | States |
|---|---|
| `TypeCorrect` | `Spec => []TypeOK` |
| `HistoryIsTrue` | `Spec => []HistoryExplainsRow` |
| `OnceUnderAKey` | `Spec => []AtMostOnce` |
| `DeletedForGood` | `Spec => [][Buried]_vars`: no step brings a deleted memory back, and a step that changes a row adds one event |

One invariant, `IInv`: what each request and worker has in hand fits its operation
(`Subjects`); a job is run by one worker, whose item is one of those left (`JobsHeld`); whatever
is named exists, but for what one request is about to add (`NamesExist`); a version that
was read is no later than the history is long (`SeenBefore`, which carries
`HistoryExplainsRow` through writes that are based on old reads); and a claimed key is
held by one request, which has committed its work when it is past its write (`KeysHeld`, which
carries `AtMostOnce`). No hypothesis is needed beside the constants.

### AccessProofs

| Theorem | States |
|---|---|
| `TypeCorrect` | `Spec => []TypeOK` |
| `OwnersComeFirst` | `Spec => []NothingOutlivesItsOwner` |
| `ScopesAreKept` | `ClaimsBelong => (Spec => []ScopeIsKept)` |

`OwnersComeFirst` is about requests admitted before a purge and committed after: each commit
re-checks its owner, by a foreign key or in its statement. `ScopesAreKept` needs that
what is bound to a project is bound to that project's organization, or to none (`KeyInv`, of
keys and of keys about to be issued), because the route of a record and the routes that list
compare different fields. Of identities from the identity provider no code checks that, so
`ClaimsBelong` is a hypothesis: the provider names no project with an organization that is not its own.

### StartupProofs

| Theorem | States |
|---|---|
| `TypeCorrect` | `Spec => []TypeOK`: among the types, recorded versions have no gap |
| `LossIsExplained` | `Spec => []LossHasACause` |
| `ServesWhole` | `Spec => []ServesWholeDatabase` |

For any list of migrations of which the first and no other creates the table, any builds, and
any number of connections, kills, backups and restores. No theorem has a hypothesis: what the
code does not prevent is in the history, and three invariants say what follows as long as
each thing has not happened.

* `NothingMissed`, until a rebuild has begun without the table, or dropped one that had changed:
  the database, each snapshot and the file of a tool hold all that was written, in the table or,
  when there is none, in the copy (`Holds`), and a connection about to drop the table
  has all of it in its copy, unless it is in `outdated` (`Copied`). Two processes may be
  in the same rebuild at once: the one that comes second fails at its statement, or is noted.
* `Upgraded`, until a rebuild is crossed: the connection that rebuilds is alone and at
  the next version (`Alone`), the copy is what its statement expects (`RebuildKept`), the files
  have the columns of their versions but for rebuilds that are under way or were `cut` (`Settled`
  with `Half`), and a connection that got through has what its build needs, unless
  a rebuild that it does not know was cut (`Offered`). That after a kill behind the DROP no
  build that knows the rebuild ever serves without the table is proved here.
* `OwnLog`, until a restore is torn: a foreign log is only there while a restore that has
  the database to itself is about to unlink it.

The columns of a version are a recursive function, which TLA+ defines by
CHOOSE: that there is a function which satisfies the equation is shown with a closed form
(`Lasting`), and then the equation is all that is used.

### Only model-checked

* Liveness under fairness (`EveryJobSettles`, `EveryDeliveryResolves`, `DeletionEnds`,
  `EveryDocumentSettles`, `IndexCatchesUp`), which needs ENABLED.
* What the hypotheses above leave out: without `Punctual`, `queue_stalls` checks what still holds.

## Plan

Done: the queue and its contract, the outbox, project deletion, the fact graph, ingest,
memories with their keys and jobs, start-up with backup and restore, access with the sweep,
and retrieval over the vector stores; theorems for every safety and action property of all of
them, that the modules composed with the queue keep its contract, and that the adapters implement
the protocol of a vector store. Next, in this order:

1. Dreaming's marking of documents (`dreamed_at`) and the statements inside a purge that an
   error leaves half done.
2. Chunking and rate limiting: pure operators against reference definitions over bounded
   inputs.

Worth stating as abstract specifications: an outbox with at-least-once delivery (one
obligation per delivery), and a project that is either whole or gone.

## Not modelled, and why

Embeddings, LLM calls and rerankers that call a provider are external models, and keep no
state; chunking is a function of the text, and the models take a version of a document to be
one chunk; the evaluation harness, dashboard, MCP server and clients are outside the running
service; configuration, logging, metrics, metering, auditing and rate limiting have no
protocol. `prune_expired` is called by nothing. Webhook URL policy, address pinning and
signatures change no state, and the file that holds the encryption key is not modelled (two
processes that start at once may find it half written). Inside the modelled
parts, what is left out is named above: the contents of payloads and results, error texts,
webhook secrets and address policy, and the statements inside one SQLite transaction,
which SQLite makes one step.
