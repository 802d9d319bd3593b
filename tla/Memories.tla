------------------------------ MODULE Memories ------------------------------
(***************************************************************************)
(* Memory records under the requests that write them (app.py), the jobs    *)
(* that write and index them (worker.py), their history, their vectors and *)
(* the idempotency keys of the requests (db.py).                           *)
(*                                                                         *)
(* SQLite commits one statement, or one explicit transaction, at a time; a *)
(* read outside a transaction may be old by the time of the write that it  *)
(* leads to.  A job whose worker dies or raises is run again (JobQueue).   *)
(* Texts stand for the embedded content, metadata is not told apart from   *)
(* it, and every memory is in one scope.  delete_linked and facts are      *)
(* FactGraph's matter.                                                     *)
(***************************************************************************)
EXTENDS Integers, Sequences, FiniteSets

CONSTANTS
  Mems, Texts, NoText,
  Clients,       \* requests in flight
  Workers,       \* workers, each running one job at a time
  Keys, NoKey,   \* idempotency keys, under one scope
  Jobs, NoJob,   \* bound: the jobs that exist at a time
  MaxRequests,   \* bound: requests in a behaviour
  MaxFaults,     \* bound: jobs cut short and requests that crash
  CrashPoints,   \* the stages at which a request may crash
  BulkItems      \* bound: the operations of the bulk jobs that are asked for

VARIABLES
  row,       \* the table memories
  history,   \* memory_history: the events of each memory, in commit order
  vector,    \* the text whose vector the store holds
  key,       \* idempotency_keys
  ran,       \* ghost: executions committed under the present claim of a key
  job,       \* the jobs of the kinds modelled here
  at,        \* where each request and each worker is, with its locals
  left,      \* requests yet to come
  faults

vars == <<row, history, vector, key, ran, job, at, left, faults>>

Update == {"update", "annotate", "categorize"}   \* text; metadata; category
Keyed  == {"add", "update", "annotate", "delete"}
Stage  == {"idle", "claim", "check", "read", "write", "enqueue", "vector", "finish",
           "next", "list", "result"}

Item == [mem : Mems, op : {"update", "delete"}, text : Texts \cup {NoText}]

\* A request names texts, and a bulk job items, that there are; a process is one or the other.
ASSUME MemoriesConstantsOK ==
  /\ Texts # {}
  /\ NoKey \notin Keys
  /\ Clients \cap Workers = {}
  /\ BulkItems \subseteq Seq(Item)
  /\ MaxRequests \in Nat /\ MaxFaults \in Nat

Absent == [state |-> "none", version |-> 0, text |-> NoText]
Unclaimed == [status |-> "none", op |-> "none", mem |-> {}]
Free   == [status |-> "free", kind |-> "none", mem |-> {}, items |-> <<>>, done |-> {}]
Idle   == [stage |-> "idle", op |-> "none", mem |-> {}, text |-> NoText, seen |-> Absent,
           key |-> NoKey, job |-> NoJob, item |-> 0, failed |-> {}]

Active(m) == row[m].state = "active"
Deleted(m) == row[m].state = "deleted"
Subject(p) == CHOOSE m \in at[p].mem : TRUE

New(text) == [state |-> "active", version |-> 1, text |-> text]

\* There are no memories yet, or memories of one text that are indexed.
Init ==
  /\ \E old \in {{}, Mems} : LET t == CHOOSE x \in Texts : TRUE IN
       /\ row = [m \in Mems |-> IF m \in old THEN New(t) ELSE Absent]
       /\ history = [m \in Mems |-> IF m \in old THEN <<[event |-> "ADD", version |-> 1]>> ELSE <<>>]
       /\ vector = [m \in Mems |-> IF m \in old THEN t ELSE NoText]
  /\ key = [k \in Keys |-> Unclaimed]
  /\ ran = [k \in Keys |-> 0]
  /\ job = [j \in Jobs |-> Free]
  /\ at = [p \in Clients \cup Workers |-> Idle]
  /\ left = MaxRequests
  /\ faults = 0

-----------------------------------------------------------------------------
(***************************************************************************)
(* What the steps are made of.                                             *)
(***************************************************************************)
Goes(p, from, to) == at[p].stage = from /\ at' = [at EXCEPT ![p].stage = to]
Ends(p) == at' = [at EXCEPT ![p] = Idle]

\* Rows and their events are written in one transaction.
Record(event, new) ==
  /\ row' = [m \in Mems |-> IF m \in DOMAIN new THEN new[m] ELSE row[m]]
  /\ history' = [m \in Mems |->
       IF m \in DOMAIN new
       THEN Append(history[m], [event |-> event, version |-> new[m].version]) ELSE history[m]]

\* The commit of a request's work counts against the key it runs under.
Counts(p) == ran' = [k \in Keys |-> IF k = at[p].key THEN ran[k] + 1 ELSE ran[k]]

\* jobs.enqueue, in a transaction of its own.
Enqueued(kind, ms, items) ==
  LET free == {j \in Jobs : job[j] = Free} IN
  /\ free # {}
  /\ job' = [job EXCEPT ![CHOOSE j \in free : TRUE] =
       [status |-> "queued", kind |-> kind, mem |-> ms, items |-> items, done |-> {}]]

Stored(ms, text) == vector' = [m \in Mems |-> IF m \in ms THEN text ELSE vector[m]]

SetKey(k, claim) == key' = [i \in Keys |-> IF i = k THEN claim ELSE key[i]]

-----------------------------------------------------------------------------
(***************************************************************************)
(* A request.  It first reads the memories it names; if one is missing or  *)
(* deleted it answers 404 (_get_memory_or_error), which changes nothing.   *)
(***************************************************************************)
Entry(op) ==
  CASE op = "delete"     -> "check"
    [] op \in Update     -> "read"
    [] OTHER             -> "write"

Existing == {m \in Mems : Active(m)}
Fresh    == {m \in Mems : row[m] = Absent /\ \A c \in Clients : m \notin at[c].mem}

\* A request under an Idempotency-Key claims it first.
Asks(c, op, ms, text, k) ==
  /\ at[c] = Idle /\ left > 0 /\ left' = left - 1
  /\ at' = [at EXCEPT ![c] = [Idle EXCEPT !.op = op, !.mem = ms, !.text = text, !.key = k,
              !.stage = IF k = NoKey THEN Entry(op) ELSE "claim"]]
  /\ UNCHANGED <<row, history, vector, key, ran, job, faults>>

AskAdd(c) ==
  \E m \in Fresh, t \in Texts, k \in Keys \cup {NoKey} : Asks(c, "add", {m}, t, k)

AskCreate(c) == \E m \in Fresh, t \in Texts : Asks(c, "create", {m}, t, NoKey)

\* The text, or only the metadata.
AskUpdate(c) ==
  \E m \in Existing, k \in Keys \cup {NoKey} :
    \/ \E t \in Texts : Asks(c, "update", {m}, t, k)
    \/ Asks(c, "annotate", {m}, NoText, k)

AskCategorize(c) == \E m \in Existing : Asks(c, "categorize", {m}, NoText, NoKey)

AskDelete(c) == \E m \in Existing, k \in Keys \cup {NoKey} : Asks(c, "delete", {m}, NoText, k)

AskBatchUpdate(c) ==
  \E ms \in SUBSET Existing \ {{}}, t \in Texts : Asks(c, "batch_update", ms, t, NoKey)

AskBatchDelete(c) == \E ms \in SUBSET Existing \ {{}} : Asks(c, "batch_delete", ms, NoText, NoKey)

\* mem0_delete_all and native_bulk_memories queue a job, and that is all.
DeleteAll(c) ==
  /\ at[c] = Idle /\ left > 0 /\ left' = left - 1
  /\ Enqueued("delete_all", {}, <<>>)
  /\ UNCHANGED <<row, history, vector, key, ran, at, faults>>

Bulk(c) ==
  /\ at[c] = Idle /\ left > 0 /\ left' = left - 1
  /\ \E items \in BulkItems :
       /\ \A i \in DOMAIN items : items[i].mem \in Existing
       /\ Enqueued("bulk", {}, items)
  /\ UNCHANGED <<row, history, vector, key, ran, at, faults>>

Ask(c) ==
  \/ AskAdd(c) \/ AskCreate(c) \/ AskUpdate(c) \/ AskCategorize(c) \/ AskDelete(c)
  \/ AskBatchUpdate(c) \/ AskBatchDelete(c) \/ DeleteAll(c) \/ Bulk(c)

\* claim_idempotency inserts the key, ...
Claim(c) ==
  /\ Goes(c, "claim", Entry(at[c].op))
  /\ key[at[c].key] = Unclaimed
  /\ SetKey(at[c].key, [status |-> "in_flight", op |-> at[c].op, mem |-> at[c].mem])
  /\ UNCHANGED <<row, history, vector, ran, job, left, faults>>

\* ... or finds it: a replay of the answer, or 409 (in flight, or another request).
Refuse(c) ==
  /\ at[c].stage = "claim" /\ key[at[c].key] # Unclaimed
  /\ Ends(c)
  /\ UNCHANGED <<row, history, vector, key, ran, job, left, faults>>

\* Mutant: an error after the commit releases the key as well.
FailLate(c) ==
  /\ at[c].stage \in {"check", "read", "write", "vector"}
  /\ Ends(c)
  /\ SetKey(at[c].key, Unclaimed)
  /\ UNCHANGED <<row, history, vector, ran, job, left, faults>>

\* An invalid body, or an error before the commit: rolled back, the key released.
Fail(c) ==
  /\ at[c].stage \in {"check", "read", "write"}
  /\ Ends(c)
  /\ SetKey(at[c].key, Unclaimed)
  /\ UNCHANGED <<row, history, vector, ran, job, left, faults>>

\* ensure_input_memory: a new document has no memory of the text yet.
InputMemory(text) == New(text)

\* mem0_add: the memory and the answer to its key in one transaction.
Add(c) ==
  /\ at[c].stage = "write" /\ at[c].op = "add"
  /\ Record("ADD", [m \in at[c].mem |-> InputMemory(at[c].text)])
  /\ Counts(c)
  /\ SetKey(at[c].key, [status |-> "done", op |-> at[c].op, mem |-> at[c].mem])
  /\ Ends(c)
  /\ UNCHANGED <<vector, job, left, faults>>

\* create_native_memory queues the reindexing in another transaction.
CreateNative(c) ==
  /\ at[c].op = "create"
  /\ Goes(c, "write", "enqueue")
  /\ Record("ADD", [m \in at[c].mem |-> New(at[c].text)])
  /\ UNCHANGED <<vector, key, ran, job, left, faults>>

\* mem0_batch_update: all in one transaction, which fails if one is deleted.
Rewrite(c) ==
  /\ at[c].op = "batch_update" /\ \A m \in at[c].mem : ~Deleted(m)
  /\ Goes(c, "write", "enqueue")
  /\ Record("UPDATE",
       [m \in at[c].mem |-> [row[m] EXCEPT !.version = @ + 1, !.text = at[c].text]])
  /\ UNCHANGED <<vector, key, ran, job, left, faults>>

\* Each changed memory is queued for reindexing, one transaction each.
Reindex(c) ==
  /\ at[c].stage = "enqueue"
  /\ \E m \in at[c].mem :
       /\ Enqueued("reindex", {m}, <<>>)
       /\ at' = [at EXCEPT ![c].mem = @ \ {m},
                           ![c].stage = IF at[c].mem = {m} THEN "finish" ELSE "enqueue"]
  /\ UNCHANGED <<row, history, vector, key, ran, left, faults>>

\* complete_idempotency, if there is a key.
Finish(c) ==
  /\ at[c].stage = "finish"
  /\ SetKey(at[c].key, [key[at[c].key] EXCEPT !.status = "done"])
  /\ Ends(c)
  /\ UNCHANGED <<row, history, vector, ran, job, left, faults>>

\* The server dies; the connection's transaction, if any, is rolled back.
Crash(c) ==
  /\ at[c].stage \in CrashPoints /\ faults < MaxFaults
  /\ Ends(c)
  /\ faults' = faults + 1
  /\ UNCHANGED <<row, history, vector, key, ran, job, left>>

\* A day later claim_idempotency deletes the key; no request takes that long.
Expire(k) ==
  /\ key[k] # Unclaimed /\ \A c \in Clients : at[c].key # k
  /\ SetKey(k, Unclaimed)
  /\ ran' = [ran EXCEPT ![k] = 0]
  /\ UNCHANGED <<row, history, vector, job, at, left, faults>>

-----------------------------------------------------------------------------
(***************************************************************************)
(* Writing one memory: the same functions of db.py serve a request and an  *)
(* item of a bulk job.                                                     *)
(***************************************************************************)
\* soft_delete_memory asks for the state, then reads each row it deletes.
Check(p) ==
  /\ at[p].stage = "check" /\ Goes(p, "check", "read")
  /\ ~Deleted(Subject(p))
  /\ UNCHANGED <<row, history, vector, key, ran, job, left, faults>>

ReadRow(p) ==
  /\ at[p].stage = "read" /\ at[p].op \in Update \cup {"delete"}
  /\ at[p].op \in Update => ~Deleted(Subject(p))
  /\ at' = [at EXCEPT ![p].stage = "write", ![p].seen = row[Subject(p)]]
  /\ UNCHANGED <<row, history, vector, key, ran, job, left, faults>>

\* A request to delete what has just been deleted fails after its commit of
\* nothing: no deleted_ids.  Its key stays in flight.
AlreadyDeleted(c) ==
  /\ at[c].stage = "check" /\ Deleted(Subject(c))
  /\ Ends(c)
  /\ UNCHANGED <<row, history, vector, key, ran, job, left, faults>>

\* Mutant: an update writes the state it has read, too.
WrittenBack(p, m) ==
  [state   |-> IF at[p].op = "delete" THEN "deleted" ELSE at[p].seen.state,
   version |-> at[p].seen.version + 1,
   text    |-> IF at[p].op = "update" THEN at[p].text ELSE row[m].text]

\* The row as it will be, from the version (and for annotate the text) read before.
Written(p, m) ==
  [state   |-> IF at[p].op = "delete" THEN "deleted" ELSE row[m].state,
   version |-> at[p].seen.version + 1,
   text    |-> CASE at[p].op = "update"   -> at[p].text
                 [] at[p].op = "annotate" -> at[p].seen.text
                 [] OTHER                 -> row[m].text]

EventOf(op) == IF op = "delete" THEN "DELETE" ELSE "UPDATE"

\* Mutant: a request to update queues no reindexing.
WriteUnindexed(p) ==
  /\ at[p].op \in Update \cup {"delete"}
  /\ Goes(p, "write", IF p \in Workers \/ at[p].op = "delete" THEN "vector" ELSE "finish")
  /\ Record(EventOf(at[p].op), [m \in at[p].mem |-> Written(p, m)])
  /\ Counts(p)
  /\ UNCHANGED <<vector, key, job, left, faults>>

Write(p) ==
  /\ at[p].op \in Update \cup {"delete"}
  /\ Goes(p, "write", IF p \in Workers \/ at[p].op = "delete" THEN "vector" ELSE "enqueue")
  /\ Record(EventOf(at[p].op), [m \in at[p].mem |-> Written(p, m)])
  /\ Counts(p)
  /\ UNCHANGED <<vector, key, job, left, faults>>

\* mem0_batch_delete and delete_all_memories: those not deleted yet, in one transaction.
Sweep(p) ==
  LET gone == {m \in at[p].mem : ~Deleted(m)} IN
  /\ at[p].stage = "write" /\ at[p].op = "batch_delete"
  /\ Record("DELETE", [m \in gone |-> [row[m] EXCEPT !.version = @ + 1, !.state = "deleted"]])
  /\ at' = [at EXCEPT ![p].stage = "vector", ![p].mem = gone]
  /\ UNCHANGED <<vector, key, ran, job, left, faults>>

-----------------------------------------------------------------------------
(***************************************************************************)
(* The worker: reindex_memory, delete_all_memories and bulk_memories.      *)
(***************************************************************************)
Task(w) == job[at[w].job]

Take(w) ==
  /\ at[w] = Idle
  /\ \E j \in Jobs :
       /\ job[j].status = "queued"
       /\ job' = [job EXCEPT ![j].status = "running"]
       /\ at' = [at EXCEPT ![w] = [Idle EXCEPT !.job = j, !.mem = job[j].mem, !.op = job[j].kind,
                   !.stage = CASE job[j].kind = "reindex"    -> "read"
                               [] job[j].kind = "delete_all" -> "list"
                               [] OTHER                      -> "next"]]
  /\ UNCHANGED <<row, history, vector, key, ran, left, faults>>

Done(w) == job' = [job EXCEPT ![at[w].job] = Free]

\* reindex_memory reads the row and embeds its text.
ReadIndex(w) ==
  /\ at[w].op = "reindex" /\ at[w].stage = "read"
  /\ at' = [at EXCEPT ![w].stage = "vector", ![w].seen = row[Subject(w)]]
  /\ UNCHANGED <<row, history, vector, key, ran, job, left, faults>>

\* delete_all_memories lists what is active.
List(w) ==
  /\ at[w].stage = "list"
  /\ at' = [at EXCEPT ![w].stage = "write", ![w].op = "batch_delete",
                      ![w].mem = Existing]
  /\ UNCHANGED <<row, history, vector, key, ran, job, left, faults>>

Pending(w) == (DOMAIN Task(w).items) \ (Task(w).done \cup at[w].failed)

\* The next item that no earlier run of the job has ended.
NextItem(w) ==
  /\ at[w].stage = "next" /\ Pending(w) # {}
  /\ LET i  == CHOOSE x \in Pending(w) : \A y \in Pending(w) : x <= y
         it == Task(w).items[i] IN
     at' = [at EXCEPT ![w].item = i, ![w].mem = {it.mem}, ![w].op = it.op, ![w].text = it.text,
                      ![w].stage = Entry(it.op)]
  /\ UNCHANGED <<row, history, vector, key, ran, job, left, faults>>

\* The memory is deleted: "not_found", also for an item of delete.
NotFound(w) ==
  /\ Goes(w, IF at[w].op = "delete" THEN "check" ELSE "read", "result")
  /\ at[w].item # 0 /\ Deleted(Subject(w))
  /\ UNCHANGED <<row, history, vector, key, ran, job, left, faults>>

\* An error before the item's commit: "failed", which a later run tries again.
ItemFails(w) ==
  /\ at[w].item # 0 /\ at[w].stage \in {"check", "read", "write"} /\ faults < MaxFaults
  /\ at' = [at EXCEPT ![w].stage = "next", ![w].failed = @ \cup {at[w].item}]
  /\ faults' = faults + 1
  /\ UNCHANGED <<row, history, vector, key, ran, job, left>>

\* The vectors follow the committed rows; a reindexed memory may be gone by then.
NewVector(p) ==
  CASE at[p].op = "update"  -> at[p].text
    [] at[p].op = "reindex" -> IF at[p].seen.state = "deleted" THEN NoText ELSE at[p].seen.text
    [] OTHER                -> NoText

Index(p) ==
  /\ at[p].stage = "vector"
  /\ Stored(at[p].mem, NewVector(p))
  /\ \/ /\ p \in Clients
        /\ at' = [at EXCEPT ![p].stage = "finish"] /\ UNCHANGED job
     \/ /\ p \in Workers /\ at[p].item # 0
        /\ at' = [at EXCEPT ![p].stage = "result"] /\ UNCHANGED job
     \/ /\ p \in Workers /\ at[p].item = 0
        /\ Ends(p) /\ Done(p)
  /\ UNCHANGED <<row, history, key, ran, left, faults>>

\* A bulk job leaves a vector that failed to a reindex job.
IndexFails(w) ==
  /\ at[w].item # 0 /\ faults < MaxFaults
  /\ Goes(w, "vector", "result")
  /\ Enqueued("reindex", at[w].mem, <<>>)
  /\ faults' = faults + 1
  /\ UNCHANGED <<row, history, vector, key, ran, left>>

\* Mutant: the progress is counted from one, the items from zero.
ResultShifted(w) ==
  /\ Goes(w, "result", "next")
  /\ job' = [job EXCEPT ![at[w].job].done = @ \cup {at[w].item + 1}]
  /\ UNCHANGED <<row, history, vector, key, ran, left, faults>>

\* update_result keeps the progress.
Result(w) ==
  /\ Goes(w, "result", "next")
  /\ job' = [job EXCEPT ![at[w].job].done = @ \cup {at[w].item}]
  /\ UNCHANGED <<row, history, vector, key, ran, left, faults>>

Finished(w) ==
  /\ at[w].stage = "next" /\ Pending(w) = {}
  /\ Ends(w) /\ Done(w)
  /\ UNCHANGED <<row, history, vector, key, ran, left, faults>>

\* The handler raises, or the worker is killed: the job is queued again.
Abort(w) ==
  /\ at[w] # Idle /\ faults < MaxFaults
  /\ Ends(w)
  /\ job' = [job EXCEPT ![at[w].job].status = "queued"]
  /\ faults' = faults + 1
  /\ UNCHANGED <<row, history, vector, key, ran, left>>

-----------------------------------------------------------------------------
Serve(c) ==
  \/ Claim(c) \/ Refuse(c) \/ Fail(c) \/ Add(c) \/ CreateNative(c) \/ Rewrite(c) \/ Reindex(c) \/ Finish(c)
  \/ Check(c) \/ ReadRow(c) \/ AlreadyDeleted(c) \/ Write(c) \/ Sweep(c) \/ Index(c)

Work(w) ==
  \/ Take(w) \/ ReadIndex(w) \/ List(w) \/ Sweep(w)
  \/ NextItem(w) \/ Check(w) \/ ReadRow(w) \/ NotFound(w) \/ Write(w)
  \/ Index(w) \/ Result(w) \/ Finished(w)

Next ==
  \/ \E c \in Clients : Ask(c) \/ Serve(c) \/ Crash(c)
  \/ \E w \in Workers : Work(w) \/ ItemFails(w) \/ IndexFails(w) \/ Abort(w)
  \/ \E k \in Keys : Expire(k)

Spec == Init /\ [][Next]_vars

\* A request that is being served goes on, and so does the worker's loop.
FairSpec ==
  /\ Spec
  /\ \A c \in Clients : WF_vars(Serve(c))
  /\ \A w \in Workers : WF_vars(Work(w))
-----------------------------------------------------------------------------
(***************************************************************************)
(* Properties.                                                             *)
(***************************************************************************)
Row   == [state : {"none", "active", "deleted"}, version : Nat, text : Texts \cup {NoText}]
Event == [event : {"ADD", "UPDATE", "DELETE"}, version : Nat]

JobRow == [status : {"free", "queued", "running"}, kind : {"none", "reindex", "delete_all", "bulk"},
           mem : SUBSET Mems, items : Seq(Item), done : SUBSET Nat]
Locals == [stage : Stage, mem : SUBSET Mems, text : Texts \cup {NoText}, seen : Row,
           op : Keyed \cup Update \cup {"none", "create", "batch_update", "batch_delete",
                                         "reindex", "delete_all", "bulk"},
           key : Keys \cup {NoKey}, job : Jobs \cup {NoJob}, item : Nat, failed : SUBSET Nat]

\* Every variable has its type (the tables of db.py and the handlers' locals).
TypeOK ==
  /\ row \in [Mems -> Row]
  /\ history \in [Mems -> Seq(Event)]
  /\ vector \in [Mems -> Texts \cup {NoText}]
  /\ key \in [Keys -> [status : {"none", "in_flight", "done"}, op : Keyed \cup {"none"}, mem : SUBSET Mems]]
  /\ ran \in [Keys -> Nat]
  /\ job \in [Jobs -> JobRow]
  /\ \A j \in Jobs : job[j].done \subseteq DOMAIN job[j].items
  /\ at \in [Clients \cup Workers -> Locals]
  /\ left \in 0..MaxRequests /\ faults \in 0..MaxFaults

\* The history explains the row although the writers read before they lock: its
\* last event is the one that gave the row its version, the row is deleted
\* exactly when a tombstone was written, and versions that lost updates have
\* written twice never run ahead of the events (append_memory_history).
HistoryExplainsRow ==
  \A m \in Mems :
    LET h == history[m] IN
    /\ row[m].state = "none" <=> h = <<>>
    /\ h # <<>> => row[m].version = h[Len(h)].version /\ row[m].version <= Len(h)
    /\ Deleted(m) <=> \E i \in DOMAIN h : h[i].event = "DELETE"

\* Under one claim of an Idempotency-Key the work is committed at most once,
\* and before the key answers for it, whatever fails, races or crashes
\* (claim_idempotency, complete_idempotency, release_idempotency).
AtMostOnce ==
  \A k \in Keys :
    /\ ran[k] <= 1
    /\ key[k] = Unclaimed => ran[k] = 0
    /\ key[k].status = "done" => ran[k] = 1

Stale(m) == Active(m) /\ vector[m] \notin {NoText, row[m].text}

\* An index that an update has left behind catches up, through interleaved
\* updates, batches, bulk items and retried jobs (reindex_memory).
IndexCatchesUp == \A m \in Mems : Stale(m) ~> ~Stale(m)
=============================================================================
