--------------------------- MODULE MemoriesProofs ---------------------------
(***************************************************************************)
(* Theorems about memories, their history and the idempotency keys of the  *)
(* requests that write them, for any number of memories, requests,         *)
(* workers, keys and jobs.                                                 *)
(***************************************************************************)
EXTENDS Memories, WellFoundedInduction, TLAPS

Procs == Clients \cup Workers

-----------------------------------------------------------------------------
(***************************************************************************)
(* The invariant.                                                          *)
(***************************************************************************)
\* A process that writes one memory has one in hand, from its first step to its last.
Apt(local) ==
  /\ local.stage = "idle" => local = Idle
  /\ local.op \in Update \cup {"delete", "reindex"} /\ local.stage \notin {"enqueue", "finish"} =>
       \E m \in Mems : local.mem = {m}

Subjects == \A p \in Procs : Apt(at[p])

\* A job that is run is run by one worker, which has an item of it in hand or none.
JobsHeld ==
  /\ \A j \in Jobs : job[j].kind = "reindex" => \E m \in Mems : job[j].mem = {m}
  /\ \A w \in Workers : at[w].stage # "idle" => at[w].job \in Jobs /\ Task(w).status = "running"
  /\ \A v, w \in Workers :
       v # w /\ at[v].stage # "idle" /\ at[w].stage # "idle" => at[v].job # at[w].job
  /\ \A w \in Workers : at[w].stage = "result" => at[w].item # 0
  /\ \A w \in Workers : at[w].stage = "list" => at[w].item = 0
  /\ \A w \in Workers : at[w].item # 0 =>
       at[w].item \in DOMAIN Task(w).items /\ at[w].op \in {"update", "delete"}
  /\ \A w \in Workers : at[w].op \notin {"add", "create"}

\* A request that adds a memory has not written it yet.
Adding(p) == at[p].op \in {"add", "create"} /\ at[p].stage \in {"claim", "write"}

There(m) == row[m].state # "none"

\* Whatever is named is there, but for what one request is about to add.
NamesExist ==
  /\ \A p \in Procs : ~Adding(p) => \A m \in at[p].mem : There(m)
  /\ \A j \in Jobs :
       /\ \A m \in job[j].mem : There(m)
       /\ \A i \in DOMAIN job[j].items : There(job[j].items[i].mem)
  /\ \A p \in Procs : Adding(p) => \A m \in at[p].mem : row[m] = Absent
  /\ \A p, q \in Procs : p # q /\ Adding(p) /\ Adding(q) => at[p].mem \cap at[q].mem = {}

\* The version that a writer has read is not ahead of the history.
SeenBefore ==
  \A p \in Procs : at[p].stage = "write" /\ at[p].op \in Update \cup {"delete"} =>
    \A m \in at[p].mem : at[p].seen.version <= Len(history[m])

Before == {"check", "read", "write"}
After  == {"enqueue", "vector", "finish"}

Holds(c, k) == at[c].key = k /\ at[c].stage \in Before \cup After

\* A claimed key is held by one request at most, which has committed its work when it
\* is past its write.
KeysHeld ==
  /\ \A w \in Workers : at[w].key = NoKey
  /\ \A c \in Clients : at[c].key # NoKey =>
       at[c].op \in Keyed /\ at[c].stage \in {"claim"} \cup Before \cup After
  /\ \A c \in Clients, k \in Keys : Holds(c, k) =>
       /\ key[k].status = "in_flight"
       /\ ran[k] = IF at[c].stage \in Before THEN 0 ELSE 1
  /\ \A c, d \in Clients, k \in Keys : Holds(c, k) /\ Holds(d, k) => c = d
  /\ \A k \in Keys : key[k].status = "none" => key[k] = Unclaimed

-----------------------------------------------------------------------------
(***************************************************************************)
(* Types, subjects and jobs.                                               *)
(***************************************************************************)
LEMMA IdleTypes ==
  /\ Idle \in Locals /\ Absent \in Row /\ Free \in JobRow
  /\ \A t \in Texts : New(t) \in Row
  /\ Unclaimed \in [status : {"none", "in_flight", "done"}, op : Keyed \cup {"none"}, mem : SUBSET Mems]
<1>1. <<>> \in Seq(Item)
  OBVIOUS
<1> QED
  BY <1>1 DEF Idle, Locals, Absent, Row, Free, JobRow, New, Unclaimed, Stage, Keyed, Update

\* Only the process that takes a step moves.
LEMMA Moving ==
  ASSUME TypeOK, NEW p \in Procs, NEW x \in Locals, at' = [at EXCEPT ![p] = x]
  PROVE  at' \in [Procs -> Locals] /\ at'[p] = x /\ \A q \in Procs \ {p} : at'[q] = at[q]
<1> QED
  BY DEF TypeOK, Procs

\* A stage is changed, and nothing else.
LEMMA Going ==
  ASSUME TypeOK, NEW p \in Procs, NEW s \in Stage, at' = [at EXCEPT ![p].stage = s]
  PROVE  /\ at' \in [Procs -> Locals] /\ \A q \in Procs \ {p} : at'[q] = at[q]
         /\ at'[p] = [at[p] EXCEPT !.stage = s]
         /\ at'[p].stage = s /\ at'[p].op = at[p].op /\ at'[p].mem = at[p].mem
         /\ at'[p].text = at[p].text /\ at'[p].seen = at[p].seen /\ at'[p].key = at[p].key
         /\ at'[p].job = at[p].job /\ at'[p].item = at[p].item /\ at'[p].failed = at[p].failed
<1> QED
  BY DEF TypeOK, Procs, Locals

\* A job that is enqueued takes the place of none.
Placed(j, kind, ms, items) ==
  /\ job[j].status = "free" /\ \A i \in Jobs \ {j} : job'[i] = job[i]
  /\ job'[j].kind = kind /\ job'[j].mem = ms /\ job'[j].items = items
  /\ job'[j].done = {} /\ job'[j].status = "queued"

\* Enqueuing fills one free place and leaves the other jobs alone.
LEMMA Enqueuing ==
  ASSUME TypeOK, NEW kind \in {"reindex", "delete_all", "bulk"}, NEW ms \in SUBSET Mems,
         NEW items \in Seq(Item), Enqueued(kind, ms, items)
  PROVE  /\ job' \in [Jobs -> JobRow]
         /\ \E j \in Jobs : Placed(j, kind, ms, items)
<1> DEFINE free == {j \in Jobs : job[j] = Free}
           j    == CHOOSE i \in free : TRUE
           new  == [status |-> "queued", kind |-> kind, mem |-> ms, items |-> items, done |-> {}]
<1>1. j \in free
  BY DEF Enqueued
<1>2. new \in JobRow
  BY DEF JobRow
<1>3. job' = [job EXCEPT ![j] = new]
  BY DEF Enqueued
<1> HIDE DEF j
<1>4. j \in Jobs /\ job[j].status = "free"
  BY <1>1 DEF Free
<1> QED
  BY <1>2, <1>3, <1>4 DEF TypeOK, Placed

\* A request that is asked, with what it names in hand.  Those that only queue a job
\* are apart.
Asked(c, op, ms, k) ==
  /\ op \notin Keyed => k = NoKey
  /\ op \in {"add", "create"} => \E m \in Fresh : ms = {m}
  /\ op \notin {"add", "create"} => ms \subseteq Existing
  /\ op \in Update \cup {"delete"} => \E m \in Mems : ms = {m}
  /\ at[c].stage = "idle"
  /\ left > 0 /\ left' = left - 1
  /\ at' \in [Procs -> Locals] /\ \A q \in Procs \ {c} : at'[q] = at[q]
  /\ at'[c].op = op /\ at'[c].mem = ms /\ at'[c].key = k
  /\ at'[c].stage = (IF k = NoKey THEN Entry(op) ELSE "claim")
  /\ at'[c].item = 0 /\ at'[c].seen = Absent
  /\ UNCHANGED <<row, history, vector, key, ran, job, faults>>

Requested == {"add", "create", "update", "annotate", "categorize", "delete", "batch_update",
              "batch_delete"}

\* Every request that does not only queue a job is one of these.
LEMMA Asking ==
  ASSUME TypeOK, NEW c \in Clients, Ask(c), ~DeleteAll(c), ~Bulk(c)
  PROVE  \E op \in Requested, ms \in SUBSET Mems, k \in Keys \cup {NoKey} : Asked(c, op, ms, k)
<1>1. ASSUME NEW op \in Requested, NEW ms \in SUBSET Mems, NEW text \in Texts \cup {NoText},
             NEW k \in Keys \cup {NoKey}, Asks(c, op, ms, text, k),
             op \notin Keyed => k = NoKey,
             op \in {"add", "create"} => \E m \in Fresh : ms = {m},
             op \notin {"add", "create"} => ms \subseteq Existing,
             op \in Update \cup {"delete"} => \E m \in Mems : ms = {m}
      PROVE  Asked(c, op, ms, k)
  <2> DEFINE stage == IF k = NoKey THEN Entry(op) ELSE "claim"
             x == [Idle EXCEPT !.op = op, !.mem = ms, !.text = text, !.key = k, !.stage = stage]
  <2>1. stage \in Stage
    BY DEF Entry, Stage, Update
  <2>2. Idle \in Locals /\ Idle.item = 0 /\ Idle.seen = Absent /\ Idle.stage = "idle"
    BY IdleTypes DEF Idle
  <2> HIDE DEF stage
  <2>3. x \in Locals
    BY <2>1, <2>2 DEF Locals, Keyed, Update, Requested
  <2>4. at' = [at EXCEPT ![c] = x] /\ at[c] = Idle
    BY <1>1 DEF Asks, stage
  <2>5. x.op = op /\ x.mem = ms /\ x.key = k /\ x.stage = stage /\ x.item = 0 /\ x.seen = Absent
    BY <2>2 DEF Locals
  <2> HIDE DEF x
  <2>6. at' \in [Procs -> Locals] /\ at'[c] = x /\ \A q \in Procs \ {c} : at'[q] = at[q]
    BY <2>3, <2>4, Moving DEF Procs
  <2>7. at[c].stage = "idle"
    BY <2>2, <2>4
  <2>8. left > 0 /\ left' = left - 1 /\ UNCHANGED <<row, history, vector, key, ran, job, faults>>
    BY <1>1 DEF Asks
  <2>9. at'[c].stage = (IF k = NoKey THEN Entry(op) ELSE "claim")
    BY <2>5, <2>6 DEF stage
  <2> QED
    BY <1>1, <2>5, <2>6, <2>7, <2>8, <2>9 DEF Asked
<1>2. Existing \in SUBSET Mems /\ Fresh \in SUBSET Mems
  BY DEF Existing, Fresh
<1>3. CASE AskAdd(c) \/ AskCreate(c)
  <2>1. PICK op \in {"add", "create"}, m \in Fresh, t \in Texts, k \in Keys \cup {NoKey} :
          Asks(c, op, {m}, t, k) /\ (op = "create" => k = NoKey)
    BY <1>3 DEF AskAdd, AskCreate
  <2>2. Asked(c, op, {m}, k)
    BY <1>1, <1>2, <2>1 DEF Keyed, Update, Requested
  <2> QED
    BY <1>2, <2>2 DEF Requested
<1>4. CASE AskUpdate(c) \/ AskCategorize(c) \/ AskDelete(c)
  <2>1. PICK op \in {"update", "annotate", "categorize", "delete"}, m \in Existing,
             t \in Texts \cup {NoText}, k \in Keys \cup {NoKey} :
          Asks(c, op, {m}, t, k) /\ (op = "categorize" => k = NoKey)
    BY <1>4 DEF AskUpdate, AskCategorize, AskDelete
  <2>2. Asked(c, op, {m}, k)
    BY <1>1, <1>2, <2>1 DEF Keyed, Update, Requested
  <2> QED
    BY <1>2, <2>2 DEF Requested
<1>5. CASE AskBatchUpdate(c) \/ AskBatchDelete(c)
  <2>1. PICK op \in {"batch_update", "batch_delete"}, ms \in SUBSET Existing,
             t \in Texts \cup {NoText} : Asks(c, op, ms, t, NoKey)
    BY <1>5 DEF AskBatchUpdate, AskBatchDelete
  <2>2. Asked(c, op, ms, NoKey)
    BY <1>1, <1>2, <2>1 DEF Keyed, Update, Requested
  <2> QED
    BY <1>2, <2>2 DEF Requested
<1> QED
  BY <1>3, <1>4, <1>5 DEF Ask

\* A process is done with a request or a job.
LEMMA Ending ==
  ASSUME TypeOK, NEW p \in Procs, Ends(p)
  PROVE  /\ at' \in [Procs -> Locals] /\ \A q \in Procs \ {p} : at'[q] = at[q]
         /\ at'[p] = Idle
         /\ at'[p].stage = "idle" /\ at'[p].op = "none" /\ at'[p].mem = {}
         /\ at'[p].key = NoKey /\ at'[p].item = 0
<1>1. at' \in [Procs -> Locals] /\ at'[p] = Idle /\ \A q \in Procs \ {p} : at'[q] = at[q]
  BY IdleTypes, Moving DEF Ends
<1> QED
  BY <1>1 DEF Idle

\* The rows that a transaction writes, and its events.
RecordedAs(event, ms, new) ==
  /\ row' \in [Mems -> Row] /\ history' \in [Mems -> Seq(Event)]
  /\ \A m \in ms : /\ row'[m] = new[m]
                   /\ history'[m] = Append(history[m], [event |-> event, version |-> new[m].version])
  /\ \A m \in Mems \ ms : row'[m] = row[m] /\ history'[m] = history[m]

\* Recording writes exactly the rows it names, and one event for each.
LEMMA Recorded ==
  ASSUME TypeOK, NEW event \in {"ADD", "UPDATE", "DELETE"}, NEW ms \in SUBSET Mems, NEW new,
         DOMAIN new = ms, \A m \in ms : new[m] \in Row, Record(event, new)
  PROVE  RecordedAs(event, ms, new)
<1>1. \A m \in ms : [event |-> event, version |-> new[m].version] \in Event
  BY DEF Row, Event
<1>2. \A m \in ms : Append(history[m], [event |-> event, version |-> new[m].version]) \in Seq(Event)
  BY <1>1 DEF TypeOK
<1> QED
  BY <1>2 DEF Record, TypeOK, RecordedAs

\* A row that is written again.
LEMMA Rewritten ==
  ASSUME NEW r \in Row, NEW text \in Texts \cup {NoText}, NEW state \in {"active", "deleted"}
  PROVE  /\ [r EXCEPT !.version = @ + 1, !.text = text] \in Row
         /\ [r EXCEPT !.version = @ + 1, !.text = text].version = r.version + 1
         /\ [r EXCEPT !.version = @ + 1, !.text = text].state = r.state
         /\ [r EXCEPT !.version = @ + 1, !.state = state] \in Row
         /\ [r EXCEPT !.version = @ + 1, !.state = state].version = r.version + 1
         /\ [r EXCEPT !.version = @ + 1, !.state = state].state = state
<1>1. r.version + 1 \in Nat
  BY DEF Row
<1> DEFINE n == r.version + 1
<1> HIDE DEF n
<1>2. n \in Nat
  BY <1>1 DEF n
<1>3. /\ [r EXCEPT !.version = n, !.text = text] \in Row
      /\ [r EXCEPT !.version = n, !.text = text].version = n
      /\ [r EXCEPT !.version = n, !.text = text].state = r.state
  BY <1>2 DEF Row
<1>4. /\ [r EXCEPT !.version = n, !.state = state] \in Row
      /\ [r EXCEPT !.version = n, !.state = state].version = n
      /\ [r EXCEPT !.version = n, !.state = state].state = state
  BY <1>2 DEF Row
<1> QED
  BY <1>3, <1>4 DEF n

\* The jobs as a request leaves them.
JobsStay ==
  \/ job' = job
  \/ \E kind \in {"reindex", "delete_all", "bulk"}, ms \in SUBSET Mems, items \in Seq(Item) :
       Enqueued(kind, ms, items) /\ (kind = "reindex" => \E m \in Mems : ms = {m})

\* The running jobs stay the workers' own when a request enqueues.
LEMMA JobsKept ==
  ASSUME TypeOK, Subjects, JobsHeld, JobsStay, \A w \in Workers : at'[w] = at[w]
  PROVE  /\ JobsHeld' /\ job' \in [Jobs -> JobRow]
         /\ \A j \in Jobs : job'[j].done \subseteq DOMAIN job'[j].items
<1>1. CASE job' = job
  <2>1. \A w \in Workers : Task(w)' = Task(w)
    BY <1>1 DEF Task
  <2>2. \A v, w \in Workers :
          v # w /\ at'[v].stage # "idle" /\ at'[w].stage # "idle" => at'[v].job # at'[w].job
    BY DEF JobsHeld
  <2>3. JobsHeld'
    BY <1>1, <2>1, <2>2 DEF JobsHeld
  <2> QED
    BY <1>1, <2>3 DEF TypeOK
<1>2. CASE job' # job
  <2>1. PICK kind \in {"reindex", "delete_all", "bulk"}, ms \in SUBSET Mems, items \in Seq(Item) :
          Enqueued(kind, ms, items) /\ (kind = "reindex" => \E m \in Mems : ms = {m})
    BY <1>2 DEF JobsStay
  <2>2. job' \in [Jobs -> JobRow]
    BY <2>1, Enqueuing
  <2>3. PICK j \in Jobs : Placed(j, kind, ms, items)
    BY <2>1, Enqueuing
  <2>4. \A i \in Jobs : job'[i].kind = "reindex" => \E m \in Mems : job'[i].mem = {m}
    BY <2>1, <2>3 DEF JobsHeld, Placed
  <2>5. \A w \in Workers : at[w].stage # "idle" => Task(w)' = Task(w)
    BY <2>3 DEF JobsHeld, Task, Placed
  <2>6. \A w \in Workers : at[w].item # 0 => at[w].stage # "idle"
    BY DEF Subjects, Apt, Idle, Procs
  <2>7. \A i \in Jobs : job'[i].done \subseteq DOMAIN job'[i].items
    BY <2>3 DEF Placed, TypeOK
  <2> QED
    BY <2>2, <2>4, <2>5, <2>6, <2>7 DEF JobsHeld
<1> QED
  BY <1>1, <1>2

\* One process moves, and what it has in hand is apt.
Steps(p) ==
  /\ at' \in [Procs -> Locals] /\ \A q \in Procs \ {p} : at'[q] = at[q]
  /\ Apt(at'[p])

\* A process that ends has nothing in hand.
LEMMA EndSteps ==
  ASSUME TypeOK, NEW p \in Procs, Ends(p)
  PROVE  Steps(p)
<1> QED
  BY Ending DEF Steps, Apt, Update

\* A process that goes on keeps its names.
LEMMA GoSteps ==
  ASSUME TypeOK, Subjects, NEW p \in Procs, NEW from \in Stage \ {"idle", "enqueue", "finish"},
         NEW to \in Stage \ {"idle"}, Goes(p, from, to)
  PROVE  /\ Steps(p)
         /\ at[p].stage = from /\ at'[p].stage = to
         /\ at'[p].op = at[p].op /\ at'[p].mem = at[p].mem /\ at'[p].key = at[p].key
         /\ at'[p].seen = at[p].seen /\ at'[p].item = at[p].item /\ at'[p].job = at[p].job
         /\ at'[p].text = at[p].text
<1>1. at[p].stage = from /\ at' = [at EXCEPT ![p].stage = to]
  BY DEF Goes
<1>2. /\ at' \in [Procs -> Locals] /\ \A q \in Procs \ {p} : at'[q] = at[q]
      /\ at'[p].stage = to /\ at'[p].op = at[p].op /\ at'[p].mem = at[p].mem
      /\ at'[p].text = at[p].text /\ at'[p].seen = at[p].seen /\ at'[p].key = at[p].key
      /\ at'[p].job = at[p].job /\ at'[p].item = at[p].item
  BY <1>1, Going
<1>3. Apt(at'[p])
  BY <1>1, <1>2 DEF Apt, Subjects
<1> QED
  BY <1>1, <1>2, <1>3 DEF Steps

\* The memory that a process deals with.
LEMMA SubjectIs ==
  ASSUME Subjects, NEW p \in Procs, at[p].op \in Update \cup {"delete", "reindex"},
         at[p].stage \notin {"enqueue", "finish"}
  PROVE  Subject(p) \in Mems /\ at[p].mem = {Subject(p)}
<1>1. PICK m \in Mems : at[p].mem = {m}
  BY DEF Subjects, Apt
<1> QED
  BY <1>1 DEF Subject

\* A process that reads a row has it in hand from then on.
LEMMA ReadSteps ==
  ASSUME TypeOK, Subjects, NEW p \in Procs, NEW to \in {"write", "vector"},
         at[p].op \in Update \cup {"delete", "reindex"}, at[p].stage = "read",
         at' = [at EXCEPT ![p].stage = to, ![p].seen = row[Subject(p)]]
  PROVE  /\ Steps(p)
         /\ at'[p].stage = to /\ at'[p].seen = row[Subject(p)]
         /\ at'[p].op = at[p].op /\ at'[p].mem = at[p].mem /\ at'[p].key = at[p].key
         /\ at'[p].item = at[p].item /\ at'[p].job = at[p].job
<1>1. Subject(p) \in Mems /\ row[Subject(p)] \in Row /\ to \in Stage
  BY SubjectIs DEF TypeOK, Stage
<1>2. at[p] \in Locals
  BY DEF TypeOK, Procs
<1> DEFINE x == [at[p] EXCEPT !.stage = to, !.seen = row[Subject(p)]]
<1>3. /\ x \in Locals /\ x.stage = to /\ x.seen = row[Subject(p)]
      /\ x.op = at[p].op /\ x.mem = at[p].mem /\ x.key = at[p].key
      /\ x.item = at[p].item /\ x.job = at[p].job
  BY <1>1, <1>2 DEF Locals
<1>4. at' = [at EXCEPT ![p] = x]
  BY DEF TypeOK, Procs, Locals
<1> HIDE DEF x
<1>5. at' \in [Procs -> Locals] /\ at'[p] = x /\ \A q \in Procs \ {p} : at'[q] = at[q]
  BY <1>3, <1>4, Moving
<1> QED
  BY <1>3, <1>5 DEF Steps, Apt, Subjects

\* A memory is queued for reindexing, and is not in hand any more.
LEMMA ReindexSteps ==
  ASSUME TypeOK, Subjects, NEW c \in Clients, Reindex(c)
  PROVE  /\ Steps(c)
         /\ at[c].stage = "enqueue" /\ at'[c].stage \in {"enqueue", "finish"}
         /\ at'[c].op = at[c].op /\ at'[c].mem \subseteq at[c].mem /\ at'[c].key = at[c].key
         /\ at'[c].item = at[c].item
         /\ \E m \in at[c].mem : Enqueued("reindex", {m}, <<>>)
<1>1. PICK m \in at[c].mem :
        /\ Enqueued("reindex", {m}, <<>>)
        /\ at' = [at EXCEPT ![c].mem = @ \ {m},
                            ![c].stage = IF at[c].mem = {m} THEN "finish" ELSE "enqueue"]
  BY DEF Reindex
<1>2. at[c] \in Locals /\ at[c].stage = "enqueue"
  BY DEF TypeOK, Reindex
<1> DEFINE to == IF at[c].mem = {m} THEN "finish" ELSE "enqueue"
           ms == at[c].mem \ {m}
           x  == [at[c] EXCEPT !.mem = ms, !.stage = to]
<1>3. to \in {"finish", "enqueue"} /\ ms \in SUBSET Mems /\ ms \subseteq at[c].mem
  BY <1>2 DEF Locals
<1>4. at' = [at EXCEPT ![c] = x]
  BY <1>1 DEF TypeOK, Locals
<1> HIDE DEF to, ms
<1>5. x \in Locals /\ x.stage = to /\ x.mem = ms /\ x.op = at[c].op /\ x.key = at[c].key /\ x.item = at[c].item
  BY <1>2, <1>3 DEF Locals, Stage
<1> HIDE DEF x
<1>6. at' \in [Procs -> Locals] /\ at'[c] = x /\ \A q \in Procs \ {c} : at'[q] = at[q]
  BY <1>4, <1>5, Moving DEF Procs
<1>7. Apt(x)
  BY <1>3, <1>5 DEF Apt
<1> QED
  BY <1>1, <1>2, <1>3, <1>5, <1>6, <1>7 DEF Steps

\* A sweep keeps of its memories those that it deletes.
LEMMA SweepSteps ==
  ASSUME TypeOK, NEW p \in Procs, Sweep(p)
  PROVE  /\ Steps(p)
         /\ at[p].stage = "write" /\ at[p].op = "batch_delete"
         /\ at'[p].stage = "vector" /\ at'[p].mem \subseteq at[p].mem
         /\ at'[p].op = at[p].op /\ at'[p].key = at[p].key
         /\ at'[p].item = at[p].item /\ at'[p].job = at[p].job
<1> DEFINE gone == {m \in at[p].mem : ~Deleted(m)}
           x    == [at[p] EXCEPT !.stage = "vector", !.mem = gone]
<1>1. at[p] \in Locals /\ at[p].stage = "write" /\ at[p].op = "batch_delete"
  BY DEF TypeOK, Sweep, Procs
<1>2. gone \in SUBSET Mems /\ gone \subseteq at[p].mem
  BY <1>1 DEF Locals
<1>3. at' = [at EXCEPT ![p] = x]
  BY DEF Sweep, TypeOK, Locals, Procs
<1> HIDE DEF gone
<1>4. /\ x \in Locals /\ x.stage = "vector" /\ x.mem = gone /\ x.op = at[p].op /\ x.key = at[p].key
      /\ x.item = at[p].item /\ x.job = at[p].job
  BY <1>1, <1>2 DEF Locals, Stage
<1> HIDE DEF x
<1>5. at' \in [Procs -> Locals] /\ at'[p] = x /\ \A q \in Procs \ {p} : at'[q] = at[q]
  BY <1>3, <1>4, Moving
<1>6. Apt(x)
  BY <1>1, <1>4 DEF Apt, Update
<1> QED
  BY <1>1, <1>2, <1>4, <1>5, <1>6 DEF Steps

\* What follows the store of the vectors.
LEMMA IndexSteps ==
  ASSUME TypeOK, Subjects, NEW p \in Procs, Index(p)
  PROVE  /\ Steps(p) /\ at[p].stage = "vector"
         /\ \/ /\ p \in Clients /\ at'[p].stage = "finish" /\ job' = job
               /\ at'[p].op = at[p].op /\ at'[p].mem = at[p].mem /\ at'[p].key = at[p].key
               /\ at'[p].item = at[p].item /\ at'[p].job = at[p].job
            \/ /\ p \in Workers /\ at[p].item # 0 /\ at'[p].stage = "result" /\ job' = job
               /\ at'[p].op = at[p].op /\ at'[p].mem = at[p].mem /\ at'[p].key = at[p].key
               /\ at'[p].item = at[p].item /\ at'[p].job = at[p].job
            \/ p \in Workers /\ Ends(p) /\ Done(p)
         /\ vector' \in [Mems -> Texts \cup {NoText}]
<1>1. at[p].stage = "vector" /\ at[p] \in Locals
  BY DEF Index, TypeOK, Procs
<1>2. ASSUME NEW to \in {"finish", "result"}, at' = [at EXCEPT ![p].stage = to]
      PROVE  /\ Steps(p) /\ at'[p].stage = to
             /\ at'[p].op = at[p].op /\ at'[p].mem = at[p].mem /\ at'[p].key = at[p].key
             /\ at'[p].item = at[p].item /\ at'[p].job = at[p].job
  <2>1. Goes(p, "vector", to) /\ "vector" \in Stage /\ to \in Stage
    BY <1>1, <1>2 DEF Goes, Stage
  <2> QED
    BY <2>1, GoSteps
<1>3. NewVector(p) \in Texts \cup {NoText}
  <2>1. at[p].text \in Texts \cup {NoText} /\ at[p].seen.text \in Texts \cup {NoText}
    BY <1>1 DEF Locals, Row
  <2> QED
    BY <2>1 DEF NewVector
<1>4. vector' \in [Mems -> Texts \cup {NoText}]
  BY <1>3 DEF Index, Stored, TypeOK
<1>5. CASE p \in Clients /\ at' = [at EXCEPT ![p].stage = "finish"] /\ UNCHANGED job
  BY <1>1, <1>2, <1>4, <1>5
<1>6. CASE p \in Workers /\ at[p].item # 0 /\ at' = [at EXCEPT ![p].stage = "result"] /\ UNCHANGED job
  BY <1>1, <1>2, <1>4, <1>6
<1>7. CASE p \in Workers /\ Ends(p) /\ Done(p)
  BY <1>1, <1>4, <1>7, EndSteps
<1> QED
  BY <1>5, <1>6, <1>7 DEF Index

-----------------------------------------------------------------------------
(***************************************************************************)
(* Rows and their history.                                                 *)
(***************************************************************************)
\* HistoryExplainsRow, of one row and one history.
Explains(r, h) ==
  /\ r.state = "none" <=> h = <<>>
  /\ h # <<>> => r.version = h[Len(h)].version /\ r.version <= Len(h)
  /\ r.state = "deleted" <=> \E i \in DOMAIN h : h[i].event = "DELETE"

\* A row may move with its history, to a version that is not ahead of it; it is deleted
\* by a tombstone, and for good.
ExtendsBy(event, r, new, h, longer) ==
  /\ new \in Row /\ longer = Append(h, [event |-> event, version |-> new.version])
  /\ new.version <= Len(h) + 1 /\ new.state # "none"
  /\ new.state = "deleted" <=> r.state = "deleted" \/ event = "DELETE"

Extends(r, new, h, longer) ==
  \E event \in {"ADD", "UPDATE", "DELETE"} : ExtendsBy(event, r, new, h, longer)

Moved(m) ==
  \/ row'[m] = row[m] /\ history'[m] = history[m]
  \/ Extends(row[m], row'[m], history[m], history'[m])

\* A history that explained the row explains it still.
LEMMA StillExplains ==
  ASSUME NEW r \in Row, NEW h \in Seq(Event), NEW new, NEW longer, Explains(r, h),
         Extends(r, new, h, longer)
  PROVE  Explains(new, longer) /\ Len(longer) = Len(h) + 1
<1>1. PICK event \in {"ADD", "UPDATE", "DELETE"} :
        /\ new \in Row /\ longer = Append(h, [event |-> event, version |-> new.version])
        /\ new.version <= Len(h) + 1 /\ new.state # "none"
        /\ new.state = "deleted" <=> r.state = "deleted" \/ event = "DELETE"
  BY DEF Extends, ExtendsBy
<1> DEFINE e == [event |-> event, version |-> new.version]
<1>2. e \in Event /\ e.event = event /\ e.version = new.version
  BY <1>1 DEF Event, Row
<1> HIDE DEF e
<1>3. /\ longer \in Seq(Event) /\ Len(longer) = Len(h) + 1 /\ longer[Len(h) + 1] = e
      /\ \A i \in DOMAIN h : longer[i] = h[i]
      /\ DOMAIN longer = DOMAIN h \cup {Len(h) + 1}
  BY <1>1, <1>2 DEF e
<1>4. (\E i \in DOMAIN longer : longer[i].event = "DELETE")
        <=> (\E i \in DOMAIN h : h[i].event = "DELETE") \/ event = "DELETE"
  BY <1>2, <1>3
<1>5. longer # <<>>
  BY <1>3
<1> QED
  BY <1>1, <1>2, <1>3, <1>4, <1>5 DEF Explains

\* The history explains the row before and after a step, if every row moves with its history.
LEMMA HistoryFollows ==
  ASSUME TypeOK, HistoryExplainsRow, \A m \in Mems : Moved(m)
  PROVE  /\ HistoryExplainsRow'
         /\ \A m \in Mems : Len(history[m]) <= Len(history'[m]) /\ (There(m) => There(m)')
<1> SUFFICES ASSUME NEW m \in Mems
             PROVE  /\ Explains(row'[m], history'[m])
                    /\ Len(history[m]) <= Len(history'[m]) /\ (There(m) => There(m)')
  BY DEF HistoryExplainsRow, Explains, Deleted
<1>1. Explains(row[m], history[m]) /\ row[m] \in Row /\ history[m] \in Seq(Event)
  BY DEF HistoryExplainsRow, Explains, Deleted, TypeOK
<1>2. Len(history[m]) \in Nat
  BY <1>1
<1>3. CASE row'[m] = row[m] /\ history'[m] = history[m]
  BY <1>1, <1>2, <1>3 DEF There
<1>4. CASE Extends(row[m], row'[m], history[m], history'[m])
  <2>1. Explains(row'[m], history'[m]) /\ Len(history'[m]) = Len(history[m]) + 1
    BY <1>1, <1>4, StillExplains
  <2>2. row'[m].state # "none"
    BY <1>4 DEF Extends, ExtendsBy
  <2> QED
    BY <1>2, <2>1, <2>2 DEF There
<1> QED
  BY <1>3, <1>4 DEF Moved

\* A version that is read is not ahead of the history.
LEMMA VersionBound ==
  ASSUME TypeOK, HistoryExplainsRow, NEW m \in Mems
  PROVE  /\ row[m] \in Row /\ history[m] \in Seq(Event) /\ Len(history[m]) \in Nat
         /\ row[m].version \in Nat
         /\ There(m) => row[m].version <= Len(history[m])
         /\ row[m] = Absent => Len(history[m]) = 0
<1>1. row[m] \in Row /\ history[m] \in Seq(Event)
  BY DEF TypeOK
<1>2. row[m] = Absent => history[m] = <<>>
  BY DEF HistoryExplainsRow, Absent
<1> QED
  BY <1>1, <1>2 DEF HistoryExplainsRow, There, Row

\* The writes of a request or a job, with what they have in hand.
LEMMA AddMoves ==
  ASSUME TypeOK, NamesExist, HistoryExplainsRow, NEW c \in Clients, Add(c) \/ CreateNative(c)
  PROVE  /\ row' \in [Mems -> Row] /\ history' \in [Mems -> Seq(Event)]
         /\ \A m \in Mems : Moved(m)
         /\ \A m \in Mems \ at[c].mem : row'[m] = row[m]
         /\ Adding(c) /\ \A m \in at[c].mem : There(m)'
<1>1. Adding(c) /\ at[c] \in Locals
  BY DEF Add, CreateNative, Goes, Adding, TypeOK
<1>2. at[c].mem \in SUBSET Mems /\ \A m \in at[c].mem : row[m] = Absent
  BY <1>1 DEF NamesExist, Locals, Procs
<1> DEFINE first == New(at[c].text)
           new   == [m \in at[c].mem |-> first]
<1>3. first \in Row /\ first.version = 1 /\ first.state = "active"
  BY <1>1 DEF New, Row, Locals
<1>4. Record("ADD", new)
  BY DEF Add, CreateNative, InputMemory
<1> HIDE DEF first
<1>5. DOMAIN new = at[c].mem /\ \A m \in at[c].mem : new[m] = first
  OBVIOUS
<1> HIDE DEF new
<1>6. RecordedAs("ADD", at[c].mem, new)
  BY <1>2, <1>3, <1>4, <1>5, Recorded
<1>7. /\ row' \in [Mems -> Row] /\ history' \in [Mems -> Seq(Event)]
      /\ \A m \in at[c].mem :
           /\ row'[m] = first
           /\ history'[m] = Append(history[m], [event |-> "ADD", version |-> first.version])
      /\ \A m \in Mems \ at[c].mem : row'[m] = row[m] /\ history'[m] = history[m]
  BY <1>5, <1>6 DEF RecordedAs
<1>8. ASSUME NEW m \in at[c].mem
      PROVE  Extends(row[m], row'[m], history[m], history'[m])
  <2>1. m \in Mems /\ row[m] = Absent /\ row[m].state = "none"
    BY <1>2 DEF Absent
  <2>2. Len(history[m]) = 0
    BY <2>1, VersionBound
  <2>3. ExtendsBy("ADD", row[m], row'[m], history[m], history'[m])
    BY <1>3, <1>7, <2>1, <2>2 DEF ExtendsBy
  <2> QED
    BY <2>3 DEF Extends
<1>9. \A m \in at[c].mem : There(m)'
  BY <1>3, <1>7 DEF There
<1> QED
  BY <1>1, <1>7, <1>8, <1>9 DEF Moved

\* A batch of updates moves every row of the batch by one version and one event.
LEMMA RewriteMoves ==
  ASSUME TypeOK, NamesExist, HistoryExplainsRow, NEW c \in Clients, Rewrite(c)
  PROVE  /\ row' \in [Mems -> Row] /\ history' \in [Mems -> Seq(Event)]
         /\ \A m \in Mems : Moved(m)
         /\ \A m \in Mems \ at[c].mem : row'[m] = row[m]
<1>1. at[c].op = "batch_update" /\ at[c] \in Locals /\ \A m \in at[c].mem : ~Deleted(m)
  BY DEF Rewrite, TypeOK
<1>2. at[c].mem \in SUBSET Mems /\ \A m \in at[c].mem : There(m)
  BY <1>1 DEF NamesExist, Locals, Procs, Adding
<1> DEFINE new == [m \in at[c].mem |-> [row[m] EXCEPT !.version = @ + 1, !.text = at[c].text]]
<1>3. ASSUME NEW m \in at[c].mem
      PROVE  /\ new[m] \in Row /\ new[m].version = row[m].version + 1
             /\ new[m].state = row[m].state
  <2>1. row[m] \in Row /\ at[c].text \in Texts \cup {NoText}
    BY <1>1, <1>2 DEF TypeOK, Locals
  <2>2. new[m] = [row[m] EXCEPT !.version = @ + 1, !.text = at[c].text]
    OBVIOUS
  <2> QED
    BY <2>1, <2>2, Rewritten
<1>4. Record("UPDATE", new)
  BY DEF Rewrite
<1> HIDE DEF new
<1>5. RecordedAs("UPDATE", at[c].mem, new)
  BY <1>2, <1>3, <1>4, Recorded DEF new
<1>6. ASSUME NEW m \in at[c].mem
      PROVE  Extends(row[m], row'[m], history[m], history'[m])
  <2>1. m \in Mems /\ There(m)
    BY <1>2
  <2>2. row[m].version + 1 <= Len(history[m]) + 1
    BY <2>1, VersionBound
  <2>3. ExtendsBy("UPDATE", row[m], row'[m], history[m], history'[m])
    BY <1>1, <1>3, <1>5, <2>1, <2>2 DEF ExtendsBy, RecordedAs, Deleted, There
  <2> QED
    BY <2>3 DEF Extends
<1> QED
  BY <1>5, <1>6 DEF Moved, RecordedAs

\* A write moves its row to the version after the one that was read, however old.
LEMMA WriteMoves ==
  ASSUME TypeOK, NamesExist, SeenBefore, HistoryExplainsRow, NEW p \in Procs, Write(p)
  PROVE  /\ row' \in [Mems -> Row] /\ history' \in [Mems -> Seq(Event)]
         /\ \A m \in Mems : Moved(m)
         /\ \A m \in Mems \ at[p].mem : row'[m] = row[m]
<1>1. at[p].op \in Update \cup {"delete"} /\ at[p].stage = "write" /\ at[p] \in Locals
  BY DEF Write, TypeOK, Goes, Procs
<1>2. /\ at[p].mem \in SUBSET Mems /\ \A m \in at[p].mem : There(m)
      /\ at[p].seen \in Row /\ at[p].text \in Texts \cup {NoText}
      /\ \A m \in at[p].mem : at[p].seen.version <= Len(history[m])
  BY <1>1 DEF NamesExist, Locals, Adding, Update, SeenBefore
<1> DEFINE new == [m \in at[p].mem |-> Written(p, m)]
           event == EventOf(at[p].op)
<1>3. ASSUME NEW m \in at[p].mem
      PROVE  /\ Written(p, m) \in Row /\ Written(p, m).version = at[p].seen.version + 1
             /\ Written(p, m).state = IF at[p].op = "delete" THEN "deleted" ELSE row[m].state
  <2>1. row[m] \in Row /\ at[p].seen \in Row
    BY <1>2 DEF TypeOK
  <2>2. (CASE at[p].op = "update"   -> at[p].text
           [] at[p].op = "annotate" -> at[p].seen.text
           [] OTHER                 -> row[m].text) \in Texts \cup {NoText}
    BY <1>2, <2>1 DEF Row
  <2> QED
    BY <2>1, <2>2 DEF Written, Row
<1>4. Record(event, new) /\ event \in {"ADD", "UPDATE", "DELETE"}
  BY DEF Write, EventOf
<1>5. event = "DELETE" <=> at[p].op = "delete"
  BY DEF EventOf
<1> HIDE DEF event
<1>6. RecordedAs(event, at[p].mem, new)
  BY <1>2, <1>3, <1>4, Recorded
<1>7. ASSUME NEW m \in at[p].mem
      PROVE  Extends(row[m], row'[m], history[m], history'[m])
  <2>1. m \in Mems /\ There(m) /\ at[p].seen.version \in Nat
    BY <1>2 DEF Row
  <2>2. /\ row'[m] \in Row /\ row'[m].version = at[p].seen.version + 1
        /\ row'[m].state = IF at[p].op = "delete" THEN "deleted" ELSE row[m].state
        /\ history'[m] = Append(history[m], [event |-> event, version |-> row'[m].version])
    BY <1>3, <1>6 DEF RecordedAs
  <2>3. at[p].seen.version + 1 <= Len(history[m]) + 1
    BY <1>2, <2>1, VersionBound
  <2>4. ExtendsBy(event, row[m], row'[m], history[m], history'[m])
    BY <1>5, <2>1, <2>2, <2>3 DEF ExtendsBy, There
  <2> QED
    BY <1>4, <2>4 DEF Extends
<1> QED
  BY <1>6, <1>7 DEF Moved, RecordedAs

\* A sweep leaves a tombstone for every row that it deletes.
LEMMA SweepMoves ==
  ASSUME TypeOK, NamesExist, HistoryExplainsRow, NEW p \in Procs, Sweep(p)
  PROVE  /\ row' \in [Mems -> Row] /\ history' \in [Mems -> Seq(Event)]
         /\ \A m \in Mems : Moved(m)
         /\ \A m \in Mems \ at[p].mem : row'[m] = row[m]
<1> DEFINE gone == {m \in at[p].mem : ~Deleted(m)}
           new  == [m \in gone |-> [row[m] EXCEPT !.version = @ + 1, !.state = "deleted"]]
<1>1. at[p].op = "batch_delete" /\ at[p] \in Locals /\ Record("DELETE", new)
  BY DEF Sweep, TypeOK, Procs
<1>2. gone \in SUBSET Mems /\ gone \subseteq at[p].mem /\ \A m \in gone : There(m)
  BY <1>1 DEF NamesExist, Locals, Adding
<1> HIDE DEF gone
<1>3. ASSUME NEW m \in gone
      PROVE  /\ new[m] \in Row /\ new[m].version = row[m].version + 1
             /\ new[m].state = "deleted"
  <2>1. row[m] \in Row
    BY <1>2 DEF TypeOK
  <2>2. new[m] = [row[m] EXCEPT !.version = @ + 1, !.state = "deleted"]
    OBVIOUS
  <2> QED
    BY <2>1, <2>2, Rewritten
<1>4. DOMAIN new = gone
  OBVIOUS
<1> HIDE DEF new
<1>5. RecordedAs("DELETE", gone, new)
  BY <1>1, <1>2, <1>3, <1>4, Recorded
<1>6. ASSUME NEW m \in gone
      PROVE  Extends(row[m], row'[m], history[m], history'[m])
  <2>1. m \in Mems /\ There(m)
    BY <1>2
  <2>2. row[m].version + 1 <= Len(history[m]) + 1
    BY <2>1, VersionBound
  <2>3. ExtendsBy("DELETE", row[m], row'[m], history[m], history'[m])
    BY <1>3, <1>5, <2>1, <2>2 DEF ExtendsBy, RecordedAs
  <2> QED
    BY <2>3 DEF Extends
<1> QED
  BY <1>2, <1>5, <1>6 DEF Moved, RecordedAs

-----------------------------------------------------------------------------
(***************************************************************************)
(* The steps of a worker.                                                  *)
(***************************************************************************)
\* The jobs differ in the status of one.
Turned(j, status) ==
  /\ job' \in [Jobs -> JobRow]
  /\ \A i \in Jobs : /\ job'[i].kind = job[i].kind /\ job'[i].mem = job[i].mem
                     /\ job'[i].items = job[i].items /\ job'[i].done = job[i].done
                     /\ job'[i].status = IF i = j THEN status ELSE job[i].status

Taken(w, j) ==
  job[j].status = "queued" /\ at'[w].job = j /\ at'[w].mem = job[j].mem /\ Turned(j, "running")

\* A job changes its status and nothing else.
LEMMA Turning ==
  ASSUME TypeOK, NEW j \in Jobs, NEW status \in {"queued", "running"},
         job' = [job EXCEPT ![j].status = status]
  PROVE  Turned(j, status)
<1>1. job \in [Jobs -> JobRow]
  BY DEF TypeOK
<1>2. job[j] \in JobRow /\ job'[j] = [job[j] EXCEPT !.status = status]
  BY <1>1
<1>3. /\ job'[j] \in JobRow /\ job'[j].status = status
      /\ job'[j].kind = job[j].kind /\ job'[j].mem = job[j].mem
      /\ job'[j].items = job[j].items /\ job'[j].done = job[j].done
  BY <1>2 DEF JobRow
<1>4. job' = [job EXCEPT ![j] = job'[j]]
  BY <1>1
<1>5. job' \in [Jobs -> JobRow] /\ \A i \in Jobs \ {j} : job'[i] = job[i]
  BY <1>1, <1>3, <1>4
<1> QED
  BY <1>3, <1>5 DEF Turned

\* A worker takes a queued job.
LEMMA TakeSteps ==
  ASSUME TypeOK, Subjects, JobsHeld, NEW w \in Workers, Take(w)
  PROVE  /\ Steps(w)
         /\ \E j \in Jobs : Taken(w, j)
         /\ at[w].stage = "idle" /\ at'[w].stage \in {"read", "list", "next"}
         /\ at'[w].op \in {"none", "reindex", "delete_all", "bulk"}
         /\ at'[w].key = NoKey /\ at'[w].item = 0
<1>1. PICK j \in Jobs :
        /\ at[w] = Idle
        /\ job[j].status = "queued"
        /\ job' = [job EXCEPT ![j].status = "running"]
        /\ at' = [at EXCEPT ![w] = [Idle EXCEPT !.job = j, !.mem = job[j].mem, !.op = job[j].kind,
                    !.stage = CASE job[j].kind = "reindex"    -> "read"
                                [] job[j].kind = "delete_all" -> "list"
                                [] OTHER                      -> "next"]]
  BY DEF Take
<1> DEFINE to == CASE job[j].kind = "reindex"    -> "read"
                   [] job[j].kind = "delete_all" -> "list"
                   [] OTHER                      -> "next"
           kind == job[j].kind
           ms   == job[j].mem
           x    == [Idle EXCEPT !.job = j, !.mem = ms, !.op = kind, !.stage = to]
<1>2. kind \in {"none", "reindex", "delete_all", "bulk"} /\ ms \in SUBSET Mems
      /\ (kind = "reindex" => \E m \in Mems : ms = {m})
  BY DEF TypeOK, JobRow, JobsHeld
<1>3. to \in {"read", "list", "next"}
  OBVIOUS
<1>4. at' = [at EXCEPT ![w] = x]
  BY <1>1
<1>5. ms = job[j].mem
  OBVIOUS
<1> HIDE DEF to, kind, ms
<1>6. /\ x \in Locals /\ x.stage = to /\ x.job = j /\ x.mem = ms /\ x.op = kind
      /\ x.key = NoKey /\ x.item = 0
  <2>1. Idle \in Locals /\ Idle.key = NoKey /\ Idle.item = 0
    BY IdleTypes DEF Idle
  <2> QED
    BY <1>2, <1>3, <2>1 DEF Locals, Stage
<1> HIDE DEF x
<1>7. at' \in [Procs -> Locals] /\ at'[w] = x /\ \A q \in Procs \ {w} : at'[q] = at[q]
  BY <1>4, <1>6, Moving DEF Procs
<1>8. Apt(x)
  BY <1>2, <1>3, <1>6 DEF Apt, Update
<1>9. Taken(w, j)
  BY <1>1, <1>5, <1>6, <1>7, Turning DEF Taken
<1>10. at[w].stage = "idle"
  BY <1>1 DEF Idle
<1> QED
  BY <1>2, <1>3, <1>6, <1>7, <1>8, <1>9, <1>10 DEF Steps

\* delete_all_memories has the active memories in hand.
LEMMA ListSteps ==
  ASSUME TypeOK, NEW w \in Workers, List(w)
  PROVE  /\ Steps(w)
         /\ at[w].stage = "list" /\ at'[w].stage = "write" /\ at'[w].op = "batch_delete"
         /\ at'[w].mem = Existing /\ at'[w].key = at[w].key
         /\ at'[w].item = at[w].item /\ at'[w].job = at[w].job
<1> DEFINE x == [at[w] EXCEPT !.stage = "write", !.op = "batch_delete", !.mem = Existing]
<1>1. at[w] \in Locals /\ Existing \in SUBSET Mems /\ at[w].stage = "list"
  BY DEF TypeOK, Existing, List
<1>2. at' = [at EXCEPT ![w] = x]
  BY DEF List, TypeOK, Locals
<1>3. /\ x \in Locals /\ x.stage = "write" /\ x.op = "batch_delete" /\ x.mem = Existing
      /\ x.key = at[w].key /\ x.item = at[w].item /\ x.job = at[w].job
  BY <1>1 DEF Locals, Stage
<1> HIDE DEF x
<1>4. at' \in [Procs -> Locals] /\ at'[w] = x /\ \A q \in Procs \ {w} : at'[q] = at[q]
  BY <1>2, <1>3, Moving DEF Procs
<1>5. Apt(x)
  BY <1>3 DEF Apt, Update
<1> QED
  BY <1>1, <1>3, <1>4, <1>5 DEF Steps

\* A set of numbers has a least one.
LEMMA LeastOf ==
  ASSUME NEW S, S \subseteq Nat, S # {}
  PROVE  \E x \in S : \A y \in S : x <= y
<1> DEFINE Below == {p \in Nat \X Nat : p[1] < p[2]}
<1>1. IsWellFoundedOn(Below, Nat)
  BY NatLessThanWellFounded DEF OpToRel
<1>2. \A x, y \in Nat : <<y, x>> \in Below <=> y < x
  OBVIOUS
<1> HIDE DEF Below
<1>3. PICK x \in S : \A y \in S : ~(<<y, x>> \in Below)
  BY <1>1, WFMin
<1>4. \A y \in S : x \in Nat /\ y \in Nat /\ ~(y < x)
  BY <1>2, <1>3
<1> QED
  BY <1>3, <1>4

\* A bulk job goes on to an item of its own.
LEMMA ItemSteps ==
  ASSUME TypeOK, Subjects, JobsHeld, NEW w \in Workers, NextItem(w)
  PROVE  /\ Steps(w)
         /\ at[w].stage = "next" /\ at'[w].stage \in {"check", "read"}
         /\ at'[w].op \in {"update", "delete"} /\ at'[w].key = at[w].key /\ at'[w].job = at[w].job
         /\ at'[w].item \in DOMAIN Task(w).items
         /\ at'[w].mem = {Task(w).items[at'[w].item].mem}
<1> DEFINE i  == CHOOSE x \in Pending(w) : \A y \in Pending(w) : x <= y
           it == Task(w).items[i]
           x  == [at[w] EXCEPT !.item = i, !.mem = {it.mem}, !.op = it.op, !.text = it.text,
                               !.stage = Entry(it.op)]
<1>1. at[w] \in Locals /\ at[w].stage = "next" /\ Pending(w) # {}
  BY DEF TypeOK, NextItem
<1>2. Task(w) \in JobRow
  BY <1>1 DEF JobsHeld, Task, TypeOK
<1>3. Task(w).items \in Seq(Item) /\ Pending(w) \subseteq DOMAIN Task(w).items
  BY <1>2 DEF JobRow, Pending
<1>4. i \in Pending(w)
  <2>1. Pending(w) \subseteq Nat
    BY <1>3
  <2>2. \E n \in Pending(w) : \A y \in Pending(w) : n <= y
    BY <1>1, <2>1, LeastOf
  <2> QED
    BY <2>2
<1>5. i \in DOMAIN Task(w).items /\ i \in Nat /\ it \in Item
  BY <1>3, <1>4
<1>6. at' = [at EXCEPT ![w] = x]
  <2>1. at' = [at EXCEPT ![w].item = i, ![w].mem = {it.mem}, ![w].op = it.op, ![w].text = it.text,
                         ![w].stage = Entry(it.op)]
    BY DEF NextItem
  <2> HIDE DEF i, it
  <2> QED
    BY <2>1 DEF TypeOK, Locals
<1>7. it = Task(w).items[i]
  OBVIOUS
<1> HIDE DEF i, it
<1>8. it.mem \in Mems /\ it.op \in {"update", "delete"} /\ it.text \in Texts \cup {NoText}
  BY <1>5 DEF Item
<1>9. Entry(it.op) \in {"check", "read"}
  BY <1>8 DEF Entry, Update
<1>10. /\ x \in Locals /\ x.stage = Entry(it.op) /\ x.op = it.op /\ x.mem = {it.mem}
       /\ x.key = at[w].key /\ x.item = i /\ x.job = at[w].job
  <2> DEFINE ms == {it.mem}
             to == Entry(it.op)
  <2>1. ms \in SUBSET Mems /\ to \in Stage
    BY <1>8, <1>9 DEF Stage
  <2> HIDE DEF ms, to
  <2>2. x = [at[w] EXCEPT !.item = i, !.mem = ms, !.op = it.op, !.text = it.text, !.stage = to]
    BY DEF ms, to
  <2>3. /\ x \in Locals /\ x.stage = to /\ x.op = it.op /\ x.mem = ms
        /\ x.key = at[w].key /\ x.item = i /\ x.job = at[w].job
    BY <1>1, <1>5, <1>8, <2>1, <2>2 DEF Locals, Update, Keyed
  <2> QED
    BY <2>3 DEF ms, to
<1> HIDE DEF x
<1>11. at' \in [Procs -> Locals] /\ at'[w] = x /\ \A q \in Procs \ {w} : at'[q] = at[q]
  BY <1>6, <1>10, Moving DEF Procs
<1>12. Apt(x)
  BY <1>8, <1>9, <1>10 DEF Apt
<1> QED
  BY <1>1, <1>5, <1>7, <1>8, <1>9, <1>10, <1>11, <1>12 DEF Steps

\* An item that fails is left, and the job goes on.
LEMMA ItemFailsSteps ==
  ASSUME TypeOK, Subjects, NEW w \in Workers, ItemFails(w)
  PROVE  /\ Steps(w)
         /\ at[w].stage \in {"check", "read", "write"} /\ at'[w].stage = "next"
         /\ at'[w].op = at[w].op /\ at'[w].mem = at[w].mem /\ at'[w].key = at[w].key
         /\ at'[w].item = at[w].item /\ at'[w].job = at[w].job
<1> DEFINE some == at[w].failed \cup {at[w].item}
           x    == [at[w] EXCEPT !.stage = "next", !.failed = some]
<1>1. at[w] \in Locals /\ at[w].stage \in {"check", "read", "write"}
  BY DEF TypeOK, ItemFails
<1>2. some \in SUBSET Nat
  BY <1>1 DEF Locals
<1>3. at' = [at EXCEPT ![w] = x]
  BY DEF ItemFails, TypeOK, Locals
<1> HIDE DEF some
<1>4. /\ x \in Locals /\ x.stage = "next" /\ x.op = at[w].op /\ x.mem = at[w].mem
      /\ x.key = at[w].key /\ x.item = at[w].item /\ x.job = at[w].job
  BY <1>1, <1>2 DEF Locals, Stage
<1> HIDE DEF x
<1>5. at' \in [Procs -> Locals] /\ at'[w] = x /\ \A q \in Procs \ {w} : at'[q] = at[q]
  BY <1>3, <1>4, Moving DEF Procs
<1>6. Apt(x)
  BY <1>1, <1>4 DEF Apt, Subjects, Procs
<1> QED
  BY <1>1, <1>4, <1>5, <1>6 DEF Steps

\* What a step of a request and of a worker come to: an end, or a move from one stage to
\* another with the same names in hand, or fewer.
Keeps(p, from, to) ==
  /\ Steps(p) /\ at[p].stage = from /\ at'[p].stage = to
  /\ at'[p].op = at[p].op /\ at'[p].mem \subseteq at[p].mem /\ at'[p].key = at[p].key
  /\ at'[p].item = at[p].item /\ at'[p].job = at[p].job

\* Going on is keeping what is in hand.
LEMMA GoKeeps ==
  ASSUME TypeOK, Subjects, NEW p \in Procs, NEW from \in Stage \ {"idle", "enqueue", "finish"},
         NEW to \in Stage \ {"idle"}, Goes(p, from, to)
  PROVE  Keeps(p, from, to)
<1> QED
  BY GoSteps DEF Keeps

ServeEffect(c) ==
  \/ Ends(c) /\ (Refuse(c) \/ Fail(c) \/ Add(c) \/ Finish(c) \/ AlreadyDeleted(c) \/ Crash(c))
  \/ Claim(c) /\ Keeps(c, "claim", Entry(at[c].op))
  \/ Check(c) /\ Keeps(c, "check", "read")
  \/ ReadRow(c) /\ Keeps(c, "read", "write") /\ at'[c].seen = row[Subject(c)]
  \/ (CreateNative(c) \/ Rewrite(c)) /\ Keeps(c, "write", "enqueue")
  \/ Write(c) /\ \E to \in {"vector", "enqueue"} : Keeps(c, "write", to)
  \/ Sweep(c) /\ Keeps(c, "write", "vector")
  \/ /\ Reindex(c) /\ \E to \in {"enqueue", "finish"} : Keeps(c, "enqueue", to)
     /\ \E m \in at[c].mem : Enqueued("reindex", {m}, <<>>)
  \/ Index(c) /\ Keeps(c, "vector", "finish") /\ job' = job

\* Every step of a request is one of these.
LEMMA Serving ==
  ASSUME TypeOK, Subjects, NEW c \in Clients, Serve(c) \/ Crash(c)
  PROVE  ServeEffect(c)
<1>1. c \in Procs /\ c \notin Workers
  BY MemoriesConstantsOK DEF Procs
<1>2. {"claim", "check", "read", "write", "vector", "enqueue", "finish"} \subseteq Stage
  BY DEF Stage
<1>3. CASE Refuse(c) \/ Fail(c) \/ Add(c) \/ Finish(c) \/ AlreadyDeleted(c) \/ Crash(c)
  <2>1. Ends(c)
    BY <1>3 DEF Refuse, Fail, Add, Finish, AlreadyDeleted, Crash
  <2> QED
    BY <1>3, <2>1 DEF ServeEffect
<1>4. CASE Claim(c)
  <2>1. Entry(at[c].op) \in Stage \ {"idle"} /\ "claim" \in Stage \ {"idle", "enqueue", "finish"}
    BY DEF Entry, Stage
  <2>2. Goes(c, "claim", Entry(at[c].op))
    BY <1>4 DEF Claim
  <2>3. Keeps(c, "claim", Entry(at[c].op))
    BY <1>1, <2>1, <2>2, GoKeeps
  <2> QED
    BY <1>4, <2>3 DEF ServeEffect
<1>5. CASE CreateNative(c) \/ Rewrite(c)
  <2>1. Goes(c, "write", "enqueue")
    BY <1>5 DEF CreateNative, Rewrite
  <2>2. Keeps(c, "write", "enqueue")
    BY <1>1, <1>2, <2>1, GoKeeps
  <2> QED
    BY <1>5, <2>2 DEF ServeEffect
<1>6. CASE Check(c)
  <2>1. Goes(c, "check", "read")
    BY <1>6 DEF Check
  <2>2. Keeps(c, "check", "read")
    BY <1>1, <1>2, <2>1, GoKeeps
  <2> QED
    BY <1>6, <2>2 DEF ServeEffect
<1>7. CASE ReadRow(c)
  <2>1. Keeps(c, "read", "write") /\ at'[c].seen = row[Subject(c)]
    BY <1>1, <1>7, ReadSteps DEF ReadRow, Keeps
  <2> QED
    BY <1>7, <2>1 DEF ServeEffect
<1>8. CASE Write(c)
  <2>1. PICK to \in {"vector", "enqueue"} : Goes(c, "write", to)
    BY <1>8 DEF Write
  <2>2. Keeps(c, "write", to)
    BY <1>1, <1>2, <2>1, GoKeeps
  <2> QED
    BY <1>8, <2>2 DEF ServeEffect
<1>9. CASE Reindex(c)
  <2>1. /\ \E to \in {"enqueue", "finish"} : Keeps(c, "enqueue", to)
        /\ \E m \in at[c].mem : Enqueued("reindex", {m}, <<>>)
    <3>1. at'[c].job = at[c].job
      BY <1>9 DEF Reindex, TypeOK, Locals
    <3> QED
      BY <1>9, <3>1, ReindexSteps DEF Keeps
  <2> QED
    BY <1>9, <2>1 DEF ServeEffect
<1>10. CASE Sweep(c)
  <2>1. Keeps(c, "write", "vector")
    BY <1>1, <1>10, SweepSteps DEF Keeps
  <2> QED
    BY <1>10, <2>1 DEF ServeEffect
<1>11. CASE Index(c)
  <2>1. Keeps(c, "vector", "finish") /\ job' = job
    BY <1>1, <1>11, IndexSteps DEF Keeps
  <2> QED
    BY <1>11, <2>1 DEF ServeEffect
<1> QED
  BY <1>3, <1>4, <1>5, <1>6, <1>7, <1>8, <1>9, <1>10, <1>11 DEF Serve

WorkEffect(w) ==
  \/ Ends(w) /\ (Done(w) \/ job' = [job EXCEPT ![at[w].job].status = "queued"])
     /\ (Index(w) \/ Finished(w) \/ Abort(w)) /\ at[w].stage # "idle"
  \/ /\ Take(w) /\ Steps(w) /\ \E j \in Jobs : Taken(w, j)
     /\ at[w].stage = "idle" /\ at'[w].stage \in {"read", "list", "next"}
     /\ at'[w].op \in {"none", "reindex", "delete_all", "bulk"}
     /\ at'[w].key = NoKey /\ at'[w].item = 0
  \/ ReadIndex(w) /\ Keeps(w, "read", "vector")
  \/ /\ List(w) /\ Steps(w)
     /\ at[w].stage = "list" /\ at'[w].stage = "write" /\ at'[w].op = "batch_delete"
     /\ at'[w].mem = Existing /\ at'[w].key = at[w].key
     /\ at'[w].item = at[w].item /\ at'[w].job = at[w].job
  \/ Sweep(w) /\ Keeps(w, "write", "vector")
  \/ /\ NextItem(w) /\ Steps(w)
     /\ at[w].stage = "next" /\ at'[w].stage \in {"check", "read"}
     /\ at'[w].op \in {"update", "delete"} /\ at'[w].key = at[w].key /\ at'[w].job = at[w].job
     /\ at'[w].item \in DOMAIN Task(w).items
     /\ at'[w].mem = {Task(w).items[at'[w].item].mem}
  \/ Check(w) /\ Keeps(w, "check", "read")
  \/ ReadRow(w) /\ Keeps(w, "read", "write") /\ at'[w].seen = row[Subject(w)]
  \/ NotFound(w) /\ at[w].item # 0 /\ \E from \in {"check", "read"} : Keeps(w, from, "result")
  \/ Write(w) /\ Keeps(w, "write", "vector")
  \/ Index(w) /\ Keeps(w, "vector", "result") /\ at[w].item # 0 /\ job' = job
  \/ Result(w) /\ Keeps(w, "result", "next")
  \/ ItemFails(w) /\ \E from \in {"check", "read", "write"} : Keeps(w, from, "next")
  \/ IndexFails(w) /\ Keeps(w, "vector", "result")

\* Every step of a worker is one of these.
LEMMA Working ==
  ASSUME TypeOK, Subjects, JobsHeld, NEW w \in Workers,
         Work(w) \/ ItemFails(w) \/ IndexFails(w) \/ Abort(w)
  PROVE  WorkEffect(w)
<1>1. w \in Procs /\ w \notin Clients
  BY MemoriesConstantsOK DEF Procs
<1>2. {"claim", "check", "read", "write", "vector", "result", "next"} \subseteq Stage
  BY DEF Stage
<1>3. CASE Take(w)
  BY <1>3, TakeSteps DEF WorkEffect
<1>4. CASE ReadIndex(w)
  <2>1. Keeps(w, "read", "vector")
    BY <1>1, <1>4, ReadSteps DEF ReadIndex, Keeps
  <2> QED
    BY <1>4, <2>1 DEF WorkEffect
<1>5. CASE List(w)
  BY <1>5, ListSteps DEF WorkEffect
<1>6. CASE Sweep(w)
  <2>1. Keeps(w, "write", "vector")
    BY <1>1, <1>6, SweepSteps DEF Keeps
  <2> QED
    BY <1>6, <2>1 DEF WorkEffect
<1>7. CASE NextItem(w)
  BY <1>7, ItemSteps DEF WorkEffect
<1>8. CASE Check(w)
  <2>1. Goes(w, "check", "read")
    BY <1>8 DEF Check
  <2>2. Keeps(w, "check", "read")
    BY <1>1, <1>2, <2>1, GoKeeps
  <2> QED
    BY <1>8, <2>2 DEF WorkEffect
<1>9. CASE ReadRow(w)
  <2>1. Keeps(w, "read", "write") /\ at'[w].seen = row[Subject(w)]
    BY <1>1, <1>9, ReadSteps DEF ReadRow, Keeps
  <2> QED
    BY <1>9, <2>1 DEF WorkEffect
<1>10. CASE NotFound(w)
  <2>1. PICK from \in {"check", "read"} : Goes(w, from, "result")
    BY <1>10 DEF NotFound
  <2>2. Keeps(w, from, "result")
    BY <1>1, <1>2, <2>1, GoKeeps
  <2>3. at[w].item # 0
    BY <1>10 DEF NotFound
  <2> QED
    BY <1>10, <2>2, <2>3 DEF WorkEffect
<1>11. CASE Write(w)
  <2>1. Goes(w, "write", "vector")
    BY <1>11 DEF Write
  <2>2. Keeps(w, "write", "vector")
    BY <1>1, <1>2, <2>1, GoKeeps
  <2> QED
    BY <1>11, <2>2 DEF WorkEffect
<1>12. CASE Index(w)
  <2>1. at[w].stage = "vector"
        /\ \/ Keeps(w, "vector", "result") /\ at[w].item # 0 /\ job' = job
           \/ Ends(w) /\ Done(w)
    BY <1>1, <1>12, IndexSteps DEF Keeps
  <2> QED
    BY <1>12, <2>1 DEF WorkEffect
<1>13. CASE Result(w)
  <2>1. Goes(w, "result", "next")
    BY <1>13 DEF Result
  <2>2. Keeps(w, "result", "next")
    BY <1>1, <1>2, <2>1, GoKeeps
  <2> QED
    BY <1>13, <2>2 DEF WorkEffect
<1>14. CASE Finished(w)
  <2>1. Ends(w) /\ Done(w) /\ at[w].stage = "next"
    BY <1>14 DEF Finished
  <2> QED
    BY <1>14, <2>1 DEF WorkEffect
<1>15. CASE ItemFails(w)
  <2>1. \E from \in {"check", "read", "write"} : Keeps(w, from, "next")
    BY <1>15, ItemFailsSteps DEF Keeps
  <2> QED
    BY <1>15, <2>1 DEF WorkEffect
<1>16. CASE IndexFails(w)
  <2>1. Goes(w, "vector", "result")
    BY <1>16 DEF IndexFails
  <2>2. Keeps(w, "vector", "result")
    BY <1>1, <1>2, <2>1, GoKeeps
  <2> QED
    BY <1>16, <2>2 DEF WorkEffect
<1>17. CASE Abort(w)
  <2>1. Ends(w) /\ job' = [job EXCEPT ![at[w].job].status = "queued"] /\ at[w] # Idle
    BY <1>17 DEF Abort
  <2>2. at[w].stage # "idle"
    BY <1>1, <2>1 DEF Subjects, Apt
  <2> QED
    BY <1>17, <2>1, <2>2 DEF WorkEffect
<1> QED
  BY <1>3, <1>4, <1>5, <1>6, <1>7, <1>8, <1>9, <1>10, <1>11, <1>12, <1>13, <1>14, <1>15, <1>16,
     <1>17 DEF Work

-----------------------------------------------------------------------------
(***************************************************************************)
(* What a step of one process keeps of the rows and of the names.          *)
(***************************************************************************)
\* A step of a request or of a worker.
Turn(p) ==
  \/ p \in Clients /\ (Ask(p) \/ Serve(p) \/ Crash(p))
  \/ p \in Workers /\ (Work(p) \/ ItemFails(p) \/ IndexFails(p) \/ Abort(p))

\* Rows are written by five steps, and only those that the process has in hand.
LEMMA Writing ==
  ASSUME TypeOK, NamesExist, SeenBefore, HistoryExplainsRow, NEW p \in Procs, Turn(p)
  PROVE  /\ row' \in [Mems -> Row] /\ history' \in [Mems -> Seq(Event)]
         /\ \A m \in Mems : Moved(m)
         /\ \A m \in Mems \ at[p].mem : row'[m] = row[m]
<1>1. CASE p \in Clients /\ (Add(p) \/ CreateNative(p))
  BY <1>1, AddMoves
<1>2. CASE p \in Clients /\ Rewrite(p)
  BY <1>2, RewriteMoves
<1>3. CASE Write(p)
  BY <1>3, WriteMoves
<1>4. CASE Sweep(p)
  BY <1>4, SweepMoves
<1>5. ASSUME UNCHANGED <<row, history>>
      PROVE  /\ row' \in [Mems -> Row] /\ history' \in [Mems -> Seq(Event)]
             /\ \A m \in Mems : Moved(m)
             /\ \A m \in Mems \ at[p].mem : row'[m] = row[m]
  BY <1>5 DEF TypeOK, Moved
<1>6. CASE Ask(p)
  <2>1. UNCHANGED <<row, history>>
    BY <1>6 DEF Ask, AskAdd, AskCreate, AskUpdate, AskCategorize, AskDelete, AskBatchUpdate,
         AskBatchDelete, DeleteAll, Bulk, Asks
  <2> QED
    BY <1>5, <2>1
<1>7. CASE \/ Claim(p) \/ Refuse(p) \/ Fail(p) \/ Reindex(p) \/ Finish(p) \/ Check(p) \/ ReadRow(p)
           \/ AlreadyDeleted(p) \/ Index(p) \/ Crash(p)
  <2>1. UNCHANGED <<row, history>>
    BY <1>7 DEF Claim, Refuse, Fail, Reindex, Finish, Check, ReadRow, AlreadyDeleted, Index, Crash
  <2> QED
    BY <1>5, <2>1
<1>8. CASE \/ Take(p) \/ ReadIndex(p) \/ List(p) \/ NextItem(p) \/ NotFound(p) \/ Result(p)
           \/ Finished(p) \/ ItemFails(p) \/ IndexFails(p) \/ Abort(p)
  <2>1. UNCHANGED <<row, history>>
    BY <1>8 DEF Take, ReadIndex, List, NextItem, NotFound, Result, Finished, ItemFails, IndexFails,
         Abort
  <2> QED
    BY <1>5, <2>1
<1> QED
  BY <1>1, <1>2, <1>3, <1>4, <1>6, <1>7, <1>8 DEF Turn, Serve, Work

\* What is in hand stays apt when one process steps.
LEMMA SubjectsKept ==
  ASSUME Subjects, NEW p \in Procs, Steps(p)
  PROVE  Subjects'
<1> QED
  BY DEF Subjects, Steps

\* What a process may take in hand.
Names(p) ==
  /\ ~Adding(p)' => \A m \in at'[p].mem : There(m)'
  /\ Adding(p)' => \A m \in at'[p].mem :
       row'[m] = Absent /\ \A q \in Procs \ {p} : Adding(q) => m \notin at[q].mem

\* What jobs name is there.
Named(j) ==
  (\A m \in job[j].mem : There(m)) /\ \A i \in DOMAIN job[j].items : There(job[j].items[i].mem)

JobNames == \A j \in Jobs : Named(j)

\* Names stay in existence when one process steps.
LEMMA NamesKept ==
  ASSUME TypeOK, NamesExist, NEW p \in Procs, Steps(p), Names(p), JobNames',
         \A m \in Mems : There(m) => There(m)',
         \A m \in Mems \ at[p].mem : row'[m] = row[m]
  PROVE  NamesExist'
<1>1. \A q \in Procs \ {p} : at'[q] = at[q] /\ (Adding(q)' <=> Adding(q))
  BY DEF Steps, Adding
<1>2. \A q \in Procs : at[q].mem \subseteq Mems
  BY DEF TypeOK, Procs, Locals
<1>3. \A q \in Procs : ~Adding(q)' => \A m \in at'[q].mem : There(m)'
  BY <1>1, <1>2 DEF NamesExist, Names
<1>4. ASSUME NEW q \in Procs, Adding(q)', NEW m \in at'[q].mem
      PROVE  row'[m] = Absent
  <2>1. CASE q = p
    BY <1>4, <2>1 DEF Names
  <2>2. CASE q # p
    <3>1. Adding(q) /\ m \in at[q].mem /\ m \in Mems /\ row[m] = Absent
      BY <1>1, <1>2, <1>4, <2>2 DEF NamesExist
    <3>2. ~There(m)
      BY <3>1 DEF There, Absent
    <3>3. m \notin at[p].mem
      BY <2>2, <3>1, <3>2 DEF NamesExist
    <3> QED
      BY <3>1, <3>3
  <2> QED
    BY <2>1, <2>2
<1>5. \A q, r \in Procs : q # r /\ Adding(q)' /\ Adding(r)' => at'[q].mem \cap at'[r].mem = {}
  BY <1>1 DEF NamesExist, Names
<1> QED
  BY <1>3, <1>4, <1>5 DEF NamesExist, JobNames, Named

\* The version that is read is the row's.
Sees(p) ==
  at'[p].stage = "write" /\ at'[p].op \in Update \cup {"delete"} =>
    \A m \in at'[p].mem : at'[p].seen.version <= Len(history[m])

\* Versions that were read stay behind the history when one process steps.
LEMMA SeenKept ==
  ASSUME TypeOK, Subjects, SeenBefore, NEW p \in Procs, Steps(p), Sees(p),
         history' \in [Mems -> Seq(Event)],
         \A m \in Mems : Len(history[m]) <= Len(history'[m])
  PROVE  SeenBefore'
<1> SUFFICES ASSUME NEW q \in Procs, at'[q].stage = "write", at'[q].op \in Update \cup {"delete"},
                    NEW m \in at'[q].mem
             PROVE  at'[q].seen.version <= Len(history'[m])
  BY DEF SeenBefore
<1>1. m \in Mems /\ at'[q].seen.version \in Nat
  BY DEF Steps, Locals, Row
<1>2. at'[q].seen.version <= Len(history[m])
  BY DEF Sees, SeenBefore, Steps
<1>3. Len(history[m]) \in Nat /\ Len(history'[m]) \in Nat
  BY <1>1 DEF TypeOK
<1> QED
  BY <1>1, <1>2, <1>3

\* A step that keeps what is in hand.
LEMMA KeptNames ==
  ASSUME TypeOK, NamesExist, NEW p \in Procs, NEW from, NEW to, Keeps(p, from, to),
         Adding(p) <=> Adding(p)', row' = row
  PROVE  Names(p)
<1>1. at'[p].mem \subseteq at[p].mem
  BY DEF Keeps
<1>2. ~Adding(p)' => \A m \in at'[p].mem : There(m)'
  BY <1>1 DEF NamesExist, There
<1>3. Adding(p)' => \A m \in at'[p].mem :
        row'[m] = Absent /\ \A q \in Procs \ {p} : Adding(q) => m \notin at[q].mem
  BY <1>1 DEF NamesExist
<1> QED
  BY <1>2, <1>3 DEF Names

\* The rows that a request names, as it is asked and as it is served.
LEMMA AskedNames ==
  ASSUME TypeOK, JobsHeld, NamesExist, NEW c \in Clients, NEW op \in Requested,
         NEW ms \in SUBSET Mems, NEW k \in Keys \cup {NoKey}, Asked(c, op, ms, k)
  PROVE  Steps(c) /\ Names(c) /\ Sees(c) /\ job' = job
<1>1. /\ at' \in [Procs -> Locals] /\ \A q \in Procs \ {c} : at'[q] = at[q]
      /\ at'[c].op = op /\ at'[c].mem = ms
      /\ at'[c].stage = (IF k = NoKey THEN Entry(op) ELSE "claim")
      /\ row' = row /\ job' = job
  BY DEF Asked
<1>2. op \in Update \cup {"delete"} => \E m \in Mems : ms = {m}
  BY DEF Asked
<1>3. /\ op \in Update \cup {"delete"} => at'[c].stage \in {"claim", "check", "read"}
      /\ op \notin Update \cup {"delete"} => at'[c].stage \in {"claim", "write"}
  BY <1>1 DEF Entry, Update
<1>4. Steps(c)
  BY <1>1, <1>2, <1>3 DEF Steps, Apt, Requested, Update
<1>5. Sees(c)
  BY <1>1, <1>3 DEF Sees
<1>6. Adding(c)' <=> op \in {"add", "create"}
  BY <1>1, <1>3 DEF Adding, Update
<1>7. CASE op \in {"add", "create"}
  <2>1. PICK m \in Fresh : ms = {m}
    BY <1>7 DEF Asked
  <2>2. row[m] = Absent /\ \A d \in Clients : m \notin at[d].mem
    BY <2>1 DEF Fresh
  <2>3. \A q \in Procs : Adding(q) => q \in Clients
    BY DEF JobsHeld, Adding, Procs
  <2> QED
    BY <1>1, <1>4, <1>5, <1>6, <1>7, <2>1, <2>2, <2>3 DEF Names
<1>8. CASE op \notin {"add", "create"}
  <2>1. \A m \in ms : There(m)
    BY <1>8 DEF Asked, Existing, Active, There
  <2>2. Names(c)
    BY <1>1, <1>6, <1>8, <2>1 DEF Names, There
  <2> QED
    BY <1>1, <1>4, <1>5, <2>2
<1> QED
  BY <1>7, <1>8

\* A process that is done names nothing.
LEMMA EndedNames ==
  ASSUME TypeOK, NEW p \in Procs, Ends(p)
  PROVE  Steps(p) /\ Names(p) /\ Sees(p)
<1>1. Steps(p) /\ at'[p].mem = {} /\ at'[p].stage = "idle"
  BY EndSteps, Ending
<1> QED
  BY <1>1 DEF Names, Sees, Adding

\* A reader has the version of its memory in hand, which is not ahead of the history.
LEMMA ReadSees ==
  ASSUME TypeOK, Subjects, NamesExist, HistoryExplainsRow, NEW p \in Procs, ReadRow(p),
         Keeps(p, "read", "write"), at'[p].seen = row[Subject(p)]
  PROVE  Sees(p)
<1>1. at[p].op \in Update \cup {"delete"} /\ at[p].stage = "read"
  BY DEF ReadRow
<1>2. Subject(p) \in Mems /\ at[p].mem = {Subject(p)}
  BY <1>1, SubjectIs
<1>3. There(Subject(p))
  BY <1>1, <1>2 DEF NamesExist, Adding, Update
<1>4. row[Subject(p)].version <= Len(history[Subject(p)])
  BY <1>2, <1>3, VersionBound
<1> QED
  BY <1>2, <1>4 DEF Sees, Keeps

\* A request that is served names what is there, and reads no version ahead of the history.
LEMMA ServedNames ==
  ASSUME TypeOK, Subjects, NamesExist, SeenBefore, HistoryExplainsRow, NEW c \in Clients,
         Serve(c) \/ Crash(c)
  PROVE  Steps(c) /\ Names(c) /\ Sees(c)
<1>1. ServeEffect(c) /\ c \in Procs
  BY Serving DEF Procs
<1>2. CASE Ends(c)
  BY <1>1, <1>2, EndedNames
<1>3. CASE Claim(c) /\ Keeps(c, "claim", Entry(at[c].op))
  <2>1. row' = row
    BY <1>3 DEF Claim
  <2>2. Adding(c) <=> Adding(c)'
    BY <1>3 DEF Keeps, Adding, Entry, Update
  <2>3. Sees(c)
    BY <1>3 DEF Keeps, Sees, Entry, Update
  <2> QED
    BY <1>1, <1>3, <2>1, <2>2, <2>3, KeptNames DEF Keeps
<1>4. CASE Check(c) /\ Keeps(c, "check", "read")
  <2>1. row' = row
    BY <1>4 DEF Check
  <2>2. (Adding(c) <=> Adding(c)') /\ Sees(c)
    BY <1>4 DEF Keeps, Adding, Sees
  <2> QED
    BY <1>1, <1>4, <2>1, <2>2, KeptNames DEF Keeps
<1>5. CASE ReadRow(c) /\ Keeps(c, "read", "write") /\ at'[c].seen = row[Subject(c)]
  <2>1. row' = row
    BY <1>5 DEF ReadRow
  <2>2. Adding(c) <=> Adding(c)'
    BY <1>5 DEF Keeps, Adding, ReadRow, Update
  <2> QED
    BY <1>1, <1>5, <2>1, <2>2, KeptNames, ReadSees DEF Keeps
<1>6. ASSUME NEW from, NEW to, Keeps(c, from, to), to \in {"enqueue", "vector", "finish"},
             \A m \in Mems : There(m) => There(m)',
             Adding(c) => \A m \in at[c].mem : There(m)'
      PROVE  Steps(c) /\ Names(c) /\ Sees(c)
  <2>1. ~Adding(c)' /\ Sees(c)
    BY <1>6 DEF Keeps, Adding, Sees
  <2>2. \A m \in at[c].mem : There(m)'
    BY <1>1, <1>6 DEF NamesExist, TypeOK, Procs, Locals
  <2> QED
    BY <1>6, <2>1, <2>2 DEF Keeps, Names
<1>7. \A m \in Mems : There(m) => There(m)'
  BY <1>1, Writing, HistoryFollows DEF Turn
<1>8. CASE CreateNative(c) /\ Keeps(c, "write", "enqueue")
  BY <1>6, <1>7, <1>8, AddMoves
<1>9. CASE /\ Rewrite(c) \/ Write(c) \/ Sweep(c) \/ Reindex(c) \/ Index(c)
           /\ \E from, to \in Stage : Keeps(c, from, to) /\ to \in {"enqueue", "vector", "finish"}
  <2>1. ~Adding(c)
    BY <1>9 DEF Rewrite, Write, Sweep, Reindex, Index, Adding, Update
  <2> QED
    BY <1>6, <1>7, <1>9, <2>1
<1>10. {"write", "vector", "enqueue", "finish"} \subseteq Stage
  BY DEF Stage
<1> QED
  BY <1>1, <1>2, <1>3, <1>4, <1>5, <1>8, <1>9, <1>10 DEF ServeEffect

\* So does a worker.
LEMMA WorkedNames ==
  ASSUME TypeOK, Subjects, JobsHeld, NamesExist, SeenBefore, HistoryExplainsRow, NEW w \in Workers,
         Work(w) \/ ItemFails(w) \/ IndexFails(w) \/ Abort(w)
  PROVE  Steps(w) /\ Names(w) /\ Sees(w)
<1>1. WorkEffect(w) /\ w \in Procs /\ ~Adding(w)
  BY Working DEF Procs, JobsHeld, Adding
<1>2. \A m \in Mems : There(m) => There(m)'
  BY Writing, HistoryFollows, <1>1 DEF Turn
<1>3. \A m \in at[w].mem : m \in Mems /\ There(m)
  BY <1>1 DEF NamesExist, TypeOK, Procs, Locals
<1>4. CASE Ends(w)
  BY <1>1, <1>4, EndedNames
<1>5. ASSUME NEW from, NEW to, Keeps(w, from, to), to = "write" => Sees(w)
      PROVE  Steps(w) /\ Names(w) /\ Sees(w)
  <2>1. ~Adding(w)' /\ \A m \in at'[w].mem : There(m)'
    BY <1>1, <1>2, <1>3, <1>5 DEF Keeps, Adding, JobsHeld
  <2>2. Sees(w)
    BY <1>5 DEF Keeps, Sees
  <2> QED
    BY <1>5, <2>1, <2>2 DEF Keeps, Names
<1>6. CASE /\ Take(w) /\ Steps(w) /\ \E j \in Jobs : Taken(w, j)
           /\ at'[w].stage \in {"read", "list", "next"}
           /\ at'[w].op \in {"none", "reindex", "delete_all", "bulk"}
  <2>1. PICK j \in Jobs : at'[w].mem = job[j].mem
    BY <1>6 DEF Taken
  <2>2. \A m \in at'[w].mem : There(m)'
    BY <1>2, <2>1 DEF NamesExist, TypeOK, JobRow
  <2>3. ~Adding(w)' /\ Sees(w)
    BY <1>6 DEF Adding, Sees
  <2> QED
    BY <1>6, <2>2, <2>3 DEF Names
<1>7. CASE List(w) /\ Steps(w) /\ at'[w].op = "batch_delete" /\ at'[w].mem = Existing
  <2>1. \A m \in at'[w].mem : There(m)'
    BY <1>2, <1>7 DEF Existing, Active, There
  <2>2. ~Adding(w)' /\ Sees(w)
    BY <1>7 DEF Adding, Sees, Update
  <2> QED
    BY <1>7, <2>1, <2>2 DEF Names
<1>8. CASE /\ NextItem(w) /\ Steps(w)
           /\ at[w].stage = "next" /\ at'[w].stage \in {"check", "read"}
           /\ at'[w].op \in {"update", "delete"}
           /\ at'[w].item \in DOMAIN Task(w).items
           /\ at'[w].mem = {Task(w).items[at'[w].item].mem}
  <2>1. at[w].job \in Jobs
    BY <1>8 DEF JobsHeld
  <2>2. There(Task(w).items[at'[w].item].mem)
    BY <1>8, <2>1 DEF NamesExist, Task
  <2>3. Task(w).items[at'[w].item].mem \in Mems
    <3>1. at'[w].mem \subseteq Mems
      BY <1>1, <1>8 DEF Steps, Locals
    <3> QED
      BY <1>8, <3>1
  <2>4. ~Adding(w)' /\ Sees(w)
    BY <1>8 DEF Adding, Sees
  <2> QED
    BY <1>2, <1>8, <2>2, <2>3, <2>4 DEF Names
<1>9. CASE ReadRow(w) /\ Keeps(w, "read", "write") /\ at'[w].seen = row[Subject(w)]
  BY <1>1, <1>5, <1>9, ReadSees
<1>10. CASE \E from, to \in Stage : Keeps(w, from, to) /\ to # "write"
  BY <1>5, <1>10
<1>11. {"check", "read", "write", "vector", "result", "next"} \subseteq Stage
  BY DEF Stage
<1> QED
  BY <1>1, <1>4, <1>6, <1>7, <1>8, <1>9, <1>10, <1>11 DEF WorkEffect

-----------------------------------------------------------------------------
(***************************************************************************)
(* The jobs.                                                               *)
(***************************************************************************)
JobTypes ==
  job \in [Jobs -> JobRow] /\ \A j \in Jobs : job[j].done \subseteq DOMAIN job[j].items

\* What the jobs name are memories.
LEMMA ItemNames ==
  /\ \A items \in Seq(Item) : \A i \in DOMAIN items : items[i].mem \in Mems
  /\ TypeOK => \A j \in Jobs : /\ job[j].mem \subseteq Mems
                              /\ \A i \in DOMAIN job[j].items : job[j].items[i].mem \in Mems
<1>1. \A items \in Seq(Item) : \A i \in DOMAIN items : items[i] \in Item
  OBVIOUS
<1>2. \A items \in Seq(Item) : \A i \in DOMAIN items : items[i].mem \in Mems
  BY <1>1 DEF Item
<1>3. TypeOK => \A j \in Jobs : job[j].mem \subseteq Mems /\ job[j].items \in Seq(Item)
  BY DEF TypeOK, JobRow
<1> QED
  BY <1>2, <1>3

\* A request leaves the jobs as they are, or enqueues one.
LEMMA ServedJobs ==
  ASSUME TypeOK, Subjects, JobsHeld, NamesExist, NEW c \in Clients,
         Serve(c) \/ Crash(c) \/ DeleteAll(c) \/ Bulk(c),
         \A m \in Mems : There(m) => There(m)'
  PROVE  JobsStay /\ JobNames'
<1>1. ASSUME job' = job PROVE JobsStay /\ JobNames'
  <2>1. JobNames'
    BY <1>1, ItemNames DEF JobNames, NamesExist, Named, There
  <2> QED
    BY <1>1, <2>1 DEF JobsStay
<1>2. ASSUME NEW kind \in {"reindex", "delete_all", "bulk"}, NEW ms \in SUBSET Mems,
             NEW items \in Seq(Item), Enqueued(kind, ms, items),
             kind = "reindex" => \E m \in Mems : ms = {m},
             \A m \in ms : There(m), \A i \in DOMAIN items : There(items[i].mem)
      PROVE  JobsStay /\ JobNames'
  <2>1. PICK j \in Jobs : Placed(j, kind, ms, items)
    BY <1>2, Enqueuing
  <2>2. \A i \in DOMAIN items : items[i].mem \in Mems
    BY ItemNames
  <2>3. \A i \in Jobs \ {j} : job[i].mem \subseteq Mems /\ \A n \in DOMAIN job[i].items : job[i].items[n].mem \in Mems
    BY ItemNames
  <2>4. \A i \in Jobs \ {j} : Named(i)'
    BY <2>1, <2>3 DEF Placed, NamesExist, Named, There
  <2>5. Named(j)'
    BY <1>2, <2>1, <2>2 DEF Placed, Named, There
  <2>6. JobNames'
    BY <2>4, <2>5 DEF JobNames
  <2> QED
    BY <1>2, <2>6 DEF JobsStay
<1>3. CASE DeleteAll(c)
  <2>1. <<>> \in Seq(Item) /\ DOMAIN <<>> = {} /\ Enqueued("delete_all", {}, <<>>)
    BY <1>3 DEF DeleteAll
  <2> QED
    BY <1>2, <2>1
<1>4. CASE Bulk(c)
  <2>1. PICK items \in BulkItems :
          (\A i \in DOMAIN items : items[i].mem \in Existing) /\ Enqueued("bulk", {}, items)
    BY <1>4 DEF Bulk
  <2>2. items \in Seq(Item) /\ \A i \in DOMAIN items : There(items[i].mem)
    BY <2>1, MemoriesConstantsOK DEF Existing, Active, There
  <2> QED
    BY <1>2, <2>1, <2>2
<1>5. CASE Reindex(c)
  <2>1. PICK m \in at[c].mem : Enqueued("reindex", {m}, <<>>)
    BY <1>5 DEF Reindex
  <2>2. ~Adding(c) /\ at[c].mem \subseteq Mems
    BY <1>5 DEF Reindex, Adding, TypeOK, Locals
  <2>3. m \in Mems /\ There(m)
    BY <2>1, <2>2 DEF NamesExist, Procs
  <2>4. <<>> \in Seq(Item) /\ DOMAIN <<>> = {}
    OBVIOUS
  <2> QED
    BY <1>2, <2>1, <2>3, <2>4
<1>6. CASE Index(c)
  <2>1. job' = job
    BY <1>6, MemoriesConstantsOK DEF Index
  <2> QED
    BY <1>1, <2>1
<1>7. CASE \/ Claim(c) \/ Refuse(c) \/ Fail(c) \/ Add(c) \/ CreateNative(c) \/ Rewrite(c) \/ Finish(c)
           \/ Check(c) \/ ReadRow(c) \/ AlreadyDeleted(c) \/ Write(c) \/ Sweep(c) \/ Crash(c)
  <2>1. job' = job
    BY <1>7 DEF Claim, Refuse, Fail, Add, CreateNative, Rewrite, Finish, Check, ReadRow,
         AlreadyDeleted, Write, Sweep, Crash
  <2> QED
    BY <1>1, <2>1
<1> QED
  BY <1>3, <1>4, <1>5, <1>6, <1>7 DEF Serve

\* A worker, and the job that it runs.
Fits(w) ==
  /\ at[w].stage # "idle" => at[w].job \in Jobs /\ Task(w).status = "running"
  /\ at[w].stage = "result" => at[w].item # 0
  /\ at[w].stage = "list" => at[w].item = 0
  /\ at[w].item # 0 => at[w].item \in DOMAIN Task(w).items /\ at[w].op \in {"update", "delete"}
  /\ at[w].op \notin {"add", "create"}

\* The jobs of the other workers stay theirs.
Apart(w) ==
  \A v \in Workers \ {w} : at[v].stage # "idle" =>
    /\ job'[at[v].job].status = "running" /\ job'[at[v].job].items = job[at[v].job].items
    /\ at'[w].stage # "idle" => at'[w].job # at[v].job

\* Jobs stay the workers' own when one worker steps.
LEMMA HeldKept ==
  ASSUME TypeOK, Subjects, JobsHeld, NEW w \in Workers, Steps(w), Fits(w)', Apart(w),
         \A j \in Jobs : job'[j].kind = "reindex" => \E m \in Mems : job'[j].mem = {m}
  PROVE  JobsHeld'
<1>1. \A v \in Workers \ {w} : at'[v] = at[v]
  BY DEF Steps, Procs
<1>2. \A v \in Workers \ {w} : at[v].item # 0 => at[v].stage # "idle"
  BY DEF Subjects, Apt, Idle, Procs
<1>3. \A v \in Workers \ {w} : Fits(v)'
  BY <1>1, <1>2 DEF Apart, Fits, JobsHeld, Task
<1>4. \A u, v \in Workers :
        u # v /\ at'[u].stage # "idle" /\ at'[v].stage # "idle" => at'[u].job # at'[v].job
  BY <1>1 DEF Apart, JobsHeld
<1> QED
  BY <1>3, <1>4 DEF JobsHeld, Fits

\* The jobs that a worker's step leaves: as they were, in another state, with more done or
\* freed, or with one more.
LEMMA TurnedJobs ==
  ASSUME TypeOK, Subjects, JobsHeld, NamesExist, NEW j \in Jobs, NEW status, Turned(j, status),
         \A m \in Mems : There(m) => There(m)'
  PROVE  /\ JobTypes' /\ JobNames'
         /\ \A i \in Jobs : job'[i].kind = "reindex" => \E m \in Mems : job'[i].mem = {m}
<1>1. JobTypes'
  BY DEF Turned, JobTypes, TypeOK
<1>2. JobNames'
  BY ItemNames DEF Turned, JobNames, Named, NamesExist, There
<1>3. \A i \in Jobs : job'[i].kind = "reindex" => \E m \in Mems : job'[i].mem = {m}
  BY DEF Turned, JobsHeld
<1> QED
  BY <1>1, <1>2, <1>3

\* Jobs that are not touched.
LEMMA SameJobs ==
  ASSUME TypeOK, Subjects, JobsHeld, NamesExist, job' = job,
         \A m \in Mems : There(m) => There(m)'
  PROVE  /\ JobTypes' /\ JobNames'
         /\ \A i \in Jobs : job'[i].kind = "reindex" => \E m \in Mems : job'[i].mem = {m}
<1>1. JobTypes'
  BY DEF JobTypes, TypeOK
<1>2. JobNames'
  BY ItemNames DEF JobNames, Named, NamesExist, There
<1> QED
  BY <1>1, <1>2 DEF JobsHeld

\* A worker that ends frees its job, or queues it again.
LEMMA EndedJobs ==
  ASSUME TypeOK, Subjects, JobsHeld, NamesExist, NEW w \in Workers, at[w].stage # "idle", Ends(w),
         Done(w) \/ job' = [job EXCEPT ![at[w].job].status = "queued"],
         \A m \in Mems : There(m) => There(m)'
  PROVE  JobsHeld' /\ JobTypes' /\ JobNames'
<1>0. PICK j \in Jobs : j = at[w].job
  BY DEF JobsHeld
<1>1. Steps(w) /\ at'[w].stage = "idle" /\ at'[w].item = 0 /\ at'[w].op = "none"
  BY EndSteps, Ending DEF Procs
<1>2. Fits(w)'
  BY <1>1 DEF Fits
<1>3. ASSUME \A i \in Jobs \ {j} : job'[i] = job[i]
      PROVE  Apart(w)
  BY <1>0, <1>1, <1>3 DEF Apart, JobsHeld, Task
<1>4. CASE Done(w)
  <2>1. job' = [job EXCEPT ![j] = Free]
    BY <1>0, <1>4 DEF Done
  <2>2. job' \in [Jobs -> JobRow] /\ job'[j] = Free /\ \A i \in Jobs \ {j} : job'[i] = job[i]
    BY <1>1, <2>1, IdleTypes DEF TypeOK
  <2>3. Free.kind = "none" /\ Free.mem = {} /\ Free.items = <<>> /\ Free.done = {}
    BY DEF Free
  <2>4. DOMAIN <<>> = {}
    OBVIOUS
  <2>5. JobTypes'
    BY <2>2, <2>3, <2>4 DEF JobTypes, TypeOK
  <2>6. \A i \in Jobs \ {j} : Named(i)'
    BY <2>2, ItemNames DEF Named, NamesExist, There
  <2>7. Named(j)'
    BY <2>2, <2>3, <2>4 DEF Named
  <2>8. JobNames'
    BY <2>6, <2>7 DEF JobNames
  <2>9. \A i \in Jobs : job'[i].kind = "reindex" => \E m \in Mems : job'[i].mem = {m}
    BY <2>2, <2>3 DEF JobsHeld
  <2> QED
    BY <1>1, <1>2, <1>3, <2>2, <2>5, <2>8, <2>9, HeldKept
<1>5. CASE job' = [job EXCEPT ![j].status = "queued"]
  <2>1. Turned(j, "queued")
    BY <1>1, <1>5, Turning
  <2>2. \A i \in Jobs \ {j} : job'[i] = job[i]
    BY <1>5 DEF TypeOK
  <2> QED
    BY <1>1, <1>2, <1>3, <2>1, <2>2, TurnedJobs, HeldKept
<1> QED
  BY <1>0, <1>4, <1>5

\* A worker that keeps its job runs it alone.
LEMMA KeptJobs ==
  ASSUME TypeOK, Subjects, JobsHeld, NEW w \in Workers, NEW from, NEW to, Keeps(w, from, to),
         from # "idle", to # "list", to = "result" => at[w].item # 0,
         \A j \in Jobs : job[j].status # "free" =>
           job'[j].status = job[j].status /\ job'[j].items = job[j].items
  PROVE  Fits(w)' /\ Apart(w)
<1>1. at[w].stage = from /\ at'[w].job = at[w].job /\ at'[w].item = at[w].item
      /\ at'[w].stage = to /\ at'[w].op = at[w].op
  BY DEF Keeps
<1>2. \A v \in Workers : at[v].stage # "idle" =>
        /\ at[v].job \in Jobs /\ job'[at[v].job].status = "running"
        /\ job'[at[v].job].items = job[at[v].job].items
  BY DEF JobsHeld, Task
<1>3. Fits(w)'
  BY <1>1, <1>2 DEF Fits, JobsHeld, Task
<1>4. Apart(w)
  BY <1>1, <1>2 DEF Apart, JobsHeld
<1> QED
  BY <1>3, <1>4

\* The progress of a job stays within its items.
LEMMA ResultJobs ==
  ASSUME TypeOK, Subjects, JobsHeld, NamesExist, NEW w \in Workers, Result(w),
         Keeps(w, "result", "next"), \A m \in Mems : There(m) => There(m)'
  PROVE  JobsHeld' /\ JobTypes' /\ JobNames'
<1>1. PICK j \in Jobs : j = at[w].job
  BY DEF JobsHeld, Keeps
<1>2. PICK i \in DOMAIN job[j].items : i = at[w].item
  BY <1>1 DEF JobsHeld, Keeps, Task
<1>3. job[j] \in JobRow /\ job[j].items \in Seq(Item)
  BY DEF TypeOK, JobRow
<1>4. DOMAIN job[j].items \subseteq Nat
  BY <1>3
<1> DEFINE more == job[j].done \cup {i}
<1>5. more \in SUBSET Nat /\ more \subseteq DOMAIN job[j].items
  BY <1>3, <1>4 DEF TypeOK, JobRow
<1>6. job' = [job EXCEPT ![j].done = more]
  BY <1>1, <1>2 DEF Result
<1> HIDE DEF more
<1>7. /\ job' \in [Jobs -> JobRow] /\ job'[j].done = more
      /\ \A n \in Jobs \ {j} : job'[n] = job[n]
      /\ job'[j].kind = job[j].kind /\ job'[j].mem = job[j].mem /\ job'[j].items = job[j].items
      /\ job'[j].status = job[j].status
  BY <1>5, <1>6 DEF TypeOK, JobRow
<1>8. JobTypes'
  BY <1>5, <1>7 DEF JobTypes, TypeOK
<1>9. JobNames'
  BY <1>7, ItemNames DEF JobNames, Named, NamesExist, There
<1>10. Fits(w)' /\ Apart(w)
  BY <1>7, KeptJobs
<1>11. \A n \in Jobs : job'[n].kind = "reindex" => \E m \in Mems : job'[n].mem = {m}
  BY <1>7 DEF JobsHeld
<1>12. Steps(w)
  BY DEF Keeps
<1> QED
  BY <1>8, <1>9, <1>10, <1>11, <1>12, HeldKept

\* A vector that failed is left to a new job.
LEMMA IndexFailsJobs ==
  ASSUME TypeOK, Subjects, JobsHeld, NamesExist, NEW w \in Workers, IndexFails(w),
         Keeps(w, "vector", "result"), \A m \in Mems : There(m) => There(m)'
  PROVE  JobsHeld' /\ JobTypes' /\ JobNames'
<1>1. at[w].item # 0 /\ Enqueued("reindex", at[w].mem, <<>>) /\ at[w].stage = "vector"
  BY DEF IndexFails, Keeps
<1>2. w \in Procs /\ ~Adding(w) /\ at[w] \in Locals
  BY DEF Procs, JobsHeld, Adding, TypeOK
<1>3. at[w].mem \in SUBSET Mems /\ \A m \in at[w].mem : There(m)
  BY <1>2 DEF NamesExist, Locals
<1>4. <<>> \in Seq(Item) /\ DOMAIN <<>> = {}
  OBVIOUS
<1>5. PICK j \in Jobs : Placed(j, "reindex", at[w].mem, <<>>)
  BY <1>1, <1>3, <1>4, Enqueuing
<1>6. job' \in [Jobs -> JobRow]
  BY <1>1, <1>3, <1>4, Enqueuing
<1>7. JobTypes'
  BY <1>4, <1>5, <1>6 DEF JobTypes, TypeOK, Placed
<1>8. \A i \in Jobs \ {j} : Named(i)'
  BY <1>5, ItemNames DEF Placed, Named, NamesExist, There
<1>9. Named(j)'
  BY <1>3, <1>4, <1>5 DEF Placed, Named, There
<1>10. JobNames'
  BY <1>8, <1>9 DEF JobNames
<1>11. Fits(w)' /\ Apart(w)
  <2>1. \A i \in Jobs : job[i].status # "free" =>
          job'[i].status = job[i].status /\ job'[i].items = job[i].items
    BY <1>5 DEF Placed
  <2> QED
    BY <1>1, <2>1, KeptJobs
<1>13. \E m \in Mems : at[w].mem = {m}
  BY <1>1, <1>2 DEF Subjects, Apt, JobsHeld, Update
<1>12. \A i \in Jobs : job'[i].kind = "reindex" => \E m \in Mems : job'[i].mem = {m}
  BY <1>5, <1>13 DEF JobsHeld, Placed
<1> QED
  BY <1>7, <1>10, <1>11, <1>12, HeldKept DEF Keeps

\* A job that is taken was no other worker's.
LEMMA TakenJobs ==
  ASSUME TypeOK, Subjects, JobsHeld, NamesExist, NEW w \in Workers, NEW j \in Jobs, Taken(w, j),
         Steps(w), at[w].stage = "idle", at'[w].stage \in {"read", "list", "next"},
         at'[w].op \in {"none", "reindex", "delete_all", "bulk"}, at'[w].item = 0,
         \A m \in Mems : There(m) => There(m)'
  PROVE  JobsHeld' /\ JobTypes' /\ JobNames'
<1>1. job[j].status = "queued" /\ at'[w].job = j /\ Turned(j, "running")
  BY DEF Taken
<1>2. Fits(w)'
  BY <1>1 DEF Fits, Task, Turned
<1>3. Apart(w)
  BY <1>1 DEF Apart, JobsHeld, Task, Turned
<1> QED
  BY <1>1, <1>2, <1>3, TurnedJobs, HeldKept

\* Every step of a worker keeps the jobs in order.
LEMMA WorkedJobs ==
  ASSUME TypeOK, Subjects, JobsHeld, NamesExist, NEW w \in Workers,
         Work(w) \/ ItemFails(w) \/ IndexFails(w) \/ Abort(w),
         \A m \in Mems : There(m) => There(m)'
  PROVE  JobsHeld' /\ JobTypes' /\ JobNames'
<1>1. WorkEffect(w)
  BY Working
<1>2. CASE /\ Ends(w) /\ at[w].stage # "idle"
           /\ Done(w) \/ job' = [job EXCEPT ![at[w].job].status = "queued"]
  BY <1>2, EndedJobs
<1>3. CASE /\ Steps(w) /\ \E j \in Jobs : Taken(w, j)
           /\ at[w].stage = "idle" /\ at'[w].stage \in {"read", "list", "next"}
           /\ at'[w].op \in {"none", "reindex", "delete_all", "bulk"} /\ at'[w].item = 0
  BY <1>3, TakenJobs
<1>4. CASE Result(w) /\ Keeps(w, "result", "next")
  BY <1>4, ResultJobs
<1>5. CASE IndexFails(w) /\ Keeps(w, "vector", "result")
  BY <1>5, IndexFailsJobs
<1>6. ASSUME job' = job, Steps(w), Fits(w)', Apart(w)
      PROVE  JobsHeld' /\ JobTypes' /\ JobNames'
  BY <1>6, SameJobs, HeldKept
<1>7. ASSUME job' = job,
             \E from \in Stage \ {"idle"}, to \in Stage \ {"list"} :
               Keeps(w, from, to) /\ (to = "result" => at[w].item # 0)
      PROVE  JobsHeld' /\ JobTypes' /\ JobNames'
  <2>1. PICK from \in Stage \ {"idle"}, to \in Stage \ {"list"} :
          Keeps(w, from, to) /\ (to = "result" => at[w].item # 0)
    BY <1>7
  <2>2. Fits(w)' /\ Apart(w)
    BY <1>7, <2>1, KeptJobs
  <2> QED
    BY <1>6, <1>7, <2>1, <2>2 DEF Keeps
<1>8. CASE /\ List(w) /\ Steps(w)
           /\ at[w].stage = "list" /\ at'[w].stage = "write" /\ at'[w].op = "batch_delete"
           /\ at'[w].item = at[w].item /\ at'[w].job = at[w].job
  <2>1. job' = job
    BY <1>8 DEF List
  <2>2. Fits(w)' /\ Apart(w)
    BY <1>8, <2>1 DEF Fits, Apart, JobsHeld, Task
  <2> QED
    BY <1>6, <1>8, <2>1, <2>2
<1>9. CASE /\ NextItem(w) /\ Steps(w)
           /\ at[w].stage = "next" /\ at'[w].stage \in {"check", "read"}
           /\ at'[w].op \in {"update", "delete"} /\ at'[w].job = at[w].job
           /\ at'[w].item \in DOMAIN Task(w).items
  <2>1. job' = job
    BY <1>9 DEF NextItem
  <2>2. Fits(w)' /\ Apart(w)
    BY <1>9, <2>1 DEF Fits, Apart, JobsHeld, Task
  <2> QED
    BY <1>6, <1>9, <2>1, <2>2
<1>10. CASE ReadIndex(w) \/ Sweep(w) \/ Check(w) \/ ReadRow(w) \/ NotFound(w) \/ Write(w) \/ ItemFails(w)
  <2>1. job' = job
    BY <1>10 DEF ReadIndex, Sweep, Check, ReadRow, NotFound, Write, ItemFails
  <2> QED
    BY <1>1, <1>2, <1>3, <1>4, <1>5, <1>7, <1>8, <1>9, <2>1 DEF WorkEffect, Stage
<1>11. CASE Index(w) /\ Keeps(w, "vector", "result") /\ at[w].item # 0 /\ job' = job
  BY <1>7, <1>11 DEF Stage
<1> QED
  BY <1>1, <1>2, <1>3, <1>4, <1>5, <1>8, <1>9, <1>10, <1>11 DEF WorkEffect

-----------------------------------------------------------------------------
(***************************************************************************)
(* The idempotency keys.                                                   *)
(***************************************************************************)
Claims == [status : {"none", "in_flight", "done"}, op : Keyed \cup {"none"}, mem : SUBSET Mems]

KeyTypes == key \in [Keys -> Claims] /\ ran \in [Keys -> Nat]

\* What a step of a request does to its key: it keeps it, it leaves it as it is, or it
\* settles it.
KeyKept(c, k) ==
  /\ at'[c].key = k /\ at'[c].op = at[c].op /\ at'[c].stage \in Before \cup After
  /\ Holds(c, k) \/ key[k].status = "none"
  /\ key'[k].status = "in_flight" /\ ran'[k] = IF at'[c].stage \in Before THEN 0 ELSE 1

KeyLeft(c, k) == at'[c].key = NoKey /\ key'[k] = key[k] /\ ran'[k] = ran[k]

KeySettled(c, k) ==
  /\ at'[c].key = NoKey /\ Holds(c, k)
  /\ \/ key'[k] = Unclaimed /\ ran'[k] = 0
     \/ key'[k].status = "done" /\ ran'[k] = 1

KeyStep(c) ==
  /\ \A i \in Keys : i # at[c].key => key'[i] = key[i] /\ ran'[i] = ran[i]
  /\ \A k \in Keys : k = at[c].key => KeyKept(c, k) \/ KeyLeft(c, k) \/ KeySettled(c, k)
  /\ at[c].key = NoKey => at'[c].key = NoKey

\* A worker has no key.
LEMMA KeyStepping ==
  ASSUME TypeOK, KeysHeld, AtMostOnce, NEW c \in Clients, Steps(c), KeyStep(c), KeyTypes'
  PROVE  KeysHeld' /\ AtMostOnce'
<1>0. NoKey \notin Keys /\ Clients \cap Workers = {}
  BY MemoriesConstantsOK
<1>1. /\ \A q \in Procs \ {c} : at'[q] = at[q]
      /\ at[c].key \in Keys \cup {NoKey}
      /\ Clients \subseteq Procs /\ Workers \subseteq Procs \ {c}
  BY <1>0 DEF Steps, Procs, TypeOK, Locals
<1>2. at'[c].key # NoKey => KeyKept(c, at[c].key) /\ at'[c].key = at[c].key /\ at[c].key \in Keys
  BY <1>1 DEF KeyStep, KeyLeft, KeySettled, KeyKept
<1>3. \A d \in Clients, k \in Keys : Holds(d, k)' => (d # c /\ Holds(d, k)) \/ (d = c /\ k = at[c].key)
  BY <1>0, <1>1, <1>2 DEF Holds
<1>4. \A k \in Keys : k = at[c].key /\ (\E d \in Clients : d # c /\ Holds(d, k)) => KeyLeft(c, k)
  BY <1>0 DEF KeyStep, KeyKept, KeySettled, KeysHeld
<1>5. \A w \in Workers : at'[w].key = NoKey
  BY <1>1 DEF KeysHeld
<1>6. \A d \in Clients : at'[d].key # NoKey =>
        at'[d].op \in Keyed /\ at'[d].stage \in {"claim"} \cup Before \cup After
  BY <1>1, <1>2 DEF KeysHeld, KeyKept
<1>7. ASSUME NEW d \in Clients, NEW k \in Keys, Holds(d, k)'
      PROVE  /\ key'[k].status = "in_flight"
             /\ ran'[k] = IF at'[d].stage \in Before THEN 0 ELSE 1
  <2>1. CASE d = c
    BY <1>0, <1>2, <1>3, <1>7, <2>1 DEF KeyKept, Holds
  <2>2. CASE d # c
    <3>1. Holds(d, k) /\ at'[d] = at[d]
      BY <1>1, <1>3, <1>7, <2>2
    <3>2. key'[k] = key[k] /\ ran'[k] = ran[k]
      BY <1>4, <2>2, <3>1 DEF KeyStep, KeyLeft
    <3> QED
      BY <3>1, <3>2 DEF KeysHeld
  <2> QED
    BY <2>1, <2>2
<1>8. ASSUME NEW d \in Clients, NEW e \in Clients, NEW k \in Keys, Holds(d, k)', Holds(e, k)'
      PROVE  d = e
  <2>1. Holds(c, k)' => k = at[c].key /\ ~KeyLeft(c, k)
    BY <1>0, <1>2 DEF Holds, KeyLeft
  <2> QED
    BY <1>3, <1>4, <1>8, <2>1 DEF KeysHeld
<1>9. ASSUME NEW k \in Keys
      PROVE  /\ key'[k].status = "none" => key'[k] = Unclaimed
             /\ ran'[k] <= 1 /\ (key'[k] = Unclaimed => ran'[k] = 0)
             /\ (key'[k].status = "done" => ran'[k] = 1)
  <2>1. CASE key'[k] = key[k] /\ ran'[k] = ran[k]
    BY <2>1 DEF KeysHeld, AtMostOnce
  <2>2. CASE KeyKept(c, k)
    BY <2>2 DEF KeyKept, Unclaimed
  <2>3. CASE KeySettled(c, k)
    BY <2>3 DEF KeySettled, Unclaimed
  <2> QED
    BY <2>1, <2>2, <2>3 DEF KeyStep, KeyLeft
<1> QED
  BY <1>5, <1>6, <1>7, <1>8, <1>9 DEF KeysHeld, AtMostOnce

\* The claim of a key is set, and the others are kept.
LEMMA SettingKey ==
  ASSUME TypeOK, NEW k \in Keys \cup {NoKey}, NEW claim, k \in Keys => claim \in Claims,
         SetKey(k, claim)
  PROVE  /\ key' \in [Keys -> Claims]
         /\ k \in Keys => key'[k] = claim
         /\ \A i \in Keys : i # k => key'[i] = key[i]
<1> QED
  BY DEF TypeOK, SetKey, Claims

\* A commit counts once.
LEMMA Counting ==
  ASSUME TypeOK, NEW p \in Procs, Counts(p)
  PROVE  /\ ran' \in [Keys -> Nat]
         /\ at[p].key \in Keys => ran'[at[p].key] = ran[at[p].key] + 1
         /\ \A i \in Keys : i # at[p].key => ran'[i] = ran[i]
<1> QED
  BY DEF TypeOK, Counts

\* Keys and counts that no step touches keep their types.
LEMMA KeysTyped ==
  ASSUME TypeOK
  PROVE  KeyTypes /\ (UNCHANGED <<key, ran>> => KeyTypes')
<1> QED
  BY DEF TypeOK, KeyTypes, Claims

\* Every step of a request keeps, leaves or settles its key.
LEMMA ServedKeys ==
  ASSUME TypeOK, Subjects, KeysHeld, AtMostOnce, NEW c \in Clients, Serve(c) \/ Crash(c)
  PROVE  KeyStep(c) /\ KeyTypes'
<1> DEFINE k == at[c].key
<1>0. NoKey \notin Keys
  BY MemoriesConstantsOK
<1>1. ServeEffect(c) /\ c \in Procs
  BY Serving DEF Procs
<1>2. k \in Keys \cup {NoKey}
  BY DEF TypeOK, Locals
<1>3. k # NoKey => at[c].op \in Keyed /\ at[c].stage \in {"claim"} \cup Before \cup After
  BY DEF KeysHeld
<1>4. at[c].stage \in Before \cup After /\ k \in Keys =>
        /\ Holds(c, k) /\ key[k].status = "in_flight"
        /\ ran[k] = IF at[c].stage \in Before THEN 0 ELSE 1
  BY DEF KeysHeld, Holds
<1>5. Ends(c) => at'[c].key = NoKey
  BY <1>1, Ending
<1>6. ASSUME UNCHANGED <<key, ran>>, Ends(c)
      PROVE  KeyStep(c) /\ KeyTypes'
  BY <1>5, <1>6, KeysTyped DEF KeyStep, KeyLeft
<1>7. CASE Refuse(c) \/ AlreadyDeleted(c) \/ Crash(c)
  BY <1>6, <1>7 DEF Refuse, AlreadyDeleted, Crash
<1>8. CASE Claim(c) /\ Keeps(c, "claim", Entry(at[c].op))
  <2> DEFINE claim == [status |-> "in_flight", op |-> at[c].op, mem |-> at[c].mem]
  <2>1. key[k] = Unclaimed /\ SetKey(k, claim) /\ ran' = ran
    BY <1>8 DEF Claim
  <2>2. k \in Keys => claim \in Claims
    BY <1>0, <1>3 DEF Claims, TypeOK, Locals
  <2>3. /\ key' \in [Keys -> Claims]
        /\ k \in Keys => key'[k] = claim
        /\ \A i \in Keys : i # k => key'[i] = key[i]
    BY <1>2, <2>1, <2>2, SettingKey
  <2>4. k \in Keys => ran[k] = 0 /\ key[k].status = "none"
    BY <2>1 DEF AtMostOnce, Unclaimed
  <2>5. /\ at'[c].key = k /\ at'[c].op = at[c].op /\ at'[c].stage = Entry(at[c].op)
        /\ at'[c].stage \in Before
    BY <1>8 DEF Keeps, Entry, Before
  <2>6. k \in Keys => KeyKept(c, k)
    BY <2>1, <2>3, <2>4, <2>5 DEF KeyKept
  <2>7. KeyTypes'
    BY <2>1, <2>3 DEF KeyTypes, TypeOK
  <2> QED
    BY <2>1, <2>3, <2>5, <2>6, <2>7 DEF KeyStep
<1>9. CASE Fail(c)
  <2>1. at[c].stage \in Before /\ SetKey(k, Unclaimed) /\ ran' = ran /\ Ends(c)
    BY <1>9 DEF Fail, Before
  <2>2. Unclaimed \in Claims
    BY IdleTypes DEF Claims
  <2>3. /\ key' \in [Keys -> Claims]
        /\ k \in Keys => key'[k] = Unclaimed
        /\ \A i \in Keys : i # k => key'[i] = key[i]
    BY <1>2, <2>1, <2>2, SettingKey
  <2>4. k \in Keys => KeySettled(c, k)
    BY <1>4, <1>5, <2>1, <2>3 DEF KeySettled
  <2> QED
    BY <1>5, <2>1, <2>3, <2>4 DEF KeyStep, KeyTypes, TypeOK
<1>10. CASE Add(c)
  <2> DEFINE claim == [status |-> "done", op |-> at[c].op, mem |-> at[c].mem]
  <2>1. at[c].stage \in Before /\ at[c].op = "add" /\ Counts(c) /\ SetKey(k, claim) /\ Ends(c)
    BY <1>10 DEF Add, Before
  <2>2. claim \in Claims
    BY <2>1 DEF Claims, TypeOK, Locals, Keyed
  <2>3. /\ key' \in [Keys -> Claims]
        /\ k \in Keys => key'[k] = claim
        /\ \A i \in Keys : i # k => key'[i] = key[i]
    BY <1>2, <2>1, <2>2, SettingKey
  <2>4. k \in Keys => ran'[k] = 1
    BY <1>1, <1>4, <2>1, Counting
  <2>5. k \in Keys => KeySettled(c, k)
    BY <1>4, <1>5, <2>1, <2>3, <2>4 DEF KeySettled
  <2> QED
    BY <1>1, <1>5, <2>1, <2>3, <2>5, Counting DEF KeyStep, KeyTypes
<1>11. CASE Finish(c)
  <2> DEFINE claim == [key[k] EXCEPT !.status = "done"]
  <2>1. at[c].stage \in After /\ SetKey(k, claim) /\ Ends(c) /\ ran' = ran /\ "finish" \notin Before
        /\ at[c].stage = "finish"
    BY <1>11 DEF Finish, After, Before
  <2>2. k \in Keys => claim \in Claims /\ claim.status = "done"
    BY DEF Claims, TypeOK
  <2> HIDE DEF claim
  <2>3. /\ key' \in [Keys -> Claims]
        /\ k \in Keys => key'[k] = claim
        /\ \A i \in Keys : i # k => key'[i] = key[i]
    BY <1>2, <2>1, <2>2, SettingKey
  <2>4. k \in Keys => KeySettled(c, k)
    BY <1>4, <1>5, <2>1, <2>2, <2>3 DEF KeySettled
  <2> QED
    BY <1>5, <2>1, <2>3, <2>4 DEF KeyStep, KeyTypes, TypeOK
<1>12. ASSUME UNCHANGED <<key, ran>>,
              \/ \E from, to \in Before : Keeps(c, from, to)
              \/ \E from, to \in After : Keeps(c, from, to)
       PROVE  KeyStep(c) /\ KeyTypes'
  <2>1. PICK from, to \in Before \cup After :
          Keeps(c, from, to) /\ (from \in Before <=> to \in Before)
    BY <1>12 DEF Before, After
  <2>2. at[c].stage = from /\ at'[c].stage = to /\ at'[c].key = k /\ at'[c].op = at[c].op
    BY <2>1 DEF Keeps
  <2>3. k \in Keys => KeyKept(c, k)
    BY <1>4, <1>12, <2>1, <2>2 DEF KeyKept
  <2> QED
    BY <1>12, <2>2, <2>3, KeysTyped DEF KeyStep
<1>13. CASE Check(c) /\ Keeps(c, "check", "read")
  BY <1>12, <1>13 DEF Check, Before
<1>14. CASE ReadRow(c) /\ Keeps(c, "read", "write")
  BY <1>12, <1>14 DEF ReadRow, Before
<1>15. CASE Reindex(c) /\ \E to \in {"enqueue", "finish"} : Keeps(c, "enqueue", to)
  BY <1>12, <1>15 DEF Reindex, After
<1>16. CASE Index(c) /\ Keeps(c, "vector", "finish")
  <2>1. UNCHANGED <<key, ran>>
    BY <1>16 DEF Index
  <2> QED
    BY <1>12, <1>16, <2>1 DEF After
<1>17. CASE (CreateNative(c) \/ Rewrite(c)) /\ Keeps(c, "write", "enqueue")
  <2>1. k = NoKey /\ UNCHANGED <<key, ran>>
    BY <1>3, <1>17 DEF CreateNative, Rewrite, Keyed
  <2> QED
    BY <1>0, <1>17, <2>1, KeysTyped DEF KeyStep, Keeps
<1>18. CASE Sweep(c) /\ Keeps(c, "write", "vector")
  <2>1. k = NoKey /\ UNCHANGED <<key, ran>>
    BY <1>3, <1>18 DEF Sweep, Keyed
  <2> QED
    BY <1>0, <1>18, <2>1, KeysTyped DEF KeyStep, Keeps
<1>19. CASE Write(c) /\ \E to \in {"vector", "enqueue"} : Keeps(c, "write", to)
  <2>1. PICK to \in {"vector", "enqueue"} : Keeps(c, "write", to)
    BY <1>19
  <2>2. Counts(c) /\ key' = key
    BY <1>19 DEF Write
  <2>3. /\ at[c].stage \in Before /\ at'[c].stage \in After /\ at'[c].stage \notin Before
        /\ at'[c].key = k /\ at'[c].op = at[c].op
    BY <2>1 DEF Keeps, Before, After
  <2>4. k \in Keys => KeyKept(c, k)
    BY <1>1, <1>4, <2>2, <2>3, Counting DEF KeyKept
  <2>5. KeyTypes'
    BY <1>1, <2>2, Counting DEF KeyTypes, TypeOK, Claims
  <2> QED
    BY <1>1, <2>2, <2>3, <2>4, <2>5, Counting DEF KeyStep
<1> QED
  BY <1>1, <1>7, <1>8, <1>9, <1>10, <1>11, <1>13, <1>14, <1>15, <1>16, <1>17, <1>18, <1>19
     DEF ServeEffect

\* A request that is asked has its key yet to claim.
LEMMA AskedKeys ==
  ASSUME TypeOK, Subjects, KeysHeld, AtMostOnce, NEW c \in Clients, NEW op \in Requested,
         NEW ms \in SUBSET Mems, NEW k \in Keys \cup {NoKey}, Asked(c, op, ms, k)
  PROVE  KeysHeld' /\ AtMostOnce' /\ KeyTypes'
<1>1. /\ UNCHANGED <<key, ran>> /\ \A q \in Procs \ {c} : at'[q] = at[q]
      /\ at'[c].key = k /\ at'[c].op = op
      /\ op \notin Keyed => k = NoKey
      /\ k # NoKey => at'[c].stage = "claim"
  BY DEF Asked
<1>2. /\ NoKey \notin Keys /\ Clients \cap Workers = {}
      /\ Clients \subseteq Procs /\ Workers \subseteq Procs \ {c}
  BY MemoriesConstantsOK DEF Procs
<1>3. \A d \in Clients, i \in Keys : Holds(d, i)' => d # c /\ Holds(d, i)
  BY <1>1, <1>2 DEF Holds, Before, After
<1>4. \A w \in Workers : at'[w].key = NoKey
  BY <1>1, <1>2 DEF KeysHeld
<1>5. \A d \in Clients : at'[d].key # NoKey =>
        at'[d].op \in Keyed /\ at'[d].stage \in {"claim"} \cup Before \cup After
  BY <1>1, <1>2 DEF KeysHeld
<1>6. ASSUME NEW d \in Clients, NEW i \in Keys, Holds(d, i)'
      PROVE  /\ key'[i].status = "in_flight"
             /\ ran'[i] = IF at'[d].stage \in Before THEN 0 ELSE 1
  BY <1>1, <1>2, <1>3, <1>6 DEF KeysHeld
<1>7. \A d, e \in Clients, i \in Keys : Holds(d, i)' /\ Holds(e, i)' => d = e
  BY <1>3 DEF KeysHeld
<1>8. \A i \in Keys : key'[i].status = "none" => key'[i] = Unclaimed
  BY <1>1 DEF KeysHeld
<1> QED
  BY <1>1, <1>4, <1>5, <1>6, <1>7, <1>8, KeysTyped DEF KeysHeld, AtMostOnce

\* A worker has none.
LEMMA WorkedKeys ==
  ASSUME TypeOK, Subjects, JobsHeld, KeysHeld, AtMostOnce, NEW w \in Workers,
         Work(w) \/ ItemFails(w) \/ IndexFails(w) \/ Abort(w)
  PROVE  KeysHeld' /\ AtMostOnce' /\ KeyTypes'
<1>1. WorkEffect(w) /\ w \in Procs /\ at[w].key = NoKey
  BY Working DEF Procs, KeysHeld
<1>2. at'[w].key = NoKey /\ Steps(w)
  BY <1>1, Ending, EndSteps DEF WorkEffect, Keeps
<1>3. key' = key /\ ran' = ran
  <2>1. CASE Write(w)
    <3>1. key' = key /\ Counts(w) /\ NoKey \notin Keys
      BY <2>1, MemoriesConstantsOK DEF Write
    <3> QED
      BY <1>1, <3>1, Counting DEF TypeOK
  <2>2. CASE \/ Take(w) \/ ReadIndex(w) \/ List(w) \/ Sweep(w) \/ NextItem(w) \/ Check(w)
             \/ ReadRow(w) \/ NotFound(w) \/ Index(w) \/ Result(w) \/ Finished(w)
             \/ ItemFails(w) \/ IndexFails(w) \/ Abort(w)
    BY <2>2 DEF Take, ReadIndex, List, Sweep, NextItem, Check, ReadRow, NotFound, Index, Result,
         Finished, ItemFails, IndexFails, Abort
  <2> QED
    BY <2>1, <2>2 DEF Work
<1>4. \A v \in Workers : at'[v].key = NoKey
  BY <1>2 DEF KeysHeld, Steps, Procs
<1>5. \A c \in Clients : at'[c] = at[c]
  BY <1>2, MemoriesConstantsOK DEF Steps, Procs
<1>6. \A c \in Clients, k \in Keys : Holds(c, k)' <=> Holds(c, k)
  BY <1>5 DEF Holds
<1>7. KeysHeld'
  BY <1>3, <1>4, <1>5, <1>6 DEF KeysHeld
<1> QED
  BY <1>3, <1>7, KeysTyped DEF AtMostOnce

\* A key expires when no request holds it, and its count with it.
LEMMA ExpiredKeys ==
  ASSUME TypeOK, Subjects, KeysHeld, AtMostOnce, NEW k \in Keys, Expire(k)
  PROVE  KeysHeld' /\ AtMostOnce' /\ KeyTypes'
<1>1. /\ \A c \in Clients : at[c].key # k
      /\ SetKey(k, Unclaimed) /\ ran' = [ran EXCEPT ![k] = 0] /\ at' = at
  BY DEF Expire
<1>2. Unclaimed \in Claims
  BY IdleTypes DEF Claims
<1>3. /\ key' \in [Keys -> Claims] /\ key'[k] = Unclaimed
      /\ \A i \in Keys : i # k => key'[i] = key[i]
  BY <1>1, <1>2, SettingKey
<1>4. /\ ran' \in [Keys -> Nat] /\ ran'[k] = 0 /\ \A i \in Keys : i # k => ran'[i] = ran[i]
  BY <1>1 DEF TypeOK
<1>5. \A c \in Clients, i \in Keys : Holds(c, i)' => i # k /\ Holds(c, i)
  BY <1>1 DEF Holds
<1>6. ASSUME NEW c \in Clients, NEW i \in Keys, Holds(c, i)'
      PROVE  /\ key'[i].status = "in_flight"
             /\ ran'[i] = IF at'[c].stage \in Before THEN 0 ELSE 1
  BY <1>1, <1>3, <1>4, <1>5, <1>6 DEF KeysHeld
<1>7. \A c, d \in Clients, i \in Keys : Holds(c, i)' /\ Holds(d, i)' => c = d
  BY <1>5 DEF KeysHeld
<1>8. \A i \in Keys : key'[i].status = "none" => key'[i] = Unclaimed
  BY <1>3 DEF KeysHeld
<1>9. KeysHeld'
  BY <1>1, <1>6, <1>7, <1>8 DEF KeysHeld
<1>10. AtMostOnce'
  BY <1>3, <1>4 DEF AtMostOnce, Unclaimed
<1> QED
  BY <1>3, <1>4, <1>9, <1>10 DEF KeyTypes

-----------------------------------------------------------------------------
(***************************************************************************)
(* The theorems.                                                           *)
(***************************************************************************)
IInv ==
  /\ TypeOK /\ Subjects /\ JobsHeld /\ NamesExist /\ SeenBefore /\ KeysHeld
  /\ HistoryExplainsRow /\ AtMostOnce

\* Nothing is in hand, and the rows are as their first event says.
LEMMA InitIInv == Init => IInv
<1> SUFFICES ASSUME Init PROVE IInv
  OBVIOUS
<1>1. PICK old \in {{}, Mems} : LET t == CHOOSE x \in Texts : TRUE IN
        /\ row = [m \in Mems |-> IF m \in old THEN New(t) ELSE Absent]
        /\ history = [m \in Mems |-> IF m \in old THEN <<[event |-> "ADD", version |-> 1]>> ELSE <<>>]
        /\ vector = [m \in Mems |-> IF m \in old THEN t ELSE NoText]
  BY DEF Init
<1> DEFINE t == CHOOSE x \in Texts : TRUE
           e == [event |-> "ADD", version |-> 1]
<1>2. t \in Texts
  BY MemoriesConstantsOK
<1>3. /\ row = [m \in Mems |-> IF m \in old THEN New(t) ELSE Absent]
      /\ history = [m \in Mems |-> IF m \in old THEN <<e>> ELSE <<>>]
      /\ vector = [m \in Mems |-> IF m \in old THEN t ELSE NoText]
  BY <1>1
<1>4. /\ New(t).state = "active" /\ New(t).version = 1 /\ New(t) \in Row
      /\ Absent.state = "none" /\ Absent.version = 0 /\ Absent \in Row
  BY <1>2, IdleTypes DEF New, Absent
<1> HIDE DEF t
<1>5. e \in Event /\ e.version = 1 /\ e.event = "ADD"
  BY DEF Event
<1> HIDE DEF e
<1>6. <<e>> \in Seq(Event) /\ <<>> \in Seq(Event) /\ Len(<<e>>) = 1 /\ <<e>>[1] = e /\ <<e>> # <<>>
      /\ DOMAIN <<e>> = {1} /\ DOMAIN <<>> = {}
  BY <1>5
<1>7. HistoryExplainsRow
  BY <1>3, <1>4, <1>5, <1>6 DEF HistoryExplainsRow, Deleted
<1>8. /\ key = [k \in Keys |-> Unclaimed] /\ ran = [k \in Keys |-> 0]
      /\ job = [j \in Jobs |-> Free] /\ at = [p \in Procs |-> Idle]
      /\ left = MaxRequests /\ faults = 0
  BY DEF Init, Procs
<1>9. /\ Idle.stage = "idle" /\ Idle.op = "none" /\ Idle.mem = {} /\ Idle.key = NoKey /\ Idle.item = 0
      /\ Free.kind = "none" /\ Free.mem = {} /\ Free.items = <<>> /\ Free.done = {}
      /\ Unclaimed.status = "none"
  BY DEF Idle, Free, Unclaimed
<1>10. TypeOK
  <2>1. row \in [Mems -> Row] /\ history \in [Mems -> Seq(Event)] /\ vector \in [Mems -> Texts \cup {NoText}]
    BY <1>2, <1>3, <1>4, <1>6
  <2>2. /\ key \in [Keys -> Claims] /\ ran \in [Keys -> Nat]
        /\ job \in [Jobs -> JobRow] /\ at \in [Procs -> Locals]
    BY <1>8, IdleTypes DEF Claims
  <2>3. \A j \in Jobs : job[j].done \subseteq DOMAIN job[j].items
    BY <1>8, <1>9
  <2>4. left \in 0..MaxRequests /\ faults \in 0..MaxFaults
    BY <1>8, MemoriesConstantsOK
  <2> QED
    BY <2>1, <2>2, <2>3, <2>4 DEF TypeOK, Claims, Procs
<1>11. Subjects
  BY <1>8, <1>9 DEF Subjects, Apt, Update
<1>12. JobsHeld
  BY <1>8, <1>9 DEF JobsHeld, Procs
<1>13. NamesExist
  BY <1>6, <1>8, <1>9 DEF NamesExist, Adding
<1>14. SeenBefore
  BY <1>8, <1>9 DEF SeenBefore
<1>15. KeysHeld /\ AtMostOnce
  BY <1>8, <1>9, MemoriesConstantsOK DEF KeysHeld, AtMostOnce, Holds, Procs
<1> QED
  BY <1>7, <1>10, <1>11, <1>12, <1>13, <1>14, <1>15 DEF IInv

\* The types that no lemma above has stated.
LEMMA OtherTypes ==
  ASSUME TypeOK, Subjects, NEW p \in Procs, Turn(p)
  PROVE  /\ vector' \in [Mems -> Texts \cup {NoText}]
         /\ left' \in 0..MaxRequests /\ faults' \in 0..MaxFaults
<1>1. MaxRequests \in Nat /\ MaxFaults \in Nat
  BY MemoriesConstantsOK
<1>2. /\ vector \in [Mems -> Texts \cup {NoText}]
      /\ left \in 0..MaxRequests /\ faults \in 0..MaxFaults
  BY DEF TypeOK
<1>3. CASE Index(p)
  BY <1>2, <1>3, IndexSteps DEF Index
<1>4. CASE Ask(p)
  <2>1. left > 0 /\ left' = left - 1 /\ UNCHANGED <<vector, faults>>
    BY <1>4 DEF Ask, AskAdd, AskCreate, AskUpdate, AskCategorize, AskDelete, AskBatchUpdate,
         AskBatchDelete, DeleteAll, Bulk, Asks
  <2> QED
    BY <1>1, <1>2, <2>1
<1>5. CASE Crash(p) \/ ItemFails(p) \/ IndexFails(p) \/ Abort(p)
  <2>1. faults < MaxFaults /\ faults' = faults + 1 /\ UNCHANGED <<vector, left>>
    BY <1>5 DEF Crash, ItemFails, IndexFails, Abort
  <2> QED
    BY <1>1, <1>2, <2>1
<1>6. CASE \/ Claim(p) \/ Refuse(p) \/ Fail(p) \/ Add(p) \/ CreateNative(p) \/ Rewrite(p)
           \/ Reindex(p) \/ Finish(p) \/ Check(p) \/ ReadRow(p) \/ AlreadyDeleted(p) \/ Write(p)
           \/ Sweep(p)
  BY <1>2, <1>6 DEF Claim, Refuse, Fail, Add, CreateNative, Rewrite, Reindex, Finish, Check, ReadRow,
     AlreadyDeleted, Write, Sweep
<1>7. CASE Take(p) \/ ReadIndex(p) \/ List(p) \/ NextItem(p) \/ NotFound(p) \/ Result(p) \/ Finished(p)
  BY <1>2, <1>7 DEF Take, ReadIndex, List, NextItem, NotFound, Result, Finished
<1> QED
  BY <1>3, <1>4, <1>5, <1>6, <1>7 DEF Turn, Serve, Work

\* What is true of the processes, the jobs and the keys after a step of one process.
Lands(p) ==
  /\ at' \in [Procs -> Locals]
  /\ Subjects' /\ JobsHeld' /\ JobTypes' /\ NamesExist' /\ SeenBefore'
  /\ KeysHeld' /\ AtMostOnce' /\ KeyTypes'

\* Every step of a request or a worker keeps its part of the invariant.
LEMMA TurnAfter ==
  ASSUME IInv, NEW p \in Procs, Turn(p), \A m \in Mems : Moved(m),
         \A m \in Mems : Len(history[m]) <= Len(history'[m]) /\ (There(m) => There(m)'),
         \A m \in Mems \ at[p].mem : row'[m] = row[m], history' \in [Mems -> Seq(Event)]
  PROVE  Lands(p)
<1>1. /\ TypeOK /\ Subjects /\ JobsHeld /\ NamesExist /\ SeenBefore /\ KeysHeld
      /\ HistoryExplainsRow /\ AtMostOnce
  BY DEF IInv
<1>2. ASSUME Steps(p), Names(p), Sees(p), JobNames'
      PROVE  at' \in [Procs -> Locals] /\ Subjects' /\ NamesExist' /\ SeenBefore'
  BY <1>1, <1>2, SubjectsKept, NamesKept, SeenKept DEF Steps
<1>3. Clients \cap Workers = {}
  BY MemoriesConstantsOK
<1>4. CASE p \in Workers
  <2>1. Work(p) \/ ItemFails(p) \/ IndexFails(p) \/ Abort(p)
    BY <1>3, <1>4 DEF Turn
  <2>2. Steps(p) /\ Names(p) /\ Sees(p)
    BY <1>1, <1>4, <2>1, WorkedNames
  <2>3. JobsHeld' /\ JobTypes' /\ JobNames'
    BY <1>1, <1>4, <2>1, WorkedJobs
  <2>4. KeysHeld' /\ AtMostOnce' /\ KeyTypes'
    BY <1>1, <1>4, <2>1, WorkedKeys
  <2> QED
    BY <1>2, <2>2, <2>3, <2>4 DEF Lands
<1>5. ASSUME p \in Clients, JobsStay, Steps(p)
      PROVE  JobsHeld' /\ JobTypes'
  <2>1. \A w \in Workers : at'[w] = at[w]
    BY <1>3, <1>5 DEF Steps, Procs
  <2> QED
    BY <1>1, <1>5, <2>1, JobsKept DEF JobTypes
<1>6. CASE p \in Clients /\ (Serve(p) \/ Crash(p))
  <2>1. Steps(p) /\ Names(p) /\ Sees(p)
    BY <1>1, <1>6, ServedNames
  <2>2. JobsStay /\ JobNames'
    BY <1>1, <1>6, ServedJobs
  <2>3. KeyStep(p) /\ KeyTypes'
    BY <1>1, <1>6, ServedKeys
  <2>4. KeysHeld' /\ AtMostOnce'
    BY <1>1, <1>6, <2>1, <2>3, KeyStepping
  <2> QED
    BY <1>2, <1>5, <1>6, <2>1, <2>2, <2>3, <2>4 DEF Lands
<1>7. CASE p \in Clients /\ (DeleteAll(p) \/ Bulk(p))
  <2>1. at' = at /\ UNCHANGED <<row, history, key, ran>>
    BY <1>7 DEF DeleteAll, Bulk
  <2>2. Steps(p) /\ Names(p)
    BY <1>1, <2>1 DEF Steps, Subjects, TypeOK, Procs, Names, NamesExist, Adding, There
  <2>3. SeenBefore'
    BY <1>1, <2>1 DEF SeenBefore
  <2>4. JobsStay /\ JobNames'
    BY <1>1, <1>7, ServedJobs
  <2>5. KeysHeld' /\ AtMostOnce' /\ KeyTypes'
    BY <1>1, <2>1, KeysTyped DEF KeysHeld, AtMostOnce, Holds
  <2>6. NamesExist' /\ Subjects' /\ at' \in [Procs -> Locals]
    BY <1>1, <2>2, <2>4, SubjectsKept, NamesKept DEF Steps
  <2> QED
    BY <1>5, <1>7, <2>2, <2>3, <2>4, <2>5, <2>6 DEF Lands
<1>8. CASE p \in Clients /\ Ask(p) /\ ~DeleteAll(p) /\ ~Bulk(p)
  <2>1. PICK op \in Requested, ms \in SUBSET Mems, k \in Keys \cup {NoKey} : Asked(p, op, ms, k)
    BY <1>1, <1>8, Asking
  <2>2. Steps(p) /\ Names(p) /\ Sees(p) /\ job' = job
    BY <1>1, <1>8, <2>1, AskedNames
  <2>3. JobNames' /\ JobsStay
    BY <1>1, <2>2, SameJobs DEF JobsStay
  <2>4. KeysHeld' /\ AtMostOnce' /\ KeyTypes'
    BY <1>1, <1>8, <2>1, AskedKeys
  <2> QED
    BY <1>2, <1>5, <1>8, <2>2, <2>3, <2>4 DEF Lands
<1> QED
  BY <1>4, <1>6, <1>7, <1>8 DEF Turn

\* Every step keeps the invariant.
LEMMA NextIInv == IInv /\ [Next]_vars => IInv'
<1> SUFFICES ASSUME IInv, [Next]_vars PROVE IInv'
  OBVIOUS
<1>1. /\ TypeOK /\ Subjects /\ JobsHeld /\ NamesExist /\ SeenBefore /\ KeysHeld
      /\ HistoryExplainsRow /\ AtMostOnce
  BY DEF IInv
<1>2. ASSUME NEW p \in Procs, Turn(p)
      PROVE  IInv'
  <2>1. /\ row' \in [Mems -> Row] /\ history' \in [Mems -> Seq(Event)]
        /\ \A m \in Mems : Moved(m)
        /\ \A m \in Mems \ at[p].mem : row'[m] = row[m]
    BY <1>1, <1>2, Writing
  <2>2. /\ HistoryExplainsRow'
        /\ \A m \in Mems : Len(history[m]) <= Len(history'[m]) /\ (There(m) => There(m)')
    BY <1>1, <2>1, HistoryFollows
  <2>3. Lands(p)
    BY <1>2, <2>1, <2>2, TurnAfter
  <2>4. /\ vector' \in [Mems -> Texts \cup {NoText}]
        /\ left' \in 0..MaxRequests /\ faults' \in 0..MaxFaults
    BY <1>1, <1>2, OtherTypes
  <2>5. TypeOK'
    BY <2>1, <2>3, <2>4 DEF TypeOK, Lands, JobTypes, KeyTypes, Claims, Procs
  <2> QED
    BY <2>2, <2>3, <2>5 DEF IInv, Lands
<1>3. ASSUME NEW k \in Keys, Expire(k)
      PROVE  IInv'
  <2>1. UNCHANGED <<row, history, vector, job, at, left, faults>>
    BY <1>3 DEF Expire
  <2>2. KeysHeld' /\ AtMostOnce' /\ KeyTypes'
    BY <1>1, <1>3, ExpiredKeys
  <2>3. TypeOK'
    BY <1>1, <2>1, <2>2 DEF TypeOK, KeyTypes, Claims
  <2>4. Subjects' /\ NamesExist' /\ SeenBefore'
    BY <1>1, <2>1 DEF Subjects, NamesExist, There, Adding, SeenBefore
  <2>5. JobsHeld'
    BY <1>1, <2>1, JobsKept DEF JobsStay
  <2>6. HistoryExplainsRow'
    BY <1>1, <2>1 DEF HistoryExplainsRow, Deleted
  <2> QED
    BY <2>2, <2>3, <2>4, <2>5, <2>6 DEF IInv
<1>4. CASE UNCHANGED vars
  <2>1. UNCHANGED <<row, history, vector, key, ran, job, at, left, faults>>
    BY <1>4 DEF vars
  <2>2. TypeOK'
    BY <1>1, <2>1 DEF TypeOK
  <2>3. Subjects' /\ NamesExist' /\ SeenBefore'
    BY <1>1, <2>1 DEF Subjects, NamesExist, There, Adding, SeenBefore
  <2>4. JobsHeld'
    BY <1>1, <2>1, JobsKept DEF JobsStay
  <2>5. HistoryExplainsRow' /\ AtMostOnce' /\ KeysHeld'
    BY <1>1, <2>1 DEF HistoryExplainsRow, Deleted, AtMostOnce, KeysHeld, Holds
  <2> QED
    BY <2>2, <2>3, <2>4, <2>5 DEF IInv
<1> QED
  BY <1>2, <1>3, <1>4 DEF Next, Turn, Procs

\* Every reachable state satisfies the invariant.
LEMMA Invariance == Spec => []IInv
<1> QED
  BY InitIInv, NextIInv, PTL DEF Spec

\* Every variable keeps its type, so a request that writes one memory has one in hand and
\* every job's progress stays within its items (db.py, worker.py).
THEOREM TypeCorrect == Spec => []TypeOK
<1>1. IInv => TypeOK
  BY DEF IInv
<1> QED
  BY <1>1, Invariance, PTL

\* The history explains the row, although its writers read the version before they lock:
\* whatever races, fails or crashes, its last event gave the row its version, a row is
\* deleted exactly when a tombstone was written, and no version runs ahead of the events
\* (append_memory_history, soft_delete_memory, update_memory_content).
THEOREM HistoryIsTrue == Spec => []HistoryExplainsRow
<1>1. IInv => HistoryExplainsRow
  BY DEF IInv
<1> QED
  BY <1>1, Invariance, PTL

\* An idempotency key lets its work be committed at most once until it expires, and no
\* answer is kept for work that has not been (claim_idempotency, complete_idempotency).
THEOREM OnceUnderAKey == Spec => []AtMostOnce
<1>1. IInv => AtMostOnce
  BY DEF IInv
<1> QED
  BY <1>1, Invariance, PTL

\* No memory comes back from the dead, and no row changes without an event.
Buried ==
  \A m \in Mems :
    /\ Deleted(m) => Deleted(m)'
    /\ row'[m] # row[m] => Len(history'[m]) = Len(history[m]) + 1

\* Every step leaves a row alone, or moves it with its history.
LEMMA NextBuries == IInv /\ [Next]_vars => Buried
<1> SUFFICES ASSUME IInv, [Next]_vars PROVE Buried
  OBVIOUS
<1>1. TypeOK /\ NamesExist /\ SeenBefore /\ HistoryExplainsRow
  BY DEF IInv
<1>2. \A m \in Mems : Moved(m)
  <2>1. ASSUME NEW p \in Procs, Turn(p) PROVE \A m \in Mems : Moved(m)
    BY <1>1, <2>1, Writing
  <2>2. CASE UNCHANGED <<row, history>>
    BY <2>2 DEF Moved
  <2>3. CASE \E k \in Keys : Expire(k)
    BY <2>2, <2>3 DEF Expire
  <2> QED
    BY <2>1, <2>2, <2>3 DEF Next, Turn, Procs, vars
<1> SUFFICES ASSUME NEW m \in Mems
             PROVE  /\ Deleted(m) => Deleted(m)'
                    /\ row'[m] # row[m] => Len(history'[m]) = Len(history[m]) + 1
  BY DEF Buried
<1>3. row[m] \in Row /\ history[m] \in Seq(Event) /\ Explains(row[m], history[m])
  BY <1>1 DEF TypeOK, HistoryExplainsRow, Explains, Deleted
<1>4. CASE row'[m] = row[m]
  BY <1>4 DEF Deleted
<1>5. CASE Extends(row[m], row'[m], history[m], history'[m])
  <2>1. Len(history'[m]) = Len(history[m]) + 1
    BY <1>3, <1>5, StillExplains
  <2>2. Deleted(m) => Deleted(m)'
    BY <1>5 DEF Extends, ExtendsBy, Deleted
  <2> QED
    BY <2>1, <2>2
<1> QED
  BY <1>2, <1>4, <1>5 DEF Moved

\* A deleted memory is never active again, though an update may have read its row while it
\* was, and every change of a row leaves one event (soft_delete_memory,
\* update_memory_content, append_memory_history).
THEOREM DeletedForGood == Spec => [][Buried]_vars
<1> QED
  BY Invariance, NextBuries, PTL DEF Spec
=============================================================================
