------------------------------ MODULE Retrieval ------------------------------
(***************************************************************************)
(* Search (search.py) over the rows of SQLite and a vector store, while    *)
(* the worker indexes chunks, clients delete documents and edit memories,  *)
(* the store fails and processes restart.  The store is one of the five    *)
(* adapters of vectorstore.py.                                             *)
(*                                                                         *)
(* A text is what ranking tells apart of it: how near it is to each query, *)
(* and whether it has a word of it.  An embedding is the text that was     *)
(* embedded.  A document is one chunk: Ingest has the job that writes it,  *)
(* and Memories the life of a memory.                                      *)
(***************************************************************************)
EXTENDS Integers, Sequences, FiniteSets

CONSTANTS
  Kinds,         \* the adapters: "memory", "sqlite", "qdrant", "chroma", "pgvector"
  MaxId,
  Docs,          \* documents: text, tag, org, project, meta
  Near, Words,   \* of each query: the nearness of each text, the texts with a word of it
  Asks,          \* what searches ask for: scope, filter, queries, limit, keyword_limit, rerank
  Fact,          \* a fact: text, tag, org, project, meta
  Edited,        \* the text that its memory may be given
  PrefilterMin,
  PoolFactor,    \* 3 in the code
  None, Empty,   \* NULL, and the empty string that Chroma keeps for it
  MaxWrites, MaxFaults   \* bounds

\* No tenant is called by the empty string, nor any document; searches have a query.
ASSUME RetrievalConstantsOK ==
  /\ MaxId \in Nat \ {0} /\ PoolFactor \in Nat \ {0} /\ MaxWrites \in Nat /\ MaxFaults \in Nat
  /\ \A d \in Docs \cup {Fact} :
       /\ d = [text |-> d.text, tag |-> d.tag, org |-> d.org, project |-> d.project, meta |-> d.meta]
       /\ Empty \notin {d.org, d.project}
  /\ \A a \in Asks :
       /\ Empty \notin {a.scope.org, a.scope.project}
       /\ a.queries \in Seq(DOMAIN Near) \ {<< >>}
       /\ a.limit \in Nat \ {0} /\ a.keyword_limit \in Nat /\ a.rerank \in BOOLEAN

VARIABLES
  kind,          \* the adapter that is configured
  row,           \* chunks: the document of each
  expired,       \* the chunks whose document has expired
  memory,        \* the memory of the fact, with facts.embedding
  point,         \* the points of each place
  ready,         \* whether each process' adapter has been set up
  txn,           \* the transaction of each process' Postgres connection
  call, reply,   \* the call of an adapter that has just been made, and its answer
  chunked,       \* the chunk that the worker has yet to index
  erasing,       \* what the server is deleting
  search, answer,
  seen,          \* what the search could have found
  writes, faults

tables == <<row, expired, memory>>
store  == <<point, ready, txn>>
vars   == <<kind, tables, store, call, reply, chunked, erasing, search, answer, seen, writes, faults>>

Ids   == 1 .. MaxId
Procs == {"server", "worker"}

\* The in-process store is one store for each process.
Places == Procs \cup {"shared"}
Place(p) == IF kind = "memory" THEN p ELSE "shared"

Decoded(d) ==
  [text |-> d.text, tag |-> d.tag, meta |-> d.meta,
   org |-> IF d.org = Empty THEN None ELSE d.org, project |-> IF d.project = Empty THEN None ELSE d.project]

View(p) == [i \in DOMAIN point[Place(p)] |-> Decoded(point[Place(p)][i])]

\* No call, and no identifiers.
NoCall  == [who |-> "nobody", ok |-> TRUE, request |-> [op |-> "none"]]
Nothing == [i \in {} |-> 0]

By(p)      == IF call.who = p THEN call ELSE NoCall
ReplyTo(p) == IF call.who = p THEN reply ELSE Nothing

Server == INSTANCE VectorIndex WITH
  point <- View("server"), call <- By("server"), reply <- ReplyTo("server")

Worker == INSTANCE VectorIndex WITH
  point <- View("worker"), call <- By("worker"), reply <- ReplyTo("worker")

Rankings(S, score) == Server!Rankings(S, score)
Top(o, n)     == Server!Top(o, n)
Kept(o, S)    == Server!Kept(o, S)
Matches(d, f) == Server!Matches(d, f)
InScope(d, s) == Server!InScope(d, s)

\* What an adapter keeps of a record: Chroma has no NULL.
Absent == IF kind = "chroma" THEN Empty ELSE None

Stored(d) ==
  [text |-> d.text, tag |-> d.tag, meta |-> d.meta,
   org |-> IF d.org = None THEN Absent ELSE d.org, project |-> IF d.project = None THEN Absent ELSE d.project]

Live == DOMAIN row

\* The fact, in the words of its memory.
Told(text) ==
  [text |-> text, tag |-> Fact.tag, org |-> Fact.org, project |-> Fact.project, meta |-> Fact.meta]

\* One query of a search: what it has found so far, and what it reads.
Asking(a, turn, hits, fell) ==
  [at |-> "lexical", ask |-> a, turn |-> turn, hits |-> hits, fell |-> fell,
   kw |-> Nothing, bounded |-> FALSE, rows |-> Nothing, facts |-> {}, memory |-> None]

Idle   == [at |-> "idle"]
Silent == [given |-> FALSE]
Unseen == [ever |-> {}, always |-> {0} \cup Ids]

Init ==
  /\ kind \in Kinds
  /\ \E S \in SUBSET {1}, d \in Docs : row = [i \in S |-> d]   \* one from before
  /\ expired = {}
  /\ memory = [text |-> Fact.text, embedding |-> None, state |-> "live"]   \* not embedded yet
  /\ point = [q \in Places |-> [i \in IF q = Place("worker") THEN Live ELSE {} |-> Stored(row[i])]]
  /\ ready = [p \in Procs |-> FALSE]
  /\ txn = [p \in Procs |-> "idle"]
  /\ call = NoCall /\ reply = Nothing
  /\ chunked = {} /\ erasing = {}
  /\ search = Idle /\ answer = Silent
  /\ seen = Unseen
  /\ writes = 0 /\ faults = 0

-----------------------------------------------------------------------------
(***************************************************************************)
(* The adapters.  A call serves a request at a place: it changes the       *)
(* points, or answers with some of them.                                   *)
(***************************************************************************)
\* Mutant: every adapter takes the absence of a tenant for NULL.
SelectsNull(d, s, unscoped) ==
  /\ d.tag = s.tag
  /\ s.org # None => d.org = s.org
  /\ s.project # None => d.project = s.project
  /\ unscoped => d.org = None /\ d.project = None

\* The filter that an adapter makes of a scope.
Selects(d, s, unscoped) ==
  /\ d.tag = s.tag
  /\ s.org # None => d.org = s.org
  /\ s.project # None => d.project = s.project
  /\ unscoped => d.org = Absent /\ d.project = Absent

Selected(points, s, unscoped) == {i \in DOMAIN points : Selects(points[i], s, unscoped)}

Without(f, S) == [i \in DOMAIN f \ S |-> f[i]]

Changed(points, r) ==
  CASE r.op = "upsert"    -> [i \in DOMAIN points \cup {r.id} |-> IF i = r.id THEN Stored(r.doc) ELSE points[i]]
    [] r.op = "delete"    -> Without(points, r.ids)
    [] r.op = "delete_in" -> Without(points, Selected(points, r.scope, r.unscoped))

Fitting(points, r) == {i \in DOMAIN points : Matches(points[i], r.filter)}

\* The ways to rank some of the points by their nearness.
Ranked(points, S, r) == Rankings(S, [i \in S |-> Near[r.query][points[i].text]])

Answers(p, r, answers) ==
  /\ call' = [who |-> p, ok |-> TRUE, request |-> r]
  /\ reply' \in answers /\ UNCHANGED point

Obeys(p, r) ==
  /\ call' = [who |-> p, ok |-> TRUE, request |-> r]
  /\ reply' = Nothing /\ point' = [point EXCEPT ![Place(p)] = Changed(@, r)]

Ignores(p, r) ==
  /\ call' = [who |-> p, ok |-> FALSE, request |-> r]
  /\ reply' = Nothing /\ UNCHANGED point

\* In process and in SQLite the points that match are ranked.
Local(p, r) ==
  LET points == point[Place(p)] IN
  {Top(o, r.limit) : o \in Ranked(points, Selected(points, r.scope, FALSE) \cap Fitting(points, r), r)}

LocalCall(p, r) ==
  /\ kind \in {"memory", "sqlite"}
  /\ IF r.op = "query" THEN Answers(p, r, Local(p, r)) ELSE Obeys(p, r)
  /\ UNCHANGED <<ready, txn>>

\* The nearest are fetched, and those that match are kept.
Fetched(p, r) ==
  LET points == point[Place(p)] IN
  {Kept(Top(o, r.limit), Fitting(points, r)) : o \in Ranked(points, Selected(points, r.scope, FALSE), r)}

Opened(p) == [ready EXCEPT ![p] = TRUE]

\* Qdrant's adapter knows of its collection from its first upsert on.
QdrantCall(p, r) ==
  /\ kind = "qdrant"
  /\ CASE r.op = "upsert"              -> Obeys(p, r)
       [] r.op # "upsert" /\ ~ready[p] -> Ignores(p, r)
       [] r.op = "query" /\ ready[p]   -> Answers(p, r, Fetched(p, r))
       [] OTHER                        -> Obeys(p, r)
  /\ ready' = IF r.op = "upsert" THEN Opened(p) ELSE ready
  /\ UNCHANGED txn

ChromaCall(p, r) ==
  /\ kind = "chroma"
  /\ IF r.op = "query" THEN Answers(p, r, Fetched(p, r)) ELSE Obeys(p, r)
  /\ UNCHANGED <<ready, txn>>

\* The table is altered on the first call, which waits for transactions that have
\* read it.  A query leaves its transaction open; a statement in a transaction
\* that has failed raises.
PgCall(p, r) ==
  /\ kind = "pgvector"
  /\ IF txn[p] = "failed" THEN Ignores(p, r) /\ UNCHANGED <<ready, txn>>
     ELSE /\ ready[p] \/ \A o \in Procs \ {p} : txn[o] # "open"
          /\ IF r.op = "query" THEN Answers(p, r, Fetched(p, r)) ELSE Obeys(p, r)
          /\ ready' = Opened(p)
          /\ txn' = [txn EXCEPT ![p] = IF r.op = "query" THEN "open" ELSE "idle"]

\* A call that the store, or the way to it, fails.
FailedCall(p, r) ==
  /\ faults < MaxFaults /\ kind # "memory"
  /\ Ignores(p, r)
  /\ txn' = [txn EXCEPT ![p] = IF kind = "pgvector" THEN "failed" ELSE @]
  /\ UNCHANGED ready

Call(p, r) ==
  \/ (LocalCall(p, r) \/ QdrantCall(p, r) \/ ChromaCall(p, r) \/ PgCall(p, r)) /\ UNCHANGED faults
  \/ FailedCall(p, r) /\ faults' = faults + 1

Uncalled == call' = NoCall /\ reply' = Nothing /\ UNCHANGED <<store, faults>>
NoAnswer == answer' = Silent

Upsert(i, d)   == [op |-> "upsert", id |-> i, doc |-> d]
Delete(ids)    == [op |-> "delete", ids |-> ids]
DeleteIn(s, u) == [op |-> "delete_in", scope |-> s, unscoped |-> u]
Query(a, q)    ==
  [op |-> "query", query |-> q, scope |-> a.scope, filter |-> a.filter,
   limit |-> IF a.limit * PoolFactor > a.keyword_limit THEN a.limit * PoolFactor ELSE a.keyword_limit]

-----------------------------------------------------------------------------
(***************************************************************************)
(* What changes under a search.                                            *)
(***************************************************************************)
Wrote == writes < MaxWrites /\ writes' = writes + 1 /\ NoAnswer

\* The chunk of a document is added, with the next id after the greatest; it is
\* indexed afterwards.
AddChunk ==
  /\ Wrote /\ chunked = {}
  /\ \E i \in Ids, d \in Docs :
       /\ (\A j \in Live : j < i) /\ (i = 1 \/ i - 1 \in Live)
       /\ row' = [j \in Live \cup {i} |-> IF j = i THEN d ELSE row[j]]
       /\ chunked' = {[id |-> i, doc |-> d]}
  /\ Uncalled
  /\ UNCHANGED <<kind, expired, memory, erasing, search>>

IndexChunk ==
  /\ \E c \in chunked : Call("worker", Upsert(c.id, c.doc))
  /\ chunked' = {}
  /\ NoAnswer /\ UNCHANGED <<kind, tables, erasing, search, writes>>

\* A document's points are deleted, and then its rows; so are those of a tag.  A
\* store that raises ends the request.
Erase(r) ==
  /\ Wrote /\ erasing = {}
  /\ Call("server", r)
  /\ erasing' = IF faults' = faults THEN {r} ELSE {}
  /\ UNCHANGED <<kind, tables, chunked, search>>

EraseChunk == \E i \in Live : Erase(Delete({i}))

EraseTag ==
  \E a \in Asks, legacy_only \in BOOLEAN :
    /\ legacy_only => a.scope.org = None /\ a.scope.project = None
    /\ Erase(DeleteIn(a.scope, legacy_only))

Purged(d, r) == InScope(d, r.scope) /\ (r.unscoped => d.org = None /\ d.project = None)

Erased(r) ==
  IF r.op = "delete" THEN r.ids ELSE {i \in Live : Purged(row[i], r)}

\* SQLite's own points of a tag go with the rows, and so do its memories.
EraseRows ==
  /\ \E r \in erasing :
       /\ row' = Without(row, Erased(r))
       /\ expired' = expired \ Erased(r)
       /\ IF r.op = "delete_in" /\ Purged(Fact, r)
          THEN memory' = [memory EXCEPT !.state = "gone"] ELSE UNCHANGED memory
       /\ IF r.op = "delete_in" /\ kind = "sqlite"
          THEN point' = [point EXCEPT !["shared"] = Changed(@, r)] ELSE UNCHANGED point
  /\ erasing' = {}
  /\ call' = NoCall /\ reply' = Nothing
  /\ NoAnswer /\ UNCHANGED <<kind, chunked, search, writes, ready, txn, faults>>

Expire ==
  /\ Wrote
  /\ \E i \in Live \ expired : expired' = expired \cup {i}
  /\ Uncalled /\ UNCHANGED <<kind, row, memory, chunked, erasing, search>>

\* The memory of a fact is edited, deleted, or expires; the fact is left as it is.
ChangeMemory ==
  /\ Wrote /\ memory.state = "live"
  /\ \/ \E t \in {Edited, Fact.text} \ {memory.text} : memory' = [memory EXCEPT !.text = t]
     \/ memory' = [memory EXCEPT !.state = "gone"]
  /\ Uncalled /\ UNCHANGED <<kind, row, expired, chunked, erasing, search>>

Restart(p) ==
  /\ faults < MaxFaults /\ faults' = faults + 1
  /\ point' = IF kind = "memory" THEN [point EXCEPT ![p] = Nothing] ELSE point
  /\ ready' = [ready EXCEPT ![p] = FALSE]
  /\ txn' = [txn EXCEPT ![p] = "idle"]
  /\ IF p = "worker" THEN chunked' = {} /\ UNCHANGED <<erasing, search>>
     ELSE erasing' = {} /\ search' = Idle /\ UNCHANGED chunked
  /\ call' = NoCall /\ reply' = Nothing
  /\ NoAnswer /\ UNCHANGED <<kind, tables, writes>>

-----------------------------------------------------------------------------
(***************************************************************************)
(* A search.  A key is a chunk, or 0: the memory.  Each statement reads    *)
(* the tables as they are then.                                            *)
(***************************************************************************)
Visible(a) ==
  {i \in Live \ expired : InScope(row[i], a.scope) /\ Matches(row[i], a.filter)}
    \cup (IF memory.state = "live" /\ InScope(Fact, a.scope) /\ Matches(Fact, a.filter) THEN {0} ELSE {})

Word(d, q) == d.text \in Words[q]
Quiet      == Uncalled /\ UNCHANGED <<kind, tables, chunked, erasing, writes>>
Scale      == 61 * 62 * 63
Leg(w, o, k) ==    \* reciprocal rank fusion: _RRF_K = 60
  IF k \in DOMAIN o THEN w * (Scale \div (60 + o[k])) ELSE 0

\* The keyword leg runs first, in whatever order FTS5 ranks the chunks.
Lexical ==
  /\ search.at \in {"idle", "lexical"} /\ NoAnswer
  /\ \E s \in IF search.at = "lexical" THEN {search} ELSE {Asking(a, 1, {}, FALSE) : a \in Asks} :
       LET found == {i \in Live : InScope(row[i], s.ask.scope) /\ Word(row[i], s.ask.queries[s.turn])} IN
       \E o \in Rankings(found, [i \in found |-> 0]) :
         search' = [s EXCEPT !.at = "count", !.kw = Top(o, s.ask.keyword_limit)]
  /\ Quiet

Scoped == {i \in Live \ expired : InScope(row[i], search.ask.scope)}

\* When there are many chunks and some of them have a word, only those will be read.
CountRows ==
  /\ search.at = "count" /\ NoAnswer
  /\ LET bounded == Cardinality(Scoped) > PrefilterMin /\ DOMAIN search.kw # {} IN
     search' = [search EXCEPT !.at = "rows", !.bounded = bounded]
  /\ Quiet

ReadRows ==
  /\ search.at = "rows" /\ NoAnswer
  /\ LET read == {i \in Scoped : /\ search.bounded => i \in DOMAIN search.kw
                                 /\ Matches(row[i], search.ask.filter)} IN
     search' = [search EXCEPT !.at = "facts", !.rows = [i \in read |-> row[i]]]
  /\ Quiet

ReadFacts ==
  /\ search.at = "facts" /\ NoAnswer
  /\ search' = [search EXCEPT !.at = "index", !.memory = memory, !.facts = Visible(search.ask) \cap {0}]
  /\ Quiet

\* The embedding of a fact is good for the text of the fact; for an edited memory
\* another is made, and kept in its place.
Embedding(m) == IF m.embedding = None \/ m.text # Fact.text THEN m.text ELSE m.embedding

\* merge_hits: each key once, at its best score.
Merge(old, new) ==
  {h \in old : \A n \in new : n.key = h.key => h.score >= n.score}
    \cup {n \in new : \A h \in old : n.key = h.key => n.score > h.score}

\* Mutant: a hit counts whether or not its chunk has been read.
UsableAnyway(i) == Matches(View("server")[i], search.ask.filter)

\* Of what the store found, chunks that were not read are passed over.
Usable(i) == i \in DOMAIN search.rows /\ Matches(View("server")[i], search.ask.filter)

\* What a key is shown with: a hit brings its own text.
From(k, found) ==
  CASE k = 0                        -> Told(search.memory.text)
    [] k # 0 /\ k \in DOMAIN found  -> View("server")[k]
    [] k # 0 /\ k \notin DOMAIN found -> search.rows[k]

\* The vectors that are compared in the process: of the facts, and of all chunks
\* that were read when the store has found none of them.
Scored(found) == search.facts \cup (IF DOMAIN found = {} THEN DOMAIN search.rows ELSE {})

Nearness(k, q) == Near[q][IF k = 0 THEN Embedding(search.memory) ELSE search.rows[k].text]

\* The keyword leg, then the fact if it has a word.
Worded(q) ==
  LET facts == {k \in search.facts : Word(search.memory, q)} IN
  Top([k \in DOMAIN search.kw \cup facts |->
         IF k \in DOMAIN search.kw THEN search.kw[k] ELSE Cardinality(DOMAIN search.kw) + 1],
      search.ask.keyword_limit)

Keyed(found, q) ==
  DOMAIN found \cup Scored(found) \cup (DOMAIN Worded(q) \cap (DOMAIN search.rows \cup search.facts))

Fused(found, v, q) ==
  [k \in Keyed(found, q) |-> Leg(6, found, k) + Leg(6, v, k) + Leg(4, Worded(q), k)]

\* HeuristicReranker: the share of the words of the query that a text has.
Relevance(found, q) == [k \in Keyed(found, q) |-> IF Word(From(k, found), q) THEN 1 ELSE 0]

\* The hits that are left of a ranking.
Cut(o, score, found) ==
  {[key |-> k, score |-> score[k], from |-> From(k, found)] : k \in DOMAIN Top(o, search.ask.limit)}

\* The batches of the queries of a search, merged, are its answer.
Conclude(batch, fell) ==
  LET a == search.ask  hits == Merge(search.hits, batch) IN
  \/ /\ search.turn < Len(a.queries)
     /\ search' = Asking(a, search.turn + 1, hits, fell)
     /\ NoAnswer
  \/ /\ search.turn = Len(a.queries)
     /\ search' = Idle
     /\ \E o \in Rankings(hits, [h \in hits |-> h.score]) :
          answer' = [given |-> TRUE, ask |-> a, fell |-> fell, chunks |-> TRUE,
                     hits |-> DOMAIN Top(o, a.limit)]

\* The legs are fused, perhaps ranked again by relevance, and cut to the limit.
Blend(found, q) ==
  LET a == search.ask
      fell == search.fell \/ (DOMAIN found = {} /\ ~search.bounded) IN
  \E v \in Rankings(Scored(found), [k \in Scored(found) |-> Nearness(k, q)]) :
    LET fused == Fused(found, v, q) IN
    \E o \in Rankings(Keyed(found, q), fused) :
      IF ~a.rerank THEN Conclude(Cut(o, fused, found), fell)
      ELSE LET relevance == Relevance(found, q) IN
           \E r \in Rankings(DOMAIN Top(o, a.limit * PoolFactor), relevance) :
             Conclude(Cut(r, relevance, found), fell)

\* The store is asked; an error is no hits.  What follows reads nothing more.
Rank ==
  /\ search.at = "index"
  /\ LET q == search.ask.queries[search.turn] IN
     /\ Call("server", Query(search.ask, q))
     /\ \E found \in {Kept(reply', {i \in DOMAIN reply' : Usable(i)})} : Blend(found, q)
  /\ memory' = IF search.facts = {} THEN memory
               ELSE [memory EXCEPT !.embedding =
                       IF Embedding(search.memory) = search.memory.embedding THEN @ ELSE Embedding(search.memory)]
  /\ UNCHANGED <<kind, row, expired, chunked, erasing, writes>>

\* search_memory_records reads the memories in one statement, embeds their texts anew,
\* and shows those that are neither deleted nor expired.
FindMemories ==
  /\ search.at = "idle"
  /\ \E a \in Asks :
       LET q == a.queries[1]
           nearness == Near[q][memory.text]
           overlap == IF Word(memory, q) THEN 1 ELSE 0
           hit == [key |-> 0, from |-> Told(memory.text),
                   score |-> IF overlap > nearness THEN overlap ELSE nearness] IN
       answer' = [given |-> TRUE, ask |-> a, fell |-> TRUE, chunks |-> FALSE,
                  hits |-> {h \in {hit} : 0 \in Visible(a)}]
  /\ Quiet /\ UNCHANGED search

-----------------------------------------------------------------------------
\* What the search could have found so far, at some time and all the time.
Watch ==
  LET before == IF search.at = "idle" THEN Unseen ELSE seen
      asks == {a \in Asks : IF search.at # "idle" THEN a = search.ask
                            ELSE IF search'.at # "idle" THEN a = search'.ask
                            ELSE answer'.given /\ a = answer'.ask} IN
  \/ asks = {} /\ seen' = Unseen
  \/ \E a \in asks : seen' = [ever   |-> before.ever \cup Visible(a)',
                              always |-> before.always \cap Visible(a)']

Step ==
  \/ AddChunk \/ IndexChunk \/ EraseChunk \/ EraseTag \/ EraseRows \/ Expire \/ ChangeMemory
  \/ \E p \in Procs : Restart(p)
  \/ Lexical \/ CountRows \/ ReadRows \/ ReadFacts \/ Rank \/ FindMemories

Next == Step /\ Watch

Spec == Init /\ [][Next]_vars
-----------------------------------------------------------------------------
(***************************************************************************)
(* Properties.                                                             *)
(***************************************************************************)
Partial(S, T) == UNION {[D -> T] : D \in SUBSET S}

Keys(hits) == {h.key : h \in hits}

Memory == [text : {Fact.text, Edited}, embedding : {None, Fact.text, Edited}, state : {"live", "gone"}]
Shown  == Docs \cup {Told(t) : t \in {Fact.text, Edited}}
Hit    == [key : {0} \cup Ids, score : Nat, from : Shown]

Search ==
  [at : {"lexical", "count", "rows", "facts", "index"}, ask : Asks, turn : Nat, hits : SUBSET Hit,
   fell : BOOLEAN, kw : Partial(Ids, 0 .. MaxId), bounded : BOOLEAN, rows : Partial(Ids, Docs),
   facts : SUBSET {0}, memory : Memory \cup {None}]

Records  == {Stored(d) : d \in Docs}
Erasures == {Delete({i}) : i \in Ids} \cup {DeleteIn(a.scope, u) : a \in Asks, u \in BOOLEAN}

TablesOK ==
  /\ kind \in Kinds
  /\ row \in Partial(Ids, Docs) /\ expired \subseteq Live /\ memory \in Memory
  /\ chunked \subseteq [id : Ids, doc : Docs] /\ erasing \subseteq Erasures

StoreOK ==
  /\ point \in [Places -> Partial(Ids, Records)]
  /\ ready \in [Procs -> BOOLEAN] /\ txn \in [Procs -> {"idle", "open", "failed"}]
  /\ call.who \in Procs \cup {"nobody"} /\ reply \in Partial(Ids, 0 .. MaxId)

Asked ==
  search # Idle =>
    /\ search \in Search /\ search.turn \in 1 .. Len(search.ask.queries)
    /\ search.at = "index" => search.memory \in Memory

Answered == answer.given => answer.ask \in Asks /\ Keys(answer.hits) \subseteq {0} \cup Ids

SearchOK ==
  /\ Asked /\ Answered
  /\ seen \in [ever : SUBSET ({0} \cup Ids), always : SUBSET ({0} \cup Ids)]

\* A search asks each of its queries and no more, what is expired has a row, and
\* what is shown is a document or the fact.
TypeOK ==
  /\ TablesOK /\ StoreOK /\ SearchOK
  /\ writes \in 0 .. MaxWrites /\ faults \in 0 .. MaxFaults

\* Whatever the index holds (points of chunks that are gone, of ids that have been
\* given out again, of other tenants), an answer shows each key once, only keys
\* that were rows of its scope, neither deleted nor expired, while the search ran,
\* and only text of a document of its scope that matches its filter.
Sound ==
  answer.given =>
    /\ Cardinality(answer.hits) <= answer.ask.limit
    /\ \A g, h \in answer.hits : g.key = h.key => g = h
    /\ Keys(answer.hits) \subseteq seen.ever
    /\ \A h \in answer.hits : InScope(h.from, answer.ask.scope) /\ Matches(h.from, answer.ask.filter)

\* Nor does a store that fails, forgets or lags hide what the rows have: an answer
\* that is not full holds the memory if it was there throughout, every chunk with
\* a word of a query, and every chunk at all when the index had nothing to say and
\* the chunks were few enough to be compared.
Complete ==
  answer.given /\ Cardinality(answer.hits) < answer.ask.limit =>
    \A k \in seen.always :
      \/ k \in Keys(answer.hits)
      \/ k > 0 /\ ~answer.chunks
      \/ k > 0 /\ ~answer.fell /\ \A j \in DOMAIN answer.ask.queries : ~Word(row[k], answer.ask.queries[j])
      \/ k > 0 /\ answer.ask.keyword_limit < MaxId

SearchKeepsFaith == Sound /\ Complete

\* Each adapter, to each process, is the store that the protocol promises: a call
\* changes or returns just the points it names, whatever encoding, transaction and
\* readiness are behind it, and one without effect is one that raised or that an
\* adapter ignored because it had not indexed anything yet.
AdaptersAgree == Server!Spec /\ Worker!Spec
=============================================================================
