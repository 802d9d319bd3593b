--------------------------- MODULE KnowledgeProofs ---------------------------
(***************************************************************************)
(* Theorems about what the service knows and how it is found.  Retrieval:  *)
(* for each of the vector stores, any documents, texts and queries,        *)
(* whatever the searches ask for and however many of the writes and faults *)
(* fall between their statements.  The fact graph: for any set of ids and  *)
(* of objects, any number of dreaming workers and whatever the language    *)
(* model answers.                                                          *)
(***************************************************************************)
EXTENDS Retrieval, FactGraph, FiniteSetTheorems, WellFoundedInduction, TLAPS

-----------------------------------------------------------------------------
(***************************************************************************)
(* Partial functions and rankings.                                         *)
(***************************************************************************)
\* A partial function is a function on a subset.
LEMMA PartialIs ==
  ASSUME NEW S, NEW T, NEW f
  PROVE  f \in Partial(S, T) <=> f \in [DOMAIN f -> T] /\ DOMAIN f \subseteq S
  BY DEF Partial

\* VectorIndex counts as Retrieval does.
LEMMA SameCardinality ==
  ASSUME NEW S
  PROVE  Server!Cardinality(S) = Cardinality(S) /\ Worker!Cardinality(S) = Cardinality(S)
  BY Zenon DEF Cardinality, Server!Cardinality, Worker!Cardinality

\* The empty function is one of them.
LEMMA NothingTyped == \A S, T : Nothing \in Partial(S, T) /\ DOMAIN Nothing = {}
<1>1. \A T : Nothing \in [{} -> T]
  BY DEF Nothing
<1> QED
  BY <1>1 DEF Partial, Nothing

\* There are finitely many chunks.
LEMMA IdsFinite ==
  /\ IsFiniteSet(Ids) /\ Cardinality(Ids) = MaxId
  /\ \A S \in SUBSET Ids :
       IsFiniteSet(S) /\ Cardinality(S) \in 0 .. MaxId
<1>1. IsFiniteSet(Ids) /\ Cardinality(Ids) = MaxId
  BY RetrievalConstantsOK, FS_Interval DEF Ids
<1>2. ASSUME NEW S \in SUBSET Ids
      PROVE  IsFiniteSet(S) /\ Cardinality(S) \in 0 .. MaxId
  BY <1>1, FS_Subset, FS_CardinalityType, RetrievalConstantsOK
<1> QED
  BY <1>1, <1>2

\* The keys of a search, finitely many as well.
AllKeys == {0} \cup Ids

LEMMA KeysFinite == \A S \in SUBSET AllKeys : IsFiniteSet(S) /\ Cardinality(S) \in Nat
<1>1. IsFiniteSet({0} \cup Ids)
  BY IdsFinite, FS_Singleton, FS_Union
<1> QED
  BY <1>1, FS_Subset, FS_CardinalityType DEF AllKeys

\* A ranking of a finite set numbers it from 1 on.
LEMMA RankingNumbers ==
  ASSUME NEW S, IsFiniteSet(S), NEW score, NEW o \in Rankings(S, score)
  PROVE  /\ Cardinality(S) \in Nat
         /\ DOMAIN o = S /\ o \in [S -> 1 .. Cardinality(S)]
         /\ \A i, j \in S : o[i] = o[j] => i = j
         /\ \A n \in 1 .. Cardinality(S) : \E i \in S : o[i] = n
<1>1. Cardinality(S) \in Nat
  BY FS_CardinalityType
<1>2. o \in [S -> 1 .. Cardinality(S)] /\ \A i, j \in S : o[i] = o[j] => i = j
  BY SameCardinality DEF Rankings, Server!Rankings
<1>3. IsFiniteSet(1 .. Cardinality(S)) /\ Cardinality(1 .. Cardinality(S)) = Cardinality(S)
  BY <1>1, FS_Interval
<1>4. o \in Injection(S, 1 .. Cardinality(S))
  BY <1>2 DEF Injection, IsInjective
<1>5. o \in Surjection(S, 1 .. Cardinality(S))
  BY <1>3, <1>4, FS_Injection
<1> QED
  BY <1>1, <1>2, <1>5 DEF Surjection

\* The top of a ranking is no larger than its limit, and no smaller, unless it is
\* all of it.
LEMMA TopCuts ==
  ASSUME NEW S, IsFiniteSet(S), NEW score, NEW o \in Rankings(S, score), NEW n \in Nat
  PROVE  /\ DOMAIN Top(o, n) \subseteq S
         /\ Top(o, n) \in [DOMAIN Top(o, n) -> 1 .. Cardinality(S)]
         /\ Cardinality(DOMAIN Top(o, n)) \in Nat
         /\ Cardinality(DOMAIN Top(o, n)) <= n
         /\ Cardinality(DOMAIN Top(o, n)) < n => DOMAIN Top(o, n) = S
<1> DEFINE D == {i \in S : o[i] <= n}
<1>1. /\ Cardinality(S) \in Nat
      /\ DOMAIN o = S /\ o \in [S -> 1 .. Cardinality(S)]
      /\ \A i, j \in S : o[i] = o[j] => i = j
      /\ \A m \in 1 .. Cardinality(S) : \E i \in S : o[i] = m
  BY RankingNumbers
<1>2. Top(o, n) = [i \in D |-> o[i]] /\ DOMAIN Top(o, n) = D
  BY <1>1 DEF Top, Server!Top
<1>3. IsFiniteSet(D) /\ Cardinality(D) \in Nat
  BY FS_Subset, FS_CardinalityType
<1>4. IsFiniteSet(1 .. n) /\ Cardinality(1 .. n) = n
  BY FS_Interval
<1>5. [i \in D |-> o[i]] \in Injection(D, 1 .. n)
  <2>1. [i \in D |-> o[i]] \in [D -> 1 .. n]
    BY <1>1
  <2> QED
    BY <1>1, <2>1 DEF Injection, IsInjective
<1>6. Cardinality(D) <= n
  BY <1>4, <1>5, FS_Injection
<1>7. ASSUME Cardinality(D) < n, D # S
      PROVE  FALSE
  <2>1. PICK k \in S : o[k] > n
    BY <1>1, <1>7
  <2>2. \A m \in 1 .. n : \E i \in D : o[i] = m
    BY <1>1, <2>1
  <2>3. [i \in D |-> o[i]] \in Surjection(D, 1 .. n)
    BY <1>5, <2>2 DEF Surjection, Injection
  <2>4. Cardinality(D) = n
    BY <1>4, <1>5, <2>3, FS_Injection
  <2> QED
    BY <1>7, <2>4
<1> QED
  BY <1>1, <1>2, <1>3, <1>6, <1>7

\* What is kept of an answer is ranked anew.
LEMMA KeptRanks ==
  ASSUME NEW o \in Partial(Ids, 0 .. MaxId), NEW S
  PROVE  /\ DOMAIN Kept(o, S) = DOMAIN o \cap S
         /\ Kept(o, S) \in Partial(Ids, 0 .. MaxId)
<1>1. DOMAIN o \subseteq Ids
  BY PartialIs
<1>2. \A k \in DOMAIN o \cap S : {j \in DOMAIN o \cap S : o[j] <= o[k]} \in SUBSET Ids
  BY <1>1
<1>3. Kept(o, S) = [i \in DOMAIN o \cap S |-> Cardinality({j \in DOMAIN o \cap S : o[j] <= o[i]})]
  BY SameCardinality DEF Kept, Server!Kept
<1>4. Kept(o, S) \in [DOMAIN o \cap S -> 0 .. MaxId]
  BY <1>2, <1>3, IdsFinite
<1> QED
  BY <1>1, <1>4, PartialIs

-----------------------------------------------------------------------------
(***************************************************************************)
(* What the stores keep.                                                   *)
(***************************************************************************)
\* A document comes back from a store as it was, and the filter of an adapter
\* finds just the documents of the scope, whatever stands for NULL there.
LEMMA StoredDocument ==
  ASSUME NEW d \in Docs
  PROVE  /\ Decoded(Stored(d)) = d
         /\ Stored(d).text = d.text /\ Stored(d).meta = d.meta
         /\ \A s, u : /\ s.org # Empty /\ s.project # Empty
                      => (Selects(Stored(d), s, u) <=>
                            InScope(d, s) /\ (u => d.org = None /\ d.project = None))
<1>1. PICK text, tag, org, project, meta :
        d = [text |-> text, tag |-> tag, org |-> org, project |-> project, meta |-> meta]
  <2> DEFINE Fields(text, tag, org, project, meta) ==
               [text |-> text, tag |-> tag, org |-> org, project |-> project, meta |-> meta]
  <2>1. d = Fields(d.text, d.tag, d.org, d.project, d.meta)
    BY RetrievalConstantsOK
  <2> HIDE DEF Fields
  <2>2. \E text, tag, org, project, meta : d = Fields(text, tag, org, project, meta)
    BY <2>1, Zenon
  <2> QED
    BY <2>2 DEF Fields
<1>2. org # Empty /\ project # Empty
  BY <1>1, RetrievalConstantsOK
<1>3. Stored(d) = [text |-> text, tag |-> tag,
                   org |-> IF org = None THEN Absent ELSE org,
                   project |-> IF project = None THEN Absent ELSE project, meta |-> meta]
  BY <1>1 DEF Stored
<1>4. Decoded(Stored(d)) = [text |-> text, tag |-> tag, org |-> org, project |-> project, meta |-> meta]
  BY <1>2, <1>3 DEF Decoded, Absent
<1> QED
  BY <1>1, <1>2, <1>3, <1>4 DEF Selects, Absent, InScope, Server!InScope

\* The points of a place.
Points(p) == point[Place(p)]

\* A process sees the documents that were stored.
LEMMA ViewIs ==
  ASSUME TypeOK, NEW p \in Procs
  PROVE  /\ Place(p) \in Places
         /\ Points(p) \in Partial(Ids, Records)
         /\ DOMAIN View(p) = DOMAIN Points(p) /\ DOMAIN Points(p) \subseteq Ids
         /\ View(p) \in Partial(Ids, Docs)
         /\ \A i \in DOMAIN Points(p) : View(p)[i] \in Docs /\ Points(p)[i] = Stored(View(p)[i])
<1>1. Place(p) \in Places
  BY DEF Place, Places
<1>2. Points(p) \in Partial(Ids, Records)
  BY <1>1 DEF Points, TypeOK, StoreOK
<1>3. Points(p) \in [DOMAIN Points(p) -> Records] /\ DOMAIN Points(p) \subseteq Ids
  BY <1>2, PartialIs
<1>4. View(p) = [i \in DOMAIN Points(p) |-> Decoded(Points(p)[i])]
  BY DEF View, Points
<1>5. ASSUME NEW i \in DOMAIN Points(p)
      PROVE  View(p)[i] \in Docs /\ Points(p)[i] = Stored(View(p)[i])
  <2>1. PICK d \in Docs : Points(p)[i] = Stored(d)
    BY <1>3 DEF Records
  <2> QED
    BY <1>4, <2>1, StoredDocument
<1>6. View(p) \in Partial(Ids, Docs)
  BY <1>3, <1>4, <1>5, PartialIs
<1> QED
  BY <1>1, <1>2, <1>3, <1>4, <1>5, <1>6

\* The requests that the server and the worker make.
Requests ==
  {Upsert(i, d) : i \in Ids, d \in Docs} \cup {Delete({i}) : i \in Ids}
    \cup {DeleteIn(a.scope, u) : a \in Asks, u \in BOOLEAN}
    \cup {Query(a, q) : a \in Asks, q \in DOMAIN Near}

LEMMA RequestIs ==
  ASSUME NEW r \in Requests
  PROVE  /\ r.op \in {"upsert", "delete", "delete_in", "query"}
         /\ r.op = "upsert" => r.id \in Ids /\ r.doc \in Docs
         /\ r.op \in {"delete_in", "query"} => r.scope.org # Empty /\ r.scope.project # Empty
         /\ r.op = "query" => r.limit \in Nat
<1>1. \A a \in Asks : /\ a.scope.org # Empty /\ a.scope.project # Empty
                      /\ a.limit * PoolFactor \in Nat /\ a.keyword_limit \in Nat
  BY RetrievalConstantsOK
<1>2. CASE \E i \in Ids, d \in Docs : r = Upsert(i, d)
  BY <1>2 DEF Upsert
<1>3. CASE \E i \in Ids : r = Delete({i})
  BY <1>3 DEF Delete
<1>4. CASE \E a \in Asks, u \in BOOLEAN : r = DeleteIn(a.scope, u)
  BY <1>1, <1>4 DEF DeleteIn
<1>5. CASE \E a \in Asks, q \in DOMAIN Near : r = Query(a, q)
  <2>1. PICK a \in Asks, q \in DOMAIN Near : r = Query(a, q)
    BY <1>5
  <2> QED
    BY <1>1, <2>1 DEF Query
<1> QED
  BY <1>2, <1>3, <1>4, <1>5 DEF Requests

\* A call obeys the request, answers it, or does nothing.
LEMMA CallCases ==
  ASSUME TypeOK, NEW p \in Procs, NEW r \in Requests, Call(p, r)
  PROVE  /\ \/ r.op # "query" /\ Obeys(p, r)
            \/ r.op = "query" /\ Answers(p, r, Local(p, r) \cup Fetched(p, r))
            \/ Ignores(p, r)
         /\ ready' \in [Procs -> BOOLEAN] /\ txn' \in [Procs -> {"idle", "open", "failed"}]
         /\ faults' \in 0 .. MaxFaults
<1>0. /\ faults \in 0 .. MaxFaults /\ MaxFaults \in Nat
      /\ ready \in [Procs -> BOOLEAN] /\ txn \in [Procs -> {"idle", "open", "failed"}]
  BY RetrievalConstantsOK DEF TypeOK, StoreOK
<1>1. CASE LocalCall(p, r) /\ UNCHANGED faults
  BY <1>0, <1>1 DEF LocalCall, Answers
<1>2. CASE QdrantCall(p, r) /\ UNCHANGED faults
  <2>1. \/ r.op # "query" /\ Obeys(p, r)
        \/ r.op = "query" /\ Answers(p, r, Fetched(p, r))
        \/ Ignores(p, r)
    BY <1>2, RequestIs DEF QdrantCall
  <2>2. ready' \in [Procs -> BOOLEAN] /\ UNCHANGED txn
    BY <1>0, <1>2 DEF QdrantCall, Opened
  <2> QED
    BY <1>0, <1>2, <2>1, <2>2 DEF Answers
<1>3. CASE ChromaCall(p, r) /\ UNCHANGED faults
  BY <1>0, <1>3 DEF ChromaCall, Answers
<1>4. CASE PgCall(p, r) /\ UNCHANGED faults
  <2>1. \/ r.op # "query" /\ Obeys(p, r)
        \/ r.op = "query" /\ Answers(p, r, Fetched(p, r))
        \/ Ignores(p, r)
    BY <1>4 DEF PgCall
  <2>2. ready' \in [Procs -> BOOLEAN] /\ txn' \in [Procs -> {"idle", "open", "failed"}]
    BY <1>0, <1>4 DEF PgCall, Opened
  <2> QED
    BY <1>0, <1>4, <2>1, <2>2 DEF Answers
<1>5. CASE FailedCall(p, r) /\ faults' = faults + 1
  BY <1>0, <1>5 DEF FailedCall
<1> QED
  BY <1>1, <1>2, <1>3, <1>4, <1>5 DEF Call

\* Whatever is stored or deleted, the points are documents that were stored.
LEMMA ChangedTyped ==
  ASSUME NEW points \in Partial(Ids, Records), NEW r \in Requests, r.op # "query"
  PROVE  Changed(points, r) \in Partial(Ids, Records)
<1>1. points \in [DOMAIN points -> Records] /\ DOMAIN points \subseteq Ids
  BY PartialIs
<1>2. ASSUME NEW S PROVE Without(points, S) \in Partial(Ids, Records)
  BY <1>1, PartialIs DEF Without
<1>3. CASE r.op = "upsert"
  <2> DEFINE next == [i \in DOMAIN points \cup {r.id} |-> IF i = r.id THEN Stored(r.doc) ELSE points[i]]
  <2>1. next \in [DOMAIN next -> Records] /\ DOMAIN next \subseteq Ids
    BY <1>1, <1>3, RequestIs DEF Records
  <2>2. next \in Partial(Ids, Records)
    BY <2>1, PartialIs
  <2> QED
    BY <1>3, <2>2 DEF Changed
<1>4. CASE r.op = "delete"
  BY <1>2, <1>4 DEF Changed
<1>5. CASE r.op = "delete_in"
  BY <1>2, <1>5 DEF Changed
<1> QED
  BY <1>3, <1>4, <1>5, RequestIs

\* An answer ranks identifiers of points.
LEMMA AnswersTyped ==
  ASSUME TypeOK, NEW p \in Procs, NEW r \in Requests, r.op = "query",
         NEW o \in Local(p, r) \cup Fetched(p, r)
  PROVE  o \in Partial(Ids, 0 .. MaxId)
<1>1. r.limit \in Nat
  BY RequestIs
<1>2. DOMAIN Points(p) \subseteq Ids
  BY ViewIs
<1>3. ASSUME NEW S \in SUBSET Ids, NEW t \in Ranked(Points(p), S, r)
      PROVE  Top(t, r.limit) \in Partial(Ids, 0 .. MaxId)
  <2>1. IsFiniteSet(S) /\ Cardinality(S) \in 0 .. MaxId
    BY IdsFinite
  <2>2. /\ DOMAIN Top(t, r.limit) \subseteq S
        /\ Top(t, r.limit) \in [DOMAIN Top(t, r.limit) -> 1 .. Cardinality(S)]
    BY <1>1, <1>3, <2>1, TopCuts DEF Ranked
  <2>3. Top(t, r.limit) \in [DOMAIN Top(t, r.limit) -> 0 .. MaxId]
    BY <2>1, <2>2, RetrievalConstantsOK
  <2> QED
    BY <2>2, <2>3, PartialIs
<1>4. CASE o \in Local(p, r)
  BY <1>2, <1>3, <1>4 DEF Local, Points, Selected
<1>5. CASE o \in Fetched(p, r)
  BY <1>2, <1>3, <1>5, KeptRanks DEF Fetched, Points, Selected
<1> QED
  BY <1>4, <1>5

\* A call leaves points, answers and the adapter well-formed.
LEMMA CallTyped ==
  ASSUME TypeOK, NEW p \in Procs, NEW r \in Requests, Call(p, r), UNCHANGED kind
  PROVE  /\ point' \in [Places -> Partial(Ids, Records)]
         /\ call'.who = p /\ reply' \in Partial(Ids, 0 .. MaxId)
         /\ ready' \in [Procs -> BOOLEAN] /\ txn' \in [Procs -> {"idle", "open", "failed"}]
         /\ faults' \in 0 .. MaxFaults
<1>1. Nothing \in Partial(Ids, 0 .. MaxId)
  BY NothingTyped
<1>2. point \in [Places -> Partial(Ids, Records)] /\ Place(p) \in Places
  BY ViewIs DEF TypeOK, StoreOK
<1>3. CASE r.op # "query" /\ Obeys(p, r)
  <2>1. Changed(Points(p), r) \in Partial(Ids, Records)
    BY <1>3, ViewIs, ChangedTyped
  <2>2. point' = [point EXCEPT ![Place(p)] = Changed(Points(p), r)]
    BY <1>2, <1>3 DEF Obeys, Points
  <2> QED
    BY <1>1, <1>2, <1>3, <2>1, <2>2, CallCases DEF Obeys
<1>4. CASE r.op = "query" /\ Answers(p, r, Local(p, r) \cup Fetched(p, r))
  BY <1>2, <1>4, CallCases, AnswersTyped DEF Answers
<1>5. CASE Ignores(p, r)
  BY <1>1, <1>2, <1>5, CallCases DEF Ignores
<1> QED
  BY <1>3, <1>4, <1>5, CallCases

-----------------------------------------------------------------------------
(***************************************************************************)
(* Types.                                                                  *)
(***************************************************************************)
LEMMA SameRecords == UNCHANGED kind => Records' = Records
  BY DEF Records, Stored, Absent

\* A call leaves the store well-formed, and so does none.
LEMMA StoreTyped ==
  ASSUME TypeOK, UNCHANGED kind,
         \/ \E p \in Procs, r \in Requests : Call(p, r)
         \/ Uncalled
  PROVE  StoreOK' /\ faults' \in 0 .. MaxFaults
<1>1. CASE \E p \in Procs, r \in Requests : Call(p, r)
  <2>1. PICK p \in Procs, r \in Requests : Call(p, r)
    BY <1>1
  <2>2. /\ point' \in [Places -> Partial(Ids, Records)]
        /\ call'.who = p /\ reply' \in Partial(Ids, 0 .. MaxId)
        /\ ready' \in [Procs -> BOOLEAN] /\ txn' \in [Procs -> {"idle", "open", "failed"}]
        /\ faults' \in 0 .. MaxFaults
    BY <2>1, CallTyped
  <2> QED
    BY <2>2, SameRecords DEF StoreOK
<1>2. CASE Uncalled
  <2>1. NoCall.who = "nobody"
    BY DEF NoCall
  <2> QED
    BY <1>2, <2>1, SameRecords, NothingTyped DEF Uncalled, TypeOK, StoreOK, store
<1> QED
  BY <1>1, <1>2

\* What searches can find has a key.
LEMMA VisibleTyped == TablesOK => Live \subseteq Ids /\ \A a : Visible(a) \subseteq AllKeys
<1>1. TablesOK => Live \subseteq Ids
  BY PartialIs DEF TablesOK, Live
<1> QED
  BY <1>1 DEF Visible, AllKeys

\* So has what has been watched.
LEMMA WatchTyped ==
  ASSUME TypeOK, TablesOK', Watch
  PROVE  seen' \in [ever : SUBSET AllKeys, always : SUBSET AllKeys]
<1> DEFINE before == IF search.at = "idle" THEN Unseen ELSE seen
<1>1. before \in [ever : SUBSET AllKeys, always : SUBSET AllKeys]
  BY DEF Unseen, AllKeys, TypeOK, SearchOK
<1>2. \A a : Visible(a)' \subseteq AllKeys
  <2>1. TablesOK' => (\A a : Visible(a) \subseteq AllKeys)'
    BY VisibleTyped, PTL
  <2> QED
    BY <2>1
<1>3. CASE seen' = Unseen
  BY <1>3 DEF Unseen, AllKeys
<1>4. CASE \E a \in Asks : seen' = [ever |-> before.ever \cup Visible(a)', always |-> before.always \cap Visible(a)']
  BY <1>1, <1>2, <1>4
<1> QED
  BY <1>3, <1>4 DEF Watch

\* Without an answer nothing is said of one.
LEMMA SilentTyped == NoAnswer => Answered'
  BY DEF NoAnswer, Silent, Answered

\* Writes are bounded.
LEMMA WroteTyped == TypeOK /\ Wrote => writes' \in 0 .. MaxWrites /\ NoAnswer
  BY RetrievalConstantsOK DEF TypeOK, Wrote

\* The part of the invariant that is not about what was seen.
RestOK == TablesOK /\ StoreOK /\ Asked /\ Answered /\ writes \in 0 .. MaxWrites /\ faults \in 0 .. MaxFaults

LEMMA AddChunkTyped == TypeOK /\ AddChunk => RestOK'
<1> SUFFICES ASSUME TypeOK, AddChunk PROVE RestOK'
  OBVIOUS
<1>1. row \in [Live -> Docs] /\ Live \subseteq Ids /\ expired \subseteq Live /\ memory \in Memory /\ kind \in Kinds
      /\ erasing \subseteq Erasures
  BY PartialIs DEF TypeOK, TablesOK, Live
<1>2. PICK i \in Ids, d \in Docs :
        /\ row' = [j \in Live \cup {i} |-> IF j = i THEN d ELSE row[j]]
        /\ chunked' = {[id |-> i, doc |-> d]}
  BY DEF AddChunk
<1>3. row' \in [DOMAIN row' -> Docs] /\ DOMAIN row' = Live \cup {i}
  BY <1>1, <1>2
<1>4. row' \in Partial(Ids, Docs)
  BY <1>1, <1>3, PartialIs
<1>5. TablesOK'
  <2>1. UNCHANGED <<kind, expired, memory, erasing>>
    BY DEF AddChunk
  <2>2. chunked' \subseteq [id : Ids, doc : Docs]
    BY <1>2
  <2> QED
    BY <1>1, <1>3, <1>4, <2>1, <2>2 DEF TablesOK, Live
<1> QED
  BY <1>5, StoreTyped, WroteTyped, SilentTyped DEF AddChunk, RestOK, TypeOK, SearchOK, Asked

LEMMA IndexChunkTyped == TypeOK /\ IndexChunk => RestOK'
<1> SUFFICES ASSUME TypeOK, IndexChunk PROVE RestOK'
  OBVIOUS
<1>1. PICK c \in chunked : Call("worker", Upsert(c.id, c.doc))
  BY DEF IndexChunk
<1>2. Upsert(c.id, c.doc) \in Requests
  BY DEF TypeOK, TablesOK, Requests
<1>3. StoreOK' /\ faults' \in 0 .. MaxFaults
  BY <1>1, <1>2, StoreTyped DEF IndexChunk, Procs
<1>4. TablesOK'
  BY DEF IndexChunk, TypeOK, TablesOK, tables, Live
<1> QED
  BY <1>3, <1>4, SilentTyped DEF IndexChunk, RestOK, TypeOK, SearchOK, Asked

\* A deletion has been asked for in one of two ways.
LEMMA EraseTyped == ASSUME TypeOK, NEW r \in Erasures, Erase(r) PROVE RestOK'
<1>1. r \in Requests
  BY DEF Erasures, Requests
<1>2. StoreOK' /\ faults' \in 0 .. MaxFaults
  BY <1>1, StoreTyped DEF Erase, Procs
<1>3. TablesOK'
  BY DEF Erase, TypeOK, TablesOK, tables, Live
<1> QED
  BY <1>2, <1>3, SilentTyped, WroteTyped DEF Erase, RestOK, TypeOK, SearchOK, Asked

LEMMA ErasuresTyped == TypeOK /\ (EraseChunk \/ EraseTag) => RestOK'
<1>1. ASSUME TypeOK, EraseChunk PROVE RestOK'
  <2>1. PICK i \in Live : Erase(Delete({i}))
    BY <1>1 DEF EraseChunk
  <2>2. Live \subseteq Ids
    BY <1>1, PartialIs DEF TypeOK, TablesOK, Live
  <2> QED
    BY <1>1, <2>1, <2>2, EraseTyped DEF Erasures
<1>2. ASSUME TypeOK, EraseTag PROVE RestOK'
  <2>1. PICK a \in Asks, u \in BOOLEAN : Erase(DeleteIn(a.scope, u))
    BY <1>2 DEF EraseTag
  <2> QED
    BY <1>2, <2>1, EraseTyped DEF Erasures
<1> QED
  BY <1>1, <1>2

\* A part of a partial function is one.
LEMMA WithoutTyped ==
  ASSUME NEW S, NEW T, NEW f \in Partial(S, T), NEW D
  PROVE  Without(f, D) \in Partial(S, T) /\ DOMAIN Without(f, D) = DOMAIN f \ D
<1>1. f \in [DOMAIN f -> T] /\ DOMAIN f \subseteq S
  BY PartialIs
<1>2. Without(f, D) \in [DOMAIN f \ D -> T]
  BY <1>1 DEF Without
<1> QED
  BY <1>1, <1>2, PartialIs

\* The changes of a place, and of nothing else.
LEMMA PlaceTyped ==
  ASSUME TypeOK, UNCHANGED kind, NEW q \in Places, NEW f \in Partial(Ids, Records),
         point' = point \/ point' = [point EXCEPT ![q] = f],
         ready' \in [Procs -> BOOLEAN], txn' \in [Procs -> {"idle", "open", "failed"}],
         call' = NoCall, reply' = Nothing
  PROVE  StoreOK'
<1>1. point' \in [Places -> Partial(Ids, Records)]
  BY DEF TypeOK, StoreOK
<1>2. NoCall.who = "nobody"
  BY DEF NoCall
<1> QED
  BY <1>1, <1>2, SameRecords, NothingTyped DEF StoreOK

LEMMA EraseRowsTyped == TypeOK /\ EraseRows => RestOK'
<1> SUFFICES ASSUME TypeOK, EraseRows PROVE RestOK'
  OBVIOUS
<1>1. PICK r \in erasing :
        /\ row' = Without(row, Erased(r)) /\ expired' = expired \ Erased(r)
        /\ memory' = [memory EXCEPT !.state = "gone"] \/ UNCHANGED memory
        /\ \/ r.op = "delete_in" /\ point' = [point EXCEPT !["shared"] = Changed(@, r)]
           \/ UNCHANGED point
  BY DEF EraseRows
<1>2. row' \in Partial(Ids, Docs) /\ Live' = Live \ Erased(r)
  BY <1>1, WithoutTyped DEF TypeOK, TablesOK, Live
<1>3. memory' \in Memory
  <2>1. memory \in Memory
    BY DEF TypeOK, TablesOK
  <2> QED
    BY <1>1, <2>1 DEF Memory
<1>4. TablesOK'
  <2>1. kind' = kind /\ chunked' = chunked /\ erasing' = {}
    BY DEF EraseRows
  <2> QED
    BY <1>1, <1>2, <1>3, <2>1 DEF TypeOK, TablesOK
<1>5. StoreOK'
  <2>1. point["shared"] \in Partial(Ids, Records) /\ "shared" \in Places
    BY DEF TypeOK, StoreOK, Places
  <2>2. r.op = "delete_in" => Changed(point["shared"], r) \in Partial(Ids, Records)
    BY <2>1, WithoutTyped DEF Changed
  <2>3. \/ point' = point
        \/ r.op = "delete_in" /\ point' = [point EXCEPT !["shared"] = Changed(point["shared"], r)]
    BY <1>1, <2>1
  <2>4. CASE point' = point
    BY <2>1, <2>4, PlaceTyped DEF EraseRows, TypeOK, StoreOK
  <2>5. CASE r.op = "delete_in" /\ point' = [point EXCEPT !["shared"] = Changed(point["shared"], r)]
    BY <2>1, <2>2, <2>5, PlaceTyped DEF EraseRows, TypeOK, StoreOK
  <2> QED
    BY <2>3, <2>4, <2>5
<1> QED
  BY <1>4, <1>5, SilentTyped DEF EraseRows, RestOK, TypeOK, SearchOK, Asked

LEMMA ExpireTyped == TypeOK /\ Expire => RestOK'
<1> SUFFICES ASSUME TypeOK, Expire PROVE RestOK'
  OBVIOUS
<1>1. TablesOK'
  BY DEF Expire, TypeOK, TablesOK, Live
<1> QED
  BY <1>1, StoreTyped, WroteTyped, SilentTyped DEF Expire, RestOK, TypeOK, SearchOK, Asked

LEMMA ChangeMemoryTyped == TypeOK /\ ChangeMemory => RestOK'
<1> SUFFICES ASSUME TypeOK, ChangeMemory PROVE RestOK'
  OBVIOUS
<1>1. memory' \in Memory
  <2>1. memory \in Memory
    BY DEF TypeOK, TablesOK
  <2> QED
    BY <2>1 DEF Memory, ChangeMemory
<1>2. TablesOK'
  BY <1>1 DEF ChangeMemory, TypeOK, TablesOK, Live
<1> QED
  BY <1>2, StoreTyped, WroteTyped, SilentTyped DEF ChangeMemory, RestOK, TypeOK, SearchOK, Asked

LEMMA RestartTyped == ASSUME TypeOK, NEW p \in Procs, Restart(p) PROVE RestOK'
<1>1. TablesOK'
  BY DEF Restart, TypeOK, TablesOK, tables, Live
<1>2. StoreOK'
  <2>1. p \in Places /\ Nothing \in Partial(Ids, Records)
    BY NothingTyped DEF Places
  <2> QED
    BY <2>1, PlaceTyped DEF Restart, TypeOK, StoreOK
<1>3. Asked'
  BY DEF Restart, TypeOK, SearchOK, Asked
<1>4. writes' \in 0 .. MaxWrites /\ faults' \in 0 .. MaxFaults
  BY RetrievalConstantsOK DEF Restart, TypeOK
<1> QED
  BY <1>1, <1>2, <1>3, <1>4, SilentTyped DEF Restart, RestOK

\* A statement that only reads.
LEMMA QuietTyped ==
  ASSUME TypeOK, Quiet
  PROVE  /\ TablesOK' /\ StoreOK' /\ writes' \in 0 .. MaxWrites /\ faults' \in 0 .. MaxFaults
<1>1. TablesOK'
  BY DEF Quiet, TypeOK, TablesOK, tables, Live
<1> QED
  BY <1>1, StoreTyped DEF Quiet, TypeOK

\* A query that begins is one of its search.
LEMMA AskingTyped ==
  ASSUME NEW a \in Asks, NEW turn \in 1 .. Len(a.queries), NEW hits \in SUBSET Hit, NEW fell \in BOOLEAN
  PROVE  /\ Asking(a, turn, hits, fell) \in Search
         /\ Asking(a, turn, hits, fell).at = "lexical"
         /\ Asking(a, turn, hits, fell).ask = a
         /\ Asking(a, turn, hits, fell).turn = turn
         /\ Asking(a, turn, hits, fell).hits = hits
         /\ Asking(a, turn, hits, fell).fell = fell
<1>1. /\ Nothing \in Partial(Ids, 0 .. MaxId) /\ Nothing \in Partial(Ids, Docs) /\ turn \in Nat
  BY NothingTyped, RetrievalConstantsOK
<1> HIDE DEF Nothing
<1> QED
  BY <1>1 DEF Asking, Search

\* The search in hand.
LEMMA SearchIs ==
  ASSUME TypeOK, search.at # "idle"
  PROVE  /\ search \in Search /\ search.turn \in 1 .. Len(search.ask.queries)
         /\ search.ask \in Asks /\ Len(search.ask.queries) \in Nat \ {0}
         /\ search.ask.limit \in Nat \ {0} /\ search.ask.keyword_limit \in Nat
         /\ search.ask.rerank \in BOOLEAN
         /\ DOMAIN search.kw \subseteq Ids /\ search.kw \in [DOMAIN search.kw -> 0 .. MaxId]
         /\ DOMAIN search.rows \subseteq Ids /\ search.rows \in [DOMAIN search.rows -> Docs]
         /\ search.facts \subseteq {0} /\ search.hits \subseteq Hit
<1>1. search # Idle
  BY DEF Idle
<1>2. search \in Search /\ search.turn \in 1 .. Len(search.ask.queries)
  BY <1>1 DEF TypeOK, SearchOK, Asked
<1>3. search.kw \in Partial(Ids, 0 .. MaxId) /\ search.rows \in Partial(Ids, Docs) /\ search.ask \in Asks
      /\ search.facts \subseteq {0} /\ search.hits \subseteq Hit
  BY <1>2 DEF Search
<1> QED
  BY <1>2, <1>3, PartialIs, RetrievalConstantsOK

\* The query of the turn is one that has texts near to it.
LEMMA TurnIs ==
  ASSUME TypeOK, search.at # "idle"
  PROVE  search.ask.queries[search.turn] \in DOMAIN Near
<1>1. search.ask \in Asks /\ search.turn \in 1 .. Len(search.ask.queries)
  BY SearchIs
<1>2. search.ask.queries \in Seq(DOMAIN Near)
  BY <1>1, RetrievalConstantsOK
<1> QED
  BY <1>1, <1>2

\* The ranked are a part of what was to be ranked.
LEMMA RankedIs ==
  ASSUME NEW S, NEW score, NEW o \in Rankings(S, score), NEW n
  PROVE  DOMAIN o = S /\ DOMAIN Top(o, n) = {k \in S : o[k] <= n} /\ DOMAIN Top(o, n) \subseteq S
  BY DEF Rankings, Server!Rankings, Top, Server!Top

LEMMA LexicalTyped == TypeOK /\ Lexical => RestOK'
<1> SUFFICES ASSUME TypeOK, Lexical PROVE RestOK'
  OBVIOUS
<1>1. PICK s \in IF search.at = "lexical" THEN {search} ELSE {Asking(a, 1, {}, FALSE) : a \in Asks} :
        LET found == {i \in Live : InScope(row[i], s.ask.scope) /\ Word(row[i], s.ask.queries[s.turn])} IN
        \E o \in Rankings(found, [i \in found |-> 0]) :
          search' = [s EXCEPT !.at = "count", !.kw = Top(o, s.ask.keyword_limit)]
  BY DEF Lexical
<1>2. s \in Search /\ s.turn \in 1 .. Len(s.ask.queries)
  <2>1. CASE search.at = "lexical"
    BY <1>1, <2>1, SearchIs
  <2>2. CASE search.at # "lexical"
    <3>1. PICK a \in Asks : s = Asking(a, 1, {}, FALSE)
      BY <1>1, <2>2
    <3>2. 1 \in 1 .. Len(a.queries)
      BY RetrievalConstantsOK
    <3>3. /\ Asking(a, 1, {}, FALSE) \in Search
          /\ Asking(a, 1, {}, FALSE).ask = a /\ Asking(a, 1, {}, FALSE).turn = 1
      <4>1. Nothing \in Partial(Ids, 0 .. MaxId) /\ Nothing \in Partial(Ids, Docs)
        BY NothingTyped
      <4> HIDE DEF Nothing
      <4> QED
        BY <4>1 DEF Asking, Search
    <3> QED
      BY <3>1, <3>2, <3>3
  <2> QED
    BY <2>1, <2>2
<1>3. s.ask \in Asks /\ s.ask.keyword_limit \in Nat
  BY <1>2, RetrievalConstantsOK DEF Search
<1> DEFINE found == {i \in Live : InScope(row[i], s.ask.scope) /\ Word(row[i], s.ask.queries[s.turn])}
<1>4. PICK o \in Rankings(found, [i \in found |-> 0]) :
        search' = [s EXCEPT !.at = "count", !.kw = Top(o, s.ask.keyword_limit)]
  BY <1>1
<1>5. found \subseteq Ids
  BY VisibleTyped DEF TypeOK
<1>6. Top(o, s.ask.keyword_limit) \in Partial(Ids, 0 .. MaxId)
  <2> HIDE DEF found
  <2>1. IsFiniteSet(found) /\ Cardinality(found) \in 0 .. MaxId
    BY <1>5, IdsFinite
  <2> DEFINE t == Top(o, s.ask.keyword_limit)
  <2>2. DOMAIN t \subseteq found /\ t \in [DOMAIN t -> 1 .. Cardinality(found)]
    BY <1>3, <1>4, <2>1, TopCuts
  <2> HIDE DEF t
  <2>3. t \in [DOMAIN t -> 0 .. MaxId]
    BY <2>1, <2>2, RetrievalConstantsOK
  <2>4. t \in Partial(Ids, 0 .. MaxId)
    BY <1>5, <2>2, <2>3, PartialIs
  <2> QED
    BY <2>4 DEF t
<1>7. Asked'
  BY <1>2, <1>4, <1>6 DEF Asked, Search
<1> QED
  BY <1>7, QuietTyped, SilentTyped DEF Lexical, RestOK

LEMMA CountTyped == TypeOK /\ CountRows => RestOK'
<1> SUFFICES ASSUME TypeOK, CountRows PROVE RestOK'
  OBVIOUS
<1>1. PICK bounded \in BOOLEAN : search' = [search EXCEPT !.at = "rows", !.bounded = bounded]
  BY DEF CountRows
<1>2. search \in Search /\ search.turn \in 1 .. Len(search.ask.queries)
  BY SearchIs DEF CountRows
<1>3. Asked'
  BY <1>1, <1>2 DEF Asked, Search
<1> QED
  BY <1>3, QuietTyped, SilentTyped DEF CountRows, RestOK

LEMMA RowsTyped == TypeOK /\ ReadRows => RestOK'
<1> SUFFICES ASSUME TypeOK, ReadRows PROVE RestOK'
  OBVIOUS
<1>1. PICK read \in SUBSET Live : search' = [search EXCEPT !.at = "facts", !.rows = [i \in read |-> row[i]]]
  <2> DEFINE read == {i \in Scoped : /\ search.bounded => i \in DOMAIN search.kw
                                     /\ Matches(row[i], search.ask.filter)}
  <2>1. search' = [search EXCEPT !.at = "facts", !.rows = [i \in read |-> row[i]]]
    BY DEF ReadRows
  <2>2. read \in SUBSET Live
    BY DEF Scoped
  <2> HIDE DEF read
  <2> QED
    BY <2>1, <2>2
<1>2. row \in [Live -> Docs] /\ Live \subseteq Ids
  BY PartialIs DEF TypeOK, TablesOK, Live
<1>3. [i \in read |-> row[i]] \in Partial(Ids, Docs)
  BY <1>2, PartialIs
<1>4. search \in Search /\ search.turn \in 1 .. Len(search.ask.queries)
  BY SearchIs DEF ReadRows
<1>5. Asked'
  BY <1>1, <1>3, <1>4 DEF Asked, Search
<1> QED
  BY <1>5, QuietTyped, SilentTyped DEF ReadRows, RestOK

LEMMA FactsTyped == TypeOK /\ ReadFacts => RestOK'
<1> SUFFICES ASSUME TypeOK, ReadFacts PROVE RestOK'
  OBVIOUS
<1>1. search' = [search EXCEPT !.at = "index", !.memory = memory, !.facts = Visible(search.ask) \cap {0}]
  BY DEF ReadFacts
<1>2. search \in Search /\ search.turn \in 1 .. Len(search.ask.queries)
  BY SearchIs DEF ReadFacts
<1>3. memory \in Memory
  BY DEF TypeOK, TablesOK
<1>4. Asked'
  BY <1>1, <1>2, <1>3 DEF Asked, Search
<1> QED
  BY <1>4, QuietTyped, SilentTyped DEF ReadFacts, RestOK

LEMMA FindMemoriesTyped == TypeOK /\ FindMemories => RestOK'
<1> SUFFICES ASSUME TypeOK, FindMemories PROVE RestOK'
  OBVIOUS
<1>1. PICK a, hit :
        /\ a \in Asks /\ hit.key = 0
        /\ answer' = [given |-> TRUE, ask |-> a, fell |-> TRUE, chunks |-> FALSE,
                      hits |-> {h \in {hit} : 0 \in Visible(a)}]
  BY DEF FindMemories
<1>2. Answered'
  BY <1>1 DEF Answered, Keys
<1>3. Asked'
  BY DEF FindMemories, TypeOK, SearchOK, Asked
<1> QED
  BY <1>2, <1>3, QuietTyped DEF FindMemories, RestOK

LEMMA InitTyped == Init => TypeOK
<1> SUFFICES ASSUME Init PROVE TypeOK
  OBVIOUS
<1>1. row \in [Live -> Docs] /\ Live \subseteq Ids
  BY RetrievalConstantsOK DEF Init, Live, Ids
<1>2. TablesOK
  BY <1>1, PartialIs DEF Init, TablesOK, Memory, Live
<1>3. StoreOK
  <2>1. ASSUME NEW S \in SUBSET Live PROVE [i \in S |-> Stored(row[i])] \in Partial(Ids, Records)
    BY <1>1, PartialIs DEF Records
  <2>2. point \in [Places -> Partial(Ids, Records)]
    <3> DEFINE Held(q) == [i \in IF q = Place("worker") THEN Live ELSE {} |-> Stored(row[i])]
    <3>1. \A q \in Places : Held(q) \in Partial(Ids, Records)
      BY <2>1
    <3>2. point = [q \in Places |-> Held(q)]
      BY DEF Init
    <3> HIDE DEF Held
    <3> QED
      BY <3>1, <3>2
  <2> QED
    BY <2>2, NothingTyped DEF Init, StoreOK, NoCall
<1>4. SearchOK
  BY DEF Init, SearchOK, Asked, Answered, Silent, Unseen
<1> QED
  BY <1>2, <1>3, <1>4, RetrievalConstantsOK DEF Init, TypeOK

-----------------------------------------------------------------------------
(***************************************************************************)
(* Hits.                                                                   *)
(***************************************************************************)
Unique(hits) == \A g, h \in hits : g.key = h.key => g = h

\* There are as many hits as keys.
LEMMA HitsFinite ==
  ASSUME NEW hits \in SUBSET Hit, Unique(hits)
  PROVE  /\ Keys(hits) \subseteq AllKeys /\ IsFiniteSet(hits)
         /\ Cardinality(hits) \in Nat /\ Cardinality(hits) = Cardinality(Keys(hits))
<1>1. Keys(hits) \subseteq AllKeys
  BY DEF Keys, Hit, AllKeys
<1>2. IsFiniteSet(Keys(hits))
  BY <1>1, KeysFinite
<1> DEFINE f == [h \in hits |-> h.key]
<1>3. f \in Injection(hits, Keys(hits)) /\ f \in Surjection(hits, Keys(hits))
  BY DEF Unique, Keys, Injection, IsInjective, Surjection
<1> HIDE DEF f
<1>4. IsFiniteSet(hits) /\ Cardinality(hits) = Cardinality(Keys(hits))
  BY <1>2, <1>3, FS_Injection
<1> QED
  BY <1>1, <1>4, FS_CardinalityType

\* Hits are merged without losing a key or repeating one.
LEMMA MergeIs ==
  ASSUME NEW old \in SUBSET Hit, NEW new \in SUBSET Hit, Unique(old), Unique(new)
  PROVE  /\ Merge(old, new) \subseteq old \cup new /\ Merge(old, new) \subseteq Hit
         /\ Unique(Merge(old, new)) /\ Keys(Merge(old, new)) = Keys(old) \cup Keys(new)
<1>1. \A h \in old \cup new : h.score \in Nat
  BY DEF Hit
<1>2. Merge(old, new) \subseteq old \cup new
  BY DEF Merge
<1>3. Unique(Merge(old, new))
  BY <1>1 DEF Merge, Unique
<1>4. ASSUME NEW h \in old PROVE h.key \in Keys(Merge(old, new))
  <2>1. CASE \A n \in new : n.key = h.key => h.score >= n.score
    BY <2>1 DEF Merge, Keys
  <2>2. CASE \E n \in new : n.key = h.key /\ ~(h.score >= n.score)
    <3>1. PICK n \in new : n.key = h.key /\ n.score > h.score
      BY <1>1, <2>2
    <3>2. \A g \in old : n.key = g.key => n.score > g.score
      BY <3>1 DEF Unique
    <3>3. n \in Merge(old, new)
      BY <3>2 DEF Merge
    <3> QED
      BY <3>1, <3>3 DEF Keys
  <2> QED
    BY <2>1, <2>2
<1>5. ASSUME NEW n \in new PROVE n.key \in Keys(Merge(old, new))
  <2>1. CASE \A h \in old : n.key = h.key => n.score > h.score
    BY <2>1 DEF Merge, Keys
  <2>2. CASE \E h \in old : n.key = h.key /\ ~(n.score > h.score)
    BY <1>4, <2>2
  <2> QED
    BY <2>1, <2>2
<1>6. Keys(Merge(old, new)) = Keys(old) \cup Keys(new)
  BY <1>2, <1>4, <1>5 DEF Keys
<1> QED
  BY <1>2, <1>3, <1>6

-----------------------------------------------------------------------------
(***************************************************************************)
(* Ranking.                                                                *)
(***************************************************************************)
\* What the store has found, of the chunks that were read.
Found(found) ==
  /\ found \in Partial(Ids, 0 .. MaxId)
  /\ DOMAIN found \subseteq DOMAIN search.rows
  /\ DOMAIN found \subseteq DOMAIN View("server")

\* The keys that a query can find are those that it has read.
LEMMA KeyedIs ==
  ASSUME TypeOK, search.at = "index", NEW q, NEW found, Found(found)
  PROVE  /\ Scored(found) \subseteq DOMAIN search.rows \cup search.facts
         /\ Keyed(found, q) \subseteq DOMAIN search.rows \cup search.facts
         /\ DOMAIN search.rows \cup search.facts \subseteq AllKeys
         /\ Scored(found) \subseteq Keyed(found, q)
<1>1. DOMAIN search.rows \subseteq Ids /\ search.facts \subseteq {0}
  BY SearchIs
<1> QED
  BY <1>1 DEF Scored, Keyed, Found, AllKeys

\* A key is shown with a document, or with the fact in the words of its memory.
LEMMA FromTyped ==
  ASSUME TypeOK, search.at = "index", NEW q, NEW found, Found(found), NEW k \in Keyed(found, q)
  PROVE  /\ From(k, found) \in Shown
         /\ k = 0 => From(k, found) = Told(search.memory.text)
         /\ k # 0 => From(k, found) \in {View("server")[k], search.rows[k]}
         /\ k # 0 /\ k \notin DOMAIN found => From(k, found) = search.rows[k]
         /\ k # 0 => k \in DOMAIN search.rows
<1>1. search.memory \in Memory
  <2>1. search # Idle
    BY DEF Idle
  <2> QED
    BY <2>1 DEF TypeOK, SearchOK, Asked
<1>2. search.memory.text \in {Fact.text, Edited}
  BY <1>1 DEF Memory
<1>3. search.rows \in [DOMAIN search.rows -> Docs] /\ search.facts \subseteq {0}
  BY SearchIs
<1>4. k # 0 => k \in DOMAIN search.rows
  BY <1>3, KeyedIs
<1>5. \A i \in DOMAIN View("server") : View("server")[i] \in Docs
  BY ViewIs DEF Procs
<1>6. CASE k = 0
  BY <1>2, <1>6 DEF From, Shown
<1>7. CASE k # 0 /\ k \in DOMAIN found
  BY <1>4, <1>5, <1>7 DEF From, Shown, Found
<1>8. CASE k # 0 /\ k \notin DOMAIN found
  BY <1>3, <1>4, <1>8 DEF From, Shown
<1> QED
  BY <1>4, <1>6, <1>7, <1>8

\* The keyword leg ranks with numbers.
LEMMA WordedTyped ==
  ASSUME TypeOK, search.at = "index", NEW q
  PROVE  \A k \in DOMAIN Worded(q) : Worded(q)[k] \in Nat
<1>1. /\ DOMAIN search.kw \subseteq Ids /\ search.kw \in [DOMAIN search.kw -> 0 .. MaxId]
      /\ search.ask.keyword_limit \in Nat
  BY SearchIs
<1>2. Cardinality(DOMAIN search.kw) \in 0 .. MaxId
  BY <1>1, IdsFinite
<1> DEFINE facts == {k \in search.facts : Word(search.memory, q)}
           o == [k \in DOMAIN search.kw \cup facts |->
                   IF k \in DOMAIN search.kw THEN search.kw[k] ELSE Cardinality(DOMAIN search.kw) + 1]
<1>3. \A k \in DOMAIN o : o[k] \in Nat
  BY <1>1, <1>2, RetrievalConstantsOK
<1>4. Worded(q) = Top(o, search.ask.keyword_limit)
  BY DEF Worded
<1> HIDE DEF o
<1>5. ASSUME NEW n, NEW k \in DOMAIN Top(o, n) PROVE k \in DOMAIN o /\ Top(o, n)[k] = o[k]
  BY DEF Top, Server!Top
<1> QED
  BY <1>3, <1>4, <1>5

\* A leg adds to a score.
LEMMA LegTyped ==
  ASSUME NEW w \in Nat, NEW o, NEW k, k \in DOMAIN o => o[k] \in Nat
  PROVE  Leg(w, o, k) \in Nat
<1>1. Scale \in Nat
  BY DEF Scale
<1>2. \A n \in Nat : Scale \div (60 + n) \in Nat
  BY <1>1
<1> HIDE DEF Scale
<1> QED
  BY <1>2 DEF Leg

\* The hits that are cut from a ranking of some of the keys.
LEMMA CutIs ==
  ASSUME TypeOK, search.at = "index", NEW q, NEW found, Found(found),
         NEW score \in [Keyed(found, q) -> Nat],
         NEW S \in SUBSET Keyed(found, q), NEW o, o \in Rankings(S, score)
  PROVE  LET batch == Cut(o, score, found) IN
         /\ batch \subseteq Hit /\ Unique(batch)
         /\ Keys(batch) \subseteq S
         /\ \A h \in batch : h.from = From(h.key, found)
         /\ Cardinality(Keys(batch)) \in Nat
         /\ Cardinality(Keys(batch)) < search.ask.limit => Keys(batch) = S
<1>1. search.ask.limit \in Nat
  BY SearchIs
<1>2. S \subseteq AllKeys /\ IsFiniteSet(S)
  BY KeyedIs, KeysFinite
<1> DEFINE D == DOMAIN Top(o, search.ask.limit)
           batch == Cut(o, score, found)
<1>3. D \subseteq S /\ Cardinality(D) \in Nat /\ (Cardinality(D) < search.ask.limit => D = S)
  BY <1>1, <1>2, TopCuts
<1>4. batch = {[key |-> k, score |-> score[k], from |-> From(k, found)] : k \in D}
  BY DEF Cut
<1> HIDE DEF D, batch
<1>5. Keys(batch) = D
  <2>1. ASSUME NEW k \in D PROVE \E h \in batch : h.key = k
    <3>1. [key |-> k, score |-> score[k], from |-> From(k, found)] \in batch
      BY <1>4
    <3> QED
      BY <3>1
  <2>2. ASSUME NEW h \in batch PROVE h.key \in D
    BY <1>4
  <2> QED
    BY <2>1, <2>2 DEF Keys
<1>6. batch \subseteq Hit
  BY <1>2, <1>3, <1>4, FromTyped DEF Hit, AllKeys
<1>7. Unique(batch) /\ \A h \in batch : h.from = From(h.key, found)
  BY <1>4 DEF Unique
<1> QED
  BY <1>3, <1>5, <1>6, <1>7 DEF batch

\* An answer of the store has points of the scope.
LEMMA AnswersInScope ==
  ASSUME TypeOK, NEW p \in Procs, NEW r \in Requests, r.op = "query",
         NEW o \in Local(p, r) \cup Fetched(p, r)
  PROVE  \A i \in DOMAIN o : i \in DOMAIN View(p) /\ InScope(View(p)[i], r.scope)
<1> DEFINE S == Selected(Points(p), r.scope, FALSE)
<1>1. ASSUME NEW i \in S PROVE i \in DOMAIN View(p) /\ InScope(View(p)[i], r.scope)
  <2>1. i \in DOMAIN Points(p) /\ Selects(Points(p)[i], r.scope, FALSE)
    BY DEF Selected
  <2>2. View(p)[i] \in Docs /\ Points(p)[i] = Stored(View(p)[i]) /\ i \in DOMAIN View(p)
    BY <2>1, ViewIs
  <2>3. r.scope.org # Empty /\ r.scope.project # Empty
    BY RequestIs
  <2> QED
    BY <2>1, <2>2, <2>3, StoredDocument
<1>2. S \subseteq Ids
  BY ViewIs DEF Selected
<1>3. DOMAIN o \subseteq S
  <2>1. CASE o \in Local(p, r)
    <3>1. PICK t \in Ranked(Points(p), S \cap Fitting(Points(p), r), r) : o = Top(t, r.limit)
      BY <2>1 DEF Local, Points
    <3> DEFINE T == S \cap Fitting(Points(p), r)
    <3>2. PICK score : t \in Rankings(T, score)
      BY <3>1 DEF Ranked
    <3> HIDE DEF T
    <3>3. DOMAIN Top(t, r.limit) \subseteq T
      BY <3>2, RankedIs
    <3> QED
      BY <3>1, <3>3 DEF T
  <2>2. CASE o \in Fetched(p, r)
    <3>1. PICK t \in Ranked(Points(p), S, r) : o = Kept(Top(t, r.limit), Fitting(Points(p), r))
      BY <2>2 DEF Fetched, Points
    <3> HIDE DEF S
    <3>2. PICK score : t \in Rankings(S, score)
      BY <3>1 DEF Ranked
    <3>3. DOMAIN Top(t, r.limit) \subseteq S
      BY <3>2, RankedIs
    <3>4. \A f, F : DOMAIN Kept(f, F) = DOMAIN f \cap F
      BY DEF Kept, Server!Kept
    <3> QED
      BY <3>1, <3>3, <3>4
  <2> QED
    BY <2>1, <2>2
<1> QED
  BY <1>1, <1>3

\* Of what the store answers, or does not, a search uses what it has read, what is
\* of its scope and what matches its filter.
LEMMA FoundIs ==
  ASSUME TypeOK, UNCHANGED kind, search.at = "index", NEW q \in DOMAIN Near,
         Call("server", Query(search.ask, q)),
         NEW found, found = Kept(reply', {i \in DOMAIN reply' : Usable(i)})
  PROVE  /\ Found(found) /\ UNCHANGED point
         /\ \A i \in DOMAIN found : /\ InScope(View("server")[i], search.ask.scope)
                                    /\ Matches(View("server")[i], search.ask.filter)
<1> DEFINE r == Query(search.ask, q)
<1>1. /\ r \in Requests /\ r.op = "query" /\ r.scope = search.ask.scope /\ "server" \in Procs
  BY SearchIs DEF Requests, Query, Procs
<1>2. reply' \in Partial(Ids, 0 .. MaxId)
  BY <1>1, CallTyped
<1>3. /\ UNCHANGED point
      /\ \A i \in DOMAIN reply' : /\ i \in DOMAIN View("server")
                                  /\ InScope(View("server")[i], search.ask.scope)
  <2> HIDE DEF r
  <2>1. \/ Answers("server", r, Local("server", r) \cup Fetched("server", r))
        \/ Ignores("server", r)
    BY <1>1, CallCases DEF r
  <2>2. CASE Answers("server", r, Local("server", r) \cup Fetched("server", r))
    BY <1>1, <2>2, AnswersInScope DEF Answers
  <2>3. CASE Ignores("server", r)
    BY <2>3, NothingTyped DEF Ignores
  <2> QED
    BY <2>1, <2>2, <2>3
<1> DEFINE U == {i \in DOMAIN reply' : Usable(i)}
<1>4. DOMAIN found = DOMAIN reply' \cap U /\ found \in Partial(Ids, 0 .. MaxId)
  <2> HIDE DEF U
  <2>1. found = Kept(reply', U)
    BY DEF U
  <2> QED
    BY <1>2, <2>1, KeptRanks
<1> QED
  BY <1>3, <1>4 DEF Usable, Found

\* The scores of fusion, and of relevance, are numbers.
LEMMA ScoresTyped ==
  ASSUME TypeOK, search.at = "index", NEW q \in DOMAIN Near, NEW found, Found(found),
         NEW nearness, NEW v \in Rankings(Scored(found), nearness)
  PROVE  /\ Fused(found, v, q) \in [Keyed(found, q) -> Nat]
         /\ Relevance(found, q) \in [Keyed(found, q) -> Nat]
<1>1. \A k \in DOMAIN found : found[k] \in Nat
  <2>1. found \in [DOMAIN found -> 0 .. MaxId]
    BY PartialIs DEF Found
  <2> QED
    BY <2>1, RetrievalConstantsOK
<1>2. \A k \in DOMAIN v : v[k] \in Nat
  <2>1. IsFiniteSet(Scored(found))
    BY KeyedIs, KeysFinite
  <2> QED
    BY <2>1, RankingNumbers
<1>3. \A k \in DOMAIN Worded(q) : Worded(q)[k] \in Nat
  BY WordedTyped
<1>4. ASSUME NEW k PROVE Leg(6, found, k) + Leg(6, v, k) + Leg(4, Worded(q), k) \in Nat
  <2>1. Leg(6, found, k) \in Nat
    BY <1>1, LegTyped
  <2>2. Leg(6, v, k) \in Nat
    BY <1>2, LegTyped
  <2>3. Leg(4, Worded(q), k) \in Nat
    BY <1>3, LegTyped
  <2> QED
    BY <2>1, <2>2, <2>3
<1> QED
  BY <1>4 DEF Fused, Relevance

\* However the legs are fused and ranked again, a batch has some of the keys, each
\* once, and all of them when it is not full.
LEMMA BlendIs ==
  ASSUME TypeOK, search.at = "index", NEW q \in DOMAIN Near, NEW found, Found(found),
         Blend(found, q)
  PROVE  \E batch \in SUBSET Hit :
           /\ Unique(batch) /\ Keys(batch) \subseteq Keyed(found, q)
           /\ \A h \in batch : h.from = From(h.key, found)
           /\ Cardinality(Keys(batch)) \in Nat
           /\ Cardinality(Keys(batch)) < search.ask.limit => Keys(batch) = Keyed(found, q)
           /\ Conclude(batch, search.fell \/ (DOMAIN found = {} /\ ~search.bounded))
<1> DEFINE fell == search.fell \/ (DOMAIN found = {} /\ ~search.bounded)
<1>1. PICK v \in Rankings(Scored(found), [k \in Scored(found) |-> Nearness(k, q)]) :
        \E o \in Rankings(Keyed(found, q), Fused(found, v, q)) :
          IF ~search.ask.rerank THEN Conclude(Cut(o, Fused(found, v, q), found), fell)
          ELSE \E r \in Rankings(DOMAIN Top(o, search.ask.limit * PoolFactor), Relevance(found, q)) :
                 Conclude(Cut(r, Relevance(found, q), found), fell)
  BY DEF Blend
<1> DEFINE fused == Fused(found, v, q)
           relevance == Relevance(found, q)
<1>2. fused \in [Keyed(found, q) -> Nat] /\ relevance \in [Keyed(found, q) -> Nat]
  BY ScoresTyped
<1> HIDE DEF fused, relevance
<1>3. PICK o \in Rankings(Keyed(found, q), fused) :
        IF ~search.ask.rerank THEN Conclude(Cut(o, fused, found), fell)
        ELSE \E r \in Rankings(DOMAIN Top(o, search.ask.limit * PoolFactor), relevance) :
               Conclude(Cut(r, relevance, found), fell)
  BY <1>1 DEF fused, relevance
<1> HIDE DEF fell
<1>4. CASE ~search.ask.rerank
  BY <1>2, <1>3, <1>4, CutIs DEF fell
<1>5. CASE search.ask.rerank
  <2> DEFINE n == search.ask.limit * PoolFactor
             S == DOMAIN Top(o, n)
  <2>1. n \in Nat /\ n >= search.ask.limit /\ search.ask.limit \in Nat
    <3>1. \A x, y \in Nat \ {0} : x * y \in Nat /\ x * y >= x
      OBVIOUS
    <3> QED
      BY <3>1, SearchIs, RetrievalConstantsOK
  <2>2. IsFiniteSet(Keyed(found, q))
    BY KeyedIs, KeysFinite
  <2> HIDE DEF n
  <2>3. S \subseteq Keyed(found, q) /\ Cardinality(S) \in Nat /\ (Cardinality(S) < n => S = Keyed(found, q))
    BY <2>1, <2>2, TopCuts
  <2>4. PICK r \in Rankings(S, relevance) : Conclude(Cut(r, relevance, found), fell)
    BY <1>3, <1>5 DEF n
  <2> HIDE DEF S
  <2> DEFINE batch == Cut(r, relevance, found)
  <2>5. /\ batch \subseteq Hit /\ Unique(batch)
        /\ Keys(batch) \subseteq S
        /\ \A h \in batch : h.from = From(h.key, found)
        /\ Cardinality(Keys(batch)) \in Nat
        /\ Cardinality(Keys(batch)) < search.ask.limit => Keys(batch) = S
    BY <1>2, <2>3, <2>4, CutIs
  <2> HIDE DEF batch
  <2>6. Cardinality(Keys(batch)) < search.ask.limit => Keys(batch) = Keyed(found, q)
    BY <2>1, <2>3, <2>5
  <2> QED
    BY <2>3, <2>4, <2>5, <2>6 DEF batch, fell
<1> QED
  BY <1>4, <1>5, SearchIs

\* The batches of a search that goes on are hits, and so is its answer.
LEMMA ConcludeTyped ==
  ASSUME TypeOK, search.at = "index", NEW batch \in SUBSET Hit, NEW fell \in BOOLEAN,
         Conclude(batch, fell)
  PROVE  Asked' /\ Answered'
<1> DEFINE hits == Merge(search.hits, batch)
<1>1. hits \subseteq Hit /\ search.ask \in Asks
  BY SearchIs DEF Merge
<1>2. search.turn \in 1 .. Len(search.ask.queries) /\ Len(search.ask.queries) \in Nat
  BY SearchIs
<1> HIDE DEF hits
<1>3. CASE search.turn < Len(search.ask.queries)
  <2>1. search' = Asking(search.ask, search.turn + 1, hits, fell) /\ NoAnswer
    BY <1>2, <1>3 DEF Conclude, hits
  <2>2. search.turn + 1 \in 1 .. Len(search.ask.queries)
    BY <1>2, <1>3
  <2>3. /\ Asking(search.ask, search.turn + 1, hits, fell) \in Search
        /\ Asking(search.ask, search.turn + 1, hits, fell).at = "lexical"
        /\ Asking(search.ask, search.turn + 1, hits, fell).ask = search.ask
        /\ Asking(search.ask, search.turn + 1, hits, fell).turn = search.turn + 1
    BY <1>1, <2>2, AskingTyped
  <2> QED
    BY <2>1, <2>2, <2>3, SilentTyped DEF Asked
<1>4. CASE search.turn = Len(search.ask.queries)
  <2>1. PICK o \in Rankings(hits, [h \in hits |-> h.score]) :
          /\ search' = Idle
          /\ answer' = [given |-> TRUE, ask |-> search.ask, fell |-> fell, chunks |-> TRUE,
                        hits |-> DOMAIN Top(o, search.ask.limit)]
    BY <1>2, <1>4 DEF Conclude, hits
  <2>2. DOMAIN Top(o, search.ask.limit) \subseteq hits
    BY RankedIs
  <2>3. answer'.hits \subseteq Hit /\ answer'.ask \in Asks
    BY <1>1, <2>1, <2>2
  <2> QED
    BY <2>1, <2>3 DEF Asked, Answered, Keys, Hit
<1> QED
  BY <1>2, <1>3, <1>4

\* The query that a search asks the store.
Sought == search.ask.queries[search.turn]

\* A search that reads the store has found something, and has a batch of it.
LEMMA RankIs ==
  ASSUME TypeOK, Rank
  PROVE  /\ search.at = "index" /\ Sought \in DOMAIN Near
         /\ UNCHANGED <<kind, row, expired, chunked, erasing, writes, point>>
         /\ Call("server", Query(search.ask, Sought))
         /\ \E found : Blend(found, Sought)
              /\ Found(found)
              /\ \A i \in DOMAIN found : /\ InScope(View("server")[i], search.ask.scope)
                                         /\ Matches(View("server")[i], search.ask.filter)
<1>1. /\ search.at = "index" /\ Call("server", Query(search.ask, Sought))
      /\ UNCHANGED <<kind, row, expired, chunked, erasing, writes>>
  BY DEF Rank, Sought
<1>2. Sought \in DOMAIN Near
  BY <1>1, TurnIs DEF Sought
<1>3. PICK found : /\ found = Kept(reply', {i \in DOMAIN reply' : Usable(i)})
                   /\ Blend(found, Sought)
  BY DEF Rank, Sought
<1> QED
  BY <1>1, <1>2, <1>3, FoundIs

LEMMA RankTyped == TypeOK /\ Rank => RestOK'
<1> SUFFICES ASSUME TypeOK, Rank PROVE RestOK'
  OBVIOUS
<1>1. /\ search.at = "index" /\ Sought \in DOMAIN Near
      /\ UNCHANGED <<kind, row, expired, chunked, erasing, writes>>
      /\ Call("server", Query(search.ask, Sought))
  BY RankIs
<1>2. PICK found : Blend(found, Sought) /\ Found(found)
  BY RankIs
<1>3. PICK batch \in SUBSET Hit :
        Conclude(batch, search.fell \/ (DOMAIN found = {} /\ ~search.bounded))
  BY <1>1, <1>2, BlendIs
<1>4. search.fell \/ (DOMAIN found = {} /\ ~search.bounded) \in BOOLEAN
  OBVIOUS
<1>5. Asked' /\ Answered'
  BY <1>1, <1>3, <1>4, ConcludeTyped
<1>6. StoreOK' /\ faults' \in 0 .. MaxFaults
  <2>1. Query(search.ask, Sought) \in Requests /\ "server" \in Procs
    BY <1>1, SearchIs DEF Requests, Procs
  <2> QED
    BY <1>1, <2>1, StoreTyped
<1>7. memory' \in Memory
  <2>1. search # Idle
    BY <1>1 DEF Idle
  <2>2. memory \in Memory /\ search.memory \in Memory
    BY <1>1, <2>1 DEF TypeOK, TablesOK, SearchOK, Asked
  <2>3. Embedding(search.memory) \in {None, Fact.text, Edited}
    BY <2>2 DEF Embedding, Memory
  <2>4. memory' = memory \/ memory' = [memory EXCEPT !.embedding = Embedding(search.memory)]
    BY <2>2 DEF Rank, Memory
  <2> QED
    BY <2>2, <2>3, <2>4 DEF Memory
<1>8. TablesOK'
  BY <1>1, <1>7 DEF TypeOK, TablesOK, Live
<1> QED
  BY <1>1, <1>5, <1>6, <1>8 DEF RestOK, TypeOK

LEMMA NextTyped == TypeOK /\ [Next]_vars => TypeOK'
<1> SUFFICES ASSUME TypeOK, [Next]_vars PROVE TypeOK'
  OBVIOUS
<1>1. ASSUME Next PROVE TypeOK'
  <2>1. RestOK'
    <3>1. AddChunk => RestOK'
      BY AddChunkTyped
    <3>2. IndexChunk => RestOK'
      BY IndexChunkTyped
    <3>3. EraseChunk \/ EraseTag => RestOK'
      BY ErasuresTyped
    <3>4. EraseRows \/ Expire \/ ChangeMemory => RestOK'
      BY EraseRowsTyped, ExpireTyped, ChangeMemoryTyped
    <3>5. (\E p \in Procs : Restart(p)) => RestOK'
      BY RestartTyped
    <3>6. Lexical \/ CountRows \/ ReadRows \/ ReadFacts \/ Rank \/ FindMemories => RestOK'
      BY LexicalTyped, CountTyped, RowsTyped, FactsTyped, RankTyped, FindMemoriesTyped
    <3> QED
      BY <1>1, <3>1, <3>2, <3>3, <3>4, <3>5, <3>6 DEF Next, Step
  <2>2. seen' \in [ever : SUBSET AllKeys, always : SUBSET AllKeys]
    BY <1>1, <2>1, WatchTyped DEF Next, RestOK
  <2> QED
    BY <2>1, <2>2 DEF RestOK, TypeOK, SearchOK, AllKeys
<1>2. ASSUME UNCHANGED vars PROVE TypeOK'
  <2>1. /\ UNCHANGED <<kind, row, expired, memory, chunked, erasing>>
        /\ UNCHANGED <<point, ready, txn, call, reply>>
        /\ UNCHANGED <<search, answer, seen, writes, faults>>
    BY <1>2 DEF vars, tables, store
  <2>2. TablesOK'
    BY <2>1 DEF TypeOK, TablesOK, Live
  <2>3. StoreOK'
    BY <2>1, SameRecords DEF TypeOK, StoreOK
  <2>4. SearchOK'
    BY <2>1 DEF TypeOK, SearchOK, Asked, Answered
  <2> QED
    BY <2>1, <2>2, <2>3, <2>4 DEF TypeOK
<1> QED
  BY <1>1, <1>2

\* Whatever the stores hold and however the writes, the faults and the statements
\* of the searches interleave, the tables, the points, the search and its answer
\* stay well-formed: each query of a search is asked once, what has expired has a
\* row, and what is shown is a document or the fact.
THEOREM TypeCorrect == Spec => []TypeOK
<1>1. Init => TypeOK
  BY InitTyped
<1>2. TypeOK /\ [Next]_vars => TypeOK'
  BY NextTyped
<1> QED
  BY <1>1, <1>2, PTL DEF Spec

-----------------------------------------------------------------------------
(***************************************************************************)
(* What a search holds between its statements.                             *)
(***************************************************************************)
Fits(d, a) == InScope(d, a.scope) /\ Matches(d, a.filter)

\* It has read nothing that it may not show.
HoldsTrue ==
  search.at # "idle" =>
    /\ DOMAIN search.rows \cup search.facts \cup Keys(search.hits) \subseteq seen.ever
    /\ \A i \in DOMAIN search.rows : Fits(search.rows[i], search.ask)
    /\ search.facts # {} => Fits(Fact, search.ask)
    /\ Unique(search.hits) /\ \A h \in search.hits : Fits(h.from, search.ask)

\* A chunk that the first queries have dealt with: the hits are full, or have it, or
\* no query had a word of it and the store had other chunks.
Covered(k, a, hits, fell, n) ==
  \/ Cardinality(hits) >= a.limit
  \/ k \in Keys(hits)
  \/ ~fell /\ \A j \in 1 .. n : ~Word(row[k], a.queries[j])

\* A chunk is in the keyword leg if it has a word, and is read, or would be if it were.
Holds(k) ==
  /\ search.at # "lexical" /\ Word(row[k], Sought) => k \in DOMAIN search.kw
  /\ search.at \in {"facts", "index"} =>
       \/ k \in DOMAIN search.rows /\ search.rows[k] = row[k]
       \/ search.bounded /\ k \notin DOMAIN search.kw
  /\ Covered(k, search.ask, search.hits, search.fell, search.turn - 1)

\* It has passed over nothing that was there throughout.
HoldsAll ==
  search.at # "idle" =>
    /\ seen.always \subseteq Visible(search.ask)
    /\ search.at = "index" /\ 0 \in seen.always => 0 \in search.facts
    /\ search.ask.keyword_limit >= MaxId => \A k \in seen.always \ {0} : Holds(k)

Faithful == TypeOK /\ HoldsTrue /\ HoldsAll /\ SearchKeepsFaith

\* Without an answer there is nothing to keep faith with.
LEMMA SilentFaith == NoAnswer => SearchKeepsFaith'
  BY DEF NoAnswer, Silent, SearchKeepsFaith, Sound, Complete

\* What can be seen is a chunk with its row, or the fact.
LEMMA VisibleIs ==
  ASSUME TypeOK, NEW a
  PROVE  /\ \A k \in Visible(a) \ {0} : k \in Live \ expired /\ Fits(row[k], a)
         /\ 0 \in Visible(a) => Fits(Fact, a)
<1>1. 0 \notin Live
  BY VisibleTyped DEF TypeOK, Ids
<1> QED
  BY <1>1 DEF Visible, Fits

\* While an id has a row, the row is the same.
LEMMA RowKept == TypeOK /\ Step => \A k \in Live \cap Live' : row'[k] = row[k]
<1> SUFFICES ASSUME TypeOK, Step PROVE \A k \in Live \cap Live' : row'[k] = row[k]
  OBVIOUS
<1>1. Live \subseteq Ids
  BY VisibleTyped DEF TypeOK
<1>2. ASSUME AddChunk PROVE \A k \in Live : row'[k] = row[k]
  <2>1. PICK i \in Ids, d \in Docs :
          /\ \A j \in Live : j < i
          /\ row' = [j \in Live \cup {i} |-> IF j = i THEN d ELSE row[j]]
    BY <1>2 DEF AddChunk
  <2>2. i \notin Live
    BY <1>1, <2>1 DEF Ids
  <2> QED
    BY <2>1, <2>2
<1>3. ASSUME EraseRows PROVE \A k \in Live \cap Live' : row'[k] = row[k]
  BY <1>3 DEF EraseRows, Without, Live
<1>4. CASE UNCHANGED row
  BY <1>4
<1> QED
  BY <1>2, <1>3, <1>4 DEF Step, IndexChunk, EraseChunk, EraseTag, Erase, Expire, ChangeMemory, Restart,
     Lexical, CountRows, ReadRows, ReadFacts, Rank, FindMemories, Quiet, tables

\* What a search has seen after a step.
LEMMA WatchIs ==
  ASSUME TypeOK, Watch, search.at # "idle", NEW a, a = search.ask
  PROVE  /\ seen'.ever = seen.ever \cup Visible(a)'
         /\ seen'.always = seen.always \cap Visible(a)'
<1>1. search.ask \in Asks
  BY SearchIs
<1> DEFINE before == IF search.at = "idle" THEN Unseen ELSE seen
           asks == {b \in Asks : IF search.at # "idle" THEN b = search.ask
                                ELSE IF search'.at # "idle" THEN b = search'.ask
                                ELSE answer'.given /\ b = answer'.ask}
<1>2. asks = {a} /\ before = seen
  BY <1>1
<1>3. \/ asks = {} /\ seen' = Unseen
      \/ \E b \in asks : seen' = [ever   |-> before.ever \cup Visible(b)',
                                 always |-> before.always \cap Visible(b)']
  BY Zenon DEF Watch
<1> HIDE DEF asks, before
<1> QED
  BY <1>2, <1>3

\* Nothing that a search holds is undone by what changes under it.
LEMMA HeldUnder ==
  ASSUME Faithful, Step, Watch, UNCHANGED search, NoAnswer
  PROVE  HoldsTrue' /\ HoldsAll' /\ SearchKeepsFaith'
<1>1. SearchKeepsFaith'
  BY SilentFaith
<1>2. CASE search.at = "idle"
  BY <1>1, <1>2 DEF HoldsTrue, HoldsAll
<1>3. CASE search.at # "idle"
  <2>1. PICK a : a = search.ask /\ a = search'.ask
    OBVIOUS
  <2>2. /\ seen'.ever = seen.ever \cup Visible(a)'
        /\ seen'.always = seen.always \cap Visible(a)'
    BY <1>3, <2>1, WatchIs DEF Faithful
  <2>3. HoldsTrue'
    BY <1>3, <2>2 DEF Faithful, HoldsTrue
  <2>4. \A k \in seen'.always \ {0} : k \in Live \cap Live'
    <3>1. seen.always \subseteq Visible(a)
      BY <1>3, <2>1 DEF Faithful, HoldsAll
    <3>2. \A k \in Visible(a)' \ {0} : k \in Live'
      BY DEF Visible
    <3> QED
      BY <2>2, <3>1, <3>2, VisibleIs DEF Faithful
  <2>5. \A k \in seen'.always \ {0} : row'[k] = row[k]
    BY <2>4, RowKept DEF Faithful
  <2>6. ASSUME NEW k \in seen'.always \ {0}, Holds(k) PROVE Holds(k)'
    BY <2>5, <2>6 DEF Holds, Covered, Sought, Word
  <2>7. HoldsAll'
    <3>1. seen'.always \subseteq Visible(search.ask)'
      BY <2>1, <2>2
    <3>2. search.at = "index" /\ 0 \in seen.always => 0 \in search.facts
      BY <1>3 DEF Faithful, HoldsAll
    <3>3. search.ask.keyword_limit >= MaxId => \A k \in seen.always \ {0} : Holds(k)
      BY <1>3 DEF Faithful, HoldsAll
    <3> QED
      BY <2>2, <2>6, <3>1, <3>2, <3>3 DEF HoldsAll
  <2> QED
    BY <1>1, <2>3, <2>7
<1> QED
  BY <1>2, <1>3

\* What a search that begins or goes on has seen after a statement.
LEMMA WatchReads ==
  ASSUME TypeOK, Watch, search'.at # "idle", search.at # "idle" => search.ask = search'.ask,
         NEW a \in Asks, a = search'.ask
  PROVE  Visible(a)' \subseteq seen'.ever /\ seen'.always \subseteq Visible(a)'
<1>1. CASE search.at # "idle"
  BY <1>1, WatchIs
<1>2. CASE search.at = "idle"
  <2> DEFINE asks == {b \in Asks : IF search.at # "idle" THEN b = search.ask
                                  ELSE IF search'.at # "idle" THEN b = search'.ask
                                  ELSE answer'.given /\ b = answer'.ask}
             before == IF search.at = "idle" THEN Unseen ELSE seen
  <2>1. asks = {a}
    BY <1>2
  <2>2. \/ asks = {} /\ seen' = Unseen
        \/ \E b \in asks : seen' = [ever   |-> before.ever \cup Visible(b)',
                                   always |-> before.always \cap Visible(b)']
    BY Zenon DEF Watch
  <2> HIDE DEF asks, before
  <2> QED
    BY <2>1, <2>2
<1> QED
  BY <1>1, <1>2

\* A statement that only reads leaves what can be seen as it is.
LEMMA QuietSees == Quiet => row' = row /\ \A a : Visible(a)' = Visible(a)
  BY DEF Quiet, tables, Visible, Live

\* The top of a ranking is all of it when there is room.
LEMMA TopWhole ==
  ASSUME NEW S, IsFiniteSet(S), NEW score, NEW o \in Rankings(S, score), NEW n \in Nat, Cardinality(S) <= n
  PROVE  DOMAIN Top(o, n) = S
<1>1. Cardinality(S) \in Nat /\ o \in [S -> 1 .. Cardinality(S)]
  BY RankingNumbers
<1>2. DOMAIN Top(o, n) = {k \in S : o[k] <= n}
  BY RankedIs
<1> QED
  BY <1>1, <1>2

\* The statement of the keyword leg, of a search that begins or goes on.
LEMMA LexicalIs ==
  ASSUME TypeOK, Lexical
  PROVE  \E s \in Search :
           /\ \/ search.at = "lexical" /\ s = search
              \/ search.at = "idle" /\ \E a \in Asks : s = Asking(a, 1, {}, FALSE)
           /\ s.ask \in Asks /\ s.turn \in Nat \ {0} /\ s.ask.keyword_limit \in Nat
           /\ \E kw : search' = [s EXCEPT !.at = "count", !.kw = kw]
           /\ search'.ask = s.ask /\ search'.turn = s.turn /\ search'.at = "count"
           /\ search'.rows = s.rows /\ search'.facts = s.facts
           /\ search'.hits = s.hits /\ search'.fell = s.fell
           /\ s.ask.keyword_limit >= MaxId =>
                {i \in Live : InScope(row[i], s.ask.scope) /\ Word(row[i], s.ask.queries[s.turn])}
                  \subseteq DOMAIN search'.kw
<1>1. PICK s \in IF search.at = "lexical" THEN {search} ELSE {Asking(a, 1, {}, FALSE) : a \in Asks} :
        LET found == {i \in Live : InScope(row[i], s.ask.scope) /\ Word(row[i], s.ask.queries[s.turn])} IN
        \E o \in Rankings(found, [i \in found |-> 0]) :
          search' = [s EXCEPT !.at = "count", !.kw = Top(o, s.ask.keyword_limit)]
  BY DEF Lexical
<1>2. \/ search.at = "lexical" /\ s = search
      \/ search.at = "idle" /\ \E a \in Asks : s = Asking(a, 1, {}, FALSE)
  BY <1>1 DEF Lexical
<1>3. s \in Search /\ s.turn \in 1 .. Len(s.ask.queries)
  <2>1. CASE search.at = "lexical" /\ s = search
    BY <2>1, SearchIs
  <2>2. CASE \E a \in Asks : s = Asking(a, 1, {}, FALSE)
    <3>1. PICK a \in Asks : s = Asking(a, 1, {}, FALSE)
      BY <2>2
    <3>2. 1 \in 1 .. Len(a.queries)
      BY RetrievalConstantsOK
    <3>3. Nothing \in Partial(Ids, 0 .. MaxId) /\ Nothing \in Partial(Ids, Docs)
      BY NothingTyped
    <3> HIDE DEF Nothing
    <3> QED
      BY <3>1, <3>2, <3>3 DEF Asking, Search
  <2> QED
    BY <1>2, <2>1, <2>2
<1>4. s.ask \in Asks /\ s.ask.keyword_limit \in Nat
  BY <1>3, RetrievalConstantsOK DEF Search
<1> DEFINE found == {i \in Live : InScope(row[i], s.ask.scope) /\ Word(row[i], s.ask.queries[s.turn])}
<1>5. PICK o \in Rankings(found, [i \in found |-> 0]) :
        search' = [s EXCEPT !.at = "count", !.kw = Top(o, s.ask.keyword_limit)]
  BY <1>1
<1>6. s.ask.keyword_limit >= MaxId => DOMAIN Top(o, s.ask.keyword_limit) = found
  <2>1. found \subseteq Ids
    BY VisibleTyped DEF TypeOK
  <2> HIDE DEF found
  <2>2. IsFiniteSet(found) /\ Cardinality(found) \in 0 .. MaxId
    BY <2>1, IdsFinite
  <2> QED
    BY <1>4, <1>5, <2>2, TopWhole, RetrievalConstantsOK
<1> HIDE DEF found
<1>7. /\ search'.ask = s.ask /\ search'.turn = s.turn /\ search'.at = "count"
      /\ search'.rows = s.rows /\ search'.facts = s.facts
      /\ search'.hits = s.hits /\ search'.fell = s.fell
      /\ search'.kw = Top(o, s.ask.keyword_limit)
  BY <1>3, <1>5 DEF Search
<1>8. s.turn \in Nat \ {0}
  BY <1>3, <1>4, RetrievalConstantsOK
<1> QED
  BY <1>2, <1>3, <1>4, <1>5, <1>6, <1>7, <1>8 DEF found

LEMMA LexicalFaith == Faithful /\ Lexical /\ Watch => HoldsTrue' /\ HoldsAll' /\ SearchKeepsFaith'
<1> SUFFICES ASSUME Faithful, Lexical, Watch PROVE HoldsTrue' /\ HoldsAll' /\ SearchKeepsFaith'
  OBVIOUS
<1>1. TypeOK /\ HoldsTrue /\ HoldsAll
  BY DEF Faithful
<1>2. PICK s \in Search :
        /\ \/ search.at = "lexical" /\ s = search
           \/ search.at = "idle" /\ \E a \in Asks : s = Asking(a, 1, {}, FALSE)
        /\ s.ask \in Asks /\ s.turn \in Nat \ {0} /\ s.ask.keyword_limit \in Nat
        /\ search'.ask = s.ask /\ search'.turn = s.turn /\ search'.at = "count"
        /\ search'.rows = s.rows /\ search'.facts = s.facts
        /\ search'.hits = s.hits /\ search'.fell = s.fell
        /\ s.ask.keyword_limit >= MaxId =>
             {i \in Live : InScope(row[i], s.ask.scope) /\ Word(row[i], s.ask.queries[s.turn])}
               \subseteq DOMAIN search'.kw
  BY <1>1, LexicalIs
<1>3. PICK a \in Asks : a = s.ask
  BY <1>2
<1>4. row' = row /\ Visible(a)' = Visible(a)
  BY QuietSees DEF Lexical
<1>5. Visible(a) \subseteq seen'.ever /\ seen'.always \subseteq Visible(a)
  BY <1>1, <1>2, <1>3, <1>4, WatchReads
<1>6. /\ DOMAIN s.rows \cup s.facts \cup Keys(s.hits) \subseteq seen'.ever
      /\ \A i \in DOMAIN s.rows : Fits(s.rows[i], a)
      /\ s.facts # {} => Fits(Fact, a)
      /\ Unique(s.hits) /\ \A h \in s.hits : Fits(h.from, a)
      /\ a.keyword_limit >= MaxId => \A k \in seen'.always \ {0} : Covered(k, a, s.hits, s.fell, s.turn - 1)
  <2>1. CASE search.at = "lexical" /\ s = search
    <3>1. seen'.ever = seen.ever \cup Visible(a)' /\ seen'.always = seen.always \cap Visible(a)'
      BY <1>1, <1>3, <2>1, WatchIs
    <3> QED
      BY <1>1, <1>3, <2>1, <3>1 DEF HoldsTrue, HoldsAll, Holds
  <2>2. CASE \E b \in Asks : s = Asking(b, 1, {}, FALSE)
    <3>1. s.rows = Nothing /\ s.facts = {} /\ s.hits = {} /\ ~s.fell /\ s.turn = 1
      BY <2>2 DEF Asking
    <3>2. Keys({}) = {}
      BY DEF Keys
    <3>3. DOMAIN Nothing = {}
      BY NothingTyped
    <3> HIDE DEF Nothing
    <3> QED
      BY <3>1, <3>2, <3>3 DEF Unique, Covered
  <2> QED
    BY <1>2, <2>1, <2>2
<1>7. HoldsTrue'
  BY <1>2, <1>3, <1>6 DEF HoldsTrue
<1>8. HoldsAll'
  <2>1. ASSUME NEW k \in seen'.always \ {0}, a.keyword_limit >= MaxId PROVE Holds(k)'
    <3>1. k \in Live /\ InScope(row[k], a.scope)
      BY <1>1, <1>5, VisibleIs DEF Fits
    <3>2. Word(row[k], s.ask.queries[s.turn]) => k \in DOMAIN search'.kw
      BY <1>2, <1>3, <2>1, <3>1
    <3>3. Covered(k, a, s.hits, s.fell, s.turn - 1)
      BY <1>6, <2>1
    <3> QED
      BY <1>2, <1>3, <1>4, <3>2, <3>3 DEF Holds, Covered, Sought, Word
  <2>2. seen'.always \subseteq Visible(search.ask)'
    BY <1>2, <1>3, <1>4, <1>5
  <2> QED
    BY <1>2, <1>3, <2>1, <2>2 DEF HoldsAll
<1> QED
  BY <1>7, <1>8, SilentFaith DEF Lexical

LEMMA CountFaith == Faithful /\ CountRows /\ Watch => HoldsTrue' /\ HoldsAll' /\ SearchKeepsFaith'
<1> SUFFICES ASSUME Faithful, CountRows, Watch PROVE HoldsTrue' /\ HoldsAll' /\ SearchKeepsFaith'
  OBVIOUS
<1>1. TypeOK /\ HoldsTrue /\ HoldsAll /\ search.at = "count"
  BY DEF Faithful, CountRows
<1>2. search \in Search /\ search.ask \in Asks
  BY <1>1, SearchIs
<1>3. PICK a \in Asks : a = search.ask
  BY <1>2
<1>4. PICK bounded \in BOOLEAN : search' = [search EXCEPT !.at = "rows", !.bounded = bounded]
  BY DEF CountRows
<1>5. /\ search'.ask = search.ask /\ search'.turn = search.turn /\ search'.at = "rows"
      /\ search'.rows = search.rows /\ search'.facts = search.facts
      /\ search'.hits = search.hits /\ search'.fell = search.fell /\ search'.kw = search.kw
  BY <1>2, <1>4 DEF Search
<1>6. row' = row /\ Visible(a)' = Visible(a)
  BY QuietSees DEF CountRows
<1>7. seen'.ever = seen.ever \cup Visible(a) /\ seen'.always = seen.always \cap Visible(a)
  BY <1>1, <1>3, <1>6, WatchIs
<1>8. HoldsTrue'
  BY <1>1, <1>3, <1>5, <1>7 DEF HoldsTrue
<1>9. HoldsAll'
  <2>1. ASSUME NEW k \in seen'.always \ {0}, a.keyword_limit >= MaxId PROVE Holds(k)'
    <3>1. Holds(k)
      BY <1>1, <1>3, <1>7, <2>1 DEF HoldsAll
    <3> QED
      BY <1>1, <1>3, <1>5, <1>6, <3>1 DEF Holds, Covered, Sought, Word
  <2>2. seen'.always \subseteq Visible(search.ask)'
    BY <1>3, <1>5, <1>6, <1>7
  <2> QED
    BY <1>3, <1>5, <2>1, <2>2 DEF HoldsAll
<1> QED
  BY <1>8, <1>9, SilentFaith DEF CountRows

LEMMA RowsFaith == Faithful /\ ReadRows /\ Watch => HoldsTrue' /\ HoldsAll' /\ SearchKeepsFaith'
<1> SUFFICES ASSUME Faithful, ReadRows, Watch PROVE HoldsTrue' /\ HoldsAll' /\ SearchKeepsFaith'
  OBVIOUS
<1>1. TypeOK /\ HoldsTrue /\ HoldsAll /\ search.at = "rows"
  BY DEF Faithful, ReadRows
<1>2. search \in Search /\ search.ask \in Asks
  BY <1>1, SearchIs
<1>3. PICK a \in Asks : a = search.ask
  BY <1>2
<1> DEFINE read == {i \in Scoped : /\ search.bounded => i \in DOMAIN search.kw
                                   /\ Matches(row[i], search.ask.filter)}
<1>4. search' = [search EXCEPT !.at = "facts", !.rows = [i \in read |-> row[i]]]
  BY DEF ReadRows
<1>5. \A k \in read : k \in Visible(a) /\ Fits(row[k], a)
  BY <1>3 DEF Visible, Scoped, Fits
<1>6. \A k \in Visible(a) \ {0} : k \in read \/ (search.bounded /\ k \notin DOMAIN search.kw)
  BY <1>1, <1>3, VisibleIs DEF Scoped, Fits
<1> HIDE DEF read
<1>8. /\ search'.ask = search.ask /\ search'.turn = search.turn /\ search'.at = "facts"
      /\ search'.rows = [i \in read |-> row[i]] /\ search'.facts = search.facts
      /\ search'.hits = search.hits /\ search'.fell = search.fell
      /\ search'.kw = search.kw /\ search'.bounded = search.bounded
  BY <1>2, <1>4 DEF Search
<1>9. row' = row /\ Visible(a)' = Visible(a)
  BY QuietSees DEF ReadRows
<1>10. seen'.ever = seen.ever \cup Visible(a) /\ seen'.always = seen.always \cap Visible(a)
  BY <1>1, <1>3, <1>9, WatchIs
<1>11. HoldsTrue'
  BY <1>1, <1>3, <1>5, <1>8, <1>10 DEF HoldsTrue
<1>12. HoldsAll'
  <2>1. ASSUME NEW k \in seen'.always \ {0}, a.keyword_limit >= MaxId PROVE Holds(k)'
    <3>1. Holds(k)
      BY <1>1, <1>3, <1>10, <2>1 DEF HoldsAll
    <3>2. k \in read \/ (search.bounded /\ k \notin DOMAIN search.kw)
      BY <1>6, <1>10, <2>1
    <3> QED
      BY <1>1, <1>3, <1>8, <1>9, <3>1, <3>2 DEF Holds, Covered, Sought, Word
  <2>2. seen'.always \subseteq Visible(search.ask)'
    BY <1>3, <1>8, <1>9, <1>10
  <2> QED
    BY <1>3, <1>8, <2>1, <2>2 DEF HoldsAll
<1> QED
  BY <1>11, <1>12, SilentFaith DEF ReadRows

LEMMA FactsFaith == Faithful /\ ReadFacts /\ Watch => HoldsTrue' /\ HoldsAll' /\ SearchKeepsFaith'
<1> SUFFICES ASSUME Faithful, ReadFacts, Watch PROVE HoldsTrue' /\ HoldsAll' /\ SearchKeepsFaith'
  OBVIOUS
<1>1. TypeOK /\ HoldsTrue /\ HoldsAll /\ search.at = "facts"
  BY DEF Faithful, ReadFacts
<1>2. search \in Search /\ search.ask \in Asks
  BY <1>1, SearchIs
<1>3. PICK a \in Asks : a = search.ask
  BY <1>2
<1>4. search' = [search EXCEPT !.at = "index", !.memory = memory, !.facts = Visible(search.ask) \cap {0}]
  BY DEF ReadFacts
<1>5. /\ search'.ask = search.ask /\ search'.turn = search.turn /\ search'.at = "index"
      /\ search'.rows = search.rows /\ search'.facts = Visible(a) \cap {0}
      /\ search'.hits = search.hits /\ search'.fell = search.fell
      /\ search'.kw = search.kw /\ search'.bounded = search.bounded
  BY <1>2, <1>3, <1>4 DEF Search
<1>6. row' = row /\ Visible(a)' = Visible(a)
  BY QuietSees DEF ReadFacts
<1>7. seen'.ever = seen.ever \cup Visible(a) /\ seen'.always = seen.always \cap Visible(a)
  BY <1>1, <1>3, <1>6, WatchIs
<1>8. HoldsTrue'
  BY <1>1, <1>3, <1>5, <1>7, VisibleIs DEF HoldsTrue
<1>9. HoldsAll'
  <2>1. ASSUME NEW k \in seen'.always \ {0}, a.keyword_limit >= MaxId PROVE Holds(k)'
    <3>1. Holds(k)
      BY <1>1, <1>3, <1>7, <2>1 DEF HoldsAll
    <3> QED
      BY <1>1, <1>3, <1>5, <1>6, <3>1 DEF Holds, Covered, Sought, Word
  <2>2. seen'.always \subseteq Visible(search.ask)'
    BY <1>3, <1>5, <1>6, <1>7
  <2> QED
    BY <1>3, <1>5, <1>7, <2>1, <2>2 DEF HoldsAll
<1> QED
  BY <1>8, <1>9, SilentFaith DEF ReadFacts

\* The batches of a search that goes on are its hits; those of one that is done are
\* its answer, cut to the limit.
LEMMA ConcludeIs ==
  ASSUME TypeOK, search.at = "index", Unique(search.hits),
         NEW batch \in SUBSET Hit, Unique(batch), NEW fell \in BOOLEAN, Conclude(batch, fell)
  PROVE  LET hits == Merge(search.hits, batch) IN
         \/ search' = Asking(search.ask, search.turn + 1, hits, fell) /\ NoAnswer
         \/ /\ search' = Idle /\ search.turn = Len(search.ask.queries)
            /\ answer'.given /\ answer'.chunks /\ answer'.ask = search.ask /\ answer'.fell = fell
            /\ answer'.hits \subseteq hits
            /\ Cardinality(answer'.hits) <= search.ask.limit
            /\ Cardinality(answer'.hits) < search.ask.limit => answer'.hits = hits
<1> DEFINE hits == Merge(search.hits, batch)
<1>1. search.hits \subseteq Hit /\ search.ask.limit \in Nat
  BY SearchIs
<1>2. hits \subseteq Hit /\ Unique(hits)
  BY <1>1, MergeIs
<1>3. IsFiniteSet(hits)
  BY <1>2, HitsFinite
<1> HIDE DEF hits
<1>4. CASE search.turn < Len(search.ask.queries) /\ search' = Asking(search.ask, search.turn + 1, hits, fell) /\ NoAnswer
  BY <1>4 DEF hits
<1>5. CASE /\ search.turn = Len(search.ask.queries) /\ search' = Idle
           /\ \E o \in Rankings(hits, [h \in hits |-> h.score]) :
                answer' = [given |-> TRUE, ask |-> search.ask, fell |-> fell, chunks |-> TRUE,
                           hits |-> DOMAIN Top(o, search.ask.limit)]
  <2>1. PICK o \in Rankings(hits, [h \in hits |-> h.score]) :
          answer' = [given |-> TRUE, ask |-> search.ask, fell |-> fell, chunks |-> TRUE,
                     hits |-> DOMAIN Top(o, search.ask.limit)]
    BY <1>5
  <2> DEFINE D == DOMAIN Top(o, search.ask.limit)
  <2>2. /\ D \subseteq hits /\ Cardinality(D) <= search.ask.limit
        /\ Cardinality(D) < search.ask.limit => D = hits
    BY <1>1, <1>3, TopCuts
  <2> HIDE DEF D
  <2>3. /\ answer'.given /\ answer'.chunks /\ answer'.ask = search.ask /\ answer'.fell = fell
        /\ answer'.hits = D
    BY <2>1 DEF D
  <2> QED
    BY <1>5, <2>2, <2>3 DEF hits
<1> QED
  BY <1>4, <1>5 DEF Conclude, hits

\* A batch has nothing that may not be shown.
LEMMA BatchTrue ==
  ASSUME Faithful, search.at = "index", NEW q, NEW found, Found(found),
         \A i \in DOMAIN found : Fits(View("server")[i], search.ask),
         NEW k \in Keyed(found, q)
  PROVE  k \in seen.ever /\ Fits(From(k, found), search.ask)
<1>1. TypeOK /\ HoldsTrue
  BY DEF Faithful
<1>2. /\ DOMAIN search.rows \cup search.facts \subseteq seen.ever
      /\ \A i \in DOMAIN search.rows : Fits(search.rows[i], search.ask)
      /\ search.facts # {} => Fits(Fact, search.ask)
  BY <1>1 DEF HoldsTrue
<1>3. k \in DOMAIN search.rows \cup search.facts /\ 0 \notin DOMAIN search.rows
  BY <1>1, KeyedIs, SearchIs DEF Ids
<1>4. CASE k = 0
  <2>1. From(k, found) = Told(search.memory.text) /\ Fits(Fact, search.ask)
    BY <1>1, <1>2, <1>3, <1>4, FromTyped
  <2>2. ASSUME NEW text PROVE Fits(Told(text), search.ask)
    BY <2>1 DEF Told, Fits, InScope, Server!InScope, Matches, Server!Matches
  <2> QED
    BY <1>2, <1>3, <2>1, <2>2
<1>5. CASE k # 0 /\ k \in DOMAIN found
  <2>1. k \in DOMAIN search.rows /\ From(k, found) \in {View("server")[k], search.rows[k]}
    BY <1>1, <1>5, FromTyped
  <2> QED
    BY <1>2, <1>3, <1>5, <2>1
<1>6. CASE k # 0 /\ k \notin DOMAIN found
  <2>1. k \in DOMAIN search.rows /\ From(k, found) = search.rows[k]
    BY <1>1, <1>6, FromTyped
  <2> QED
    BY <1>2, <1>3, <2>1
<1> QED
  BY <1>4, <1>5, <1>6

\* A chunk that was there all along is in the ranking, or has no word of the query
\* while the store had others, or there were too many to compare.
LEMMA BatchAll ==
  ASSUME Faithful, search.at = "index", NEW found, Found(found),
         search.ask.keyword_limit >= MaxId, NEW k \in seen.always \ {0}
  PROVE  \/ k \in Keyed(found, Sought)
         \/ ~Word(row[k], Sought) /\ ~(DOMAIN found = {} /\ ~search.bounded)
<1>1. TypeOK /\ HoldsAll
  BY DEF Faithful
<1>2. Holds(k)
  BY <1>1 DEF HoldsAll
<1>3. CASE k \in DOMAIN search.rows /\ DOMAIN found = {}
  BY <1>3 DEF Keyed, Scored
<1>4. CASE k \in DOMAIN search.rows /\ Word(row[k], Sought)
  <2>1. k \in DOMAIN search.kw
    BY <1>2, <1>4 DEF Holds
  <2>2. search.kw[k] <= search.ask.keyword_limit
    <3>1. search.kw[k] \in 0 .. MaxId /\ search.ask.keyword_limit \in Nat
      BY <1>1, <2>1, SearchIs
    <3> QED
      BY <3>1, RetrievalConstantsOK
  <2> DEFINE facts == {i \in search.facts : Word(search.memory, Sought)}
             o == [i \in DOMAIN search.kw \cup facts |->
                     IF i \in DOMAIN search.kw THEN search.kw[i] ELSE Cardinality(DOMAIN search.kw) + 1]
  <2>3. k \in DOMAIN o /\ o[k] = search.kw[k]
    BY <2>1
  <2>4. Worded(Sought) = Top(o, search.ask.keyword_limit)
    BY DEF Worded
  <2> HIDE DEF o
  <2>5. k \in DOMAIN Worded(Sought)
    BY <2>2, <2>3, <2>4 DEF Top, Server!Top
  <2> QED
    BY <1>4, <2>5 DEF Keyed
<1>5. CASE search.bounded /\ k \notin DOMAIN search.kw
  BY <1>2, <1>5 DEF Holds
<1> QED
  BY <1>2, <1>3, <1>4, <1>5 DEF Holds

\* The batch of a query, and what the hits are with it.
LEMMA RankKeeps ==
  ASSUME Faithful, Rank
  PROVE  \E batch \in SUBSET Hit, fell \in BOOLEAN :
           LET hits == Merge(search.hits, batch) IN
           /\ Conclude(batch, fell) /\ Unique(batch)
           /\ hits \subseteq Hit /\ Unique(hits) /\ Keys(hits) \subseteq seen.ever
           /\ \A h \in hits : Fits(h.from, search.ask)
           /\ 0 \in seen.always => Cardinality(hits) >= search.ask.limit \/ 0 \in Keys(hits)
           /\ search.ask.keyword_limit >= MaxId =>
                \A k \in seen.always \ {0} : Covered(k, search.ask, hits, fell, search.turn)
<1>1. TypeOK /\ HoldsTrue /\ HoldsAll /\ search.at = "index" /\ Sought \in DOMAIN Near
  BY RankIs DEF Faithful
<1>2. PICK found : /\ Blend(found, Sought) /\ Found(found)
                   /\ \A i \in DOMAIN found : Fits(View("server")[i], search.ask)
  BY <1>1, RankIs DEF Fits
<1> DEFINE fell == search.fell \/ (DOMAIN found = {} /\ ~search.bounded)
<1>3. PICK batch \in SUBSET Hit :
        /\ Unique(batch) /\ Keys(batch) \subseteq Keyed(found, Sought)
        /\ \A h \in batch : h.from = From(h.key, found)
        /\ Cardinality(Keys(batch)) \in Nat
        /\ Cardinality(Keys(batch)) < search.ask.limit => Keys(batch) = Keyed(found, Sought)
        /\ Conclude(batch, fell)
  BY <1>1, <1>2, BlendIs
<1> DEFINE hits == Merge(search.hits, batch)
<1>4. /\ search.hits \subseteq Hit /\ Unique(search.hits) /\ Keys(search.hits) \subseteq seen.ever
      /\ \A h \in search.hits : Fits(h.from, search.ask)
      /\ search.ask.limit \in Nat /\ search.turn \in Nat \ {0}
  BY <1>1, SearchIs DEF HoldsTrue
<1>5. /\ hits \subseteq search.hits \cup batch /\ hits \subseteq Hit
      /\ Unique(hits) /\ Keys(hits) = Keys(search.hits) \cup Keys(batch)
  BY <1>3, <1>4, MergeIs
<1> HIDE DEF hits, fell
<1>6. ASSUME NEW h \in batch PROVE h.key \in seen.ever /\ Fits(h.from, search.ask)
  <2>1. h.key \in Keyed(found, Sought)
    BY <1>3 DEF Keys
  <2> QED
    BY <1>1, <1>2, <1>3, <2>1, BatchTrue
<1>7. Keys(hits) \subseteq seen.ever /\ \A h \in hits : Fits(h.from, search.ask)
  BY <1>4, <1>5, <1>6 DEF Keys
<1>8. /\ Cardinality(hits) \in Nat
      /\ Cardinality(search.hits) \in Nat /\ Cardinality(search.hits) <= Cardinality(hits)
      /\ Cardinality(Keys(batch)) <= Cardinality(hits)
  <2>1. Cardinality(hits) \in Nat /\ Cardinality(hits) = Cardinality(Keys(hits)) /\ Keys(hits) \subseteq AllKeys
    BY <1>5, HitsFinite
  <2>2. Cardinality(search.hits) \in Nat /\ Cardinality(search.hits) = Cardinality(Keys(search.hits))
    BY <1>4, HitsFinite
  <2> QED
    BY <1>5, <2>1, <2>2, KeysFinite, FS_Subset
<1>9. Cardinality(hits) >= search.ask.limit \/ Keyed(found, Sought) \subseteq Keys(hits)
  BY <1>3, <1>4, <1>5, <1>8
<1>10. 0 \in seen.always => Cardinality(hits) >= search.ask.limit \/ 0 \in Keys(hits)
  BY <1>1, <1>9 DEF HoldsAll, Keyed, Scored
<1>11. ASSUME NEW k \in seen.always \ {0}, search.ask.keyword_limit >= MaxId
       PROVE  Covered(k, search.ask, hits, fell, search.turn)
  <2>1. Covered(k, search.ask, search.hits, search.fell, search.turn - 1)
    BY <1>1, <1>11 DEF HoldsAll, Holds
  <2>2. CASE k \in Keyed(found, Sought)
    BY <1>9, <2>2 DEF Covered
  <2>3. CASE ~Word(row[k], Sought) /\ ~(DOMAIN found = {} /\ ~search.bounded)
    <3>1. fell = search.fell
      BY <2>3, <1>1, SearchIs DEF fell, Search
    <3>2. CASE Cardinality(search.hits) >= search.ask.limit
      BY <1>4, <1>8, <3>2 DEF Covered
    <3>3. CASE k \in Keys(search.hits)
      BY <1>5, <3>3 DEF Covered
    <3>4. CASE ~search.fell /\ \A j \in 1 .. search.turn - 1 : ~Word(row[k], search.ask.queries[j])
      <4>1. \A j \in 1 .. search.turn : j \in 1 .. search.turn - 1 \/ j = search.turn
        BY <1>4
      <4> QED
        BY <2>3, <3>1, <3>4, <4>1 DEF Covered, Sought
    <3> QED
      BY <2>1, <3>2, <3>3, <3>4 DEF Covered
  <2> QED
    BY <1>1, <1>2, <1>11, <2>2, <2>3, BatchAll
<1>12. fell \in BOOLEAN
  BY DEF fell
<1> QED
  BY <1>3, <1>5, <1>7, <1>10, <1>11, <1>12 DEF hits

LEMMA RankFaith == Faithful /\ Rank /\ Watch => HoldsTrue' /\ HoldsAll' /\ SearchKeepsFaith'
<1> SUFFICES ASSUME Faithful, Rank, Watch PROVE HoldsTrue' /\ HoldsAll' /\ SearchKeepsFaith'
  OBVIOUS
<1>1. TypeOK /\ HoldsTrue /\ HoldsAll /\ search.at = "index" /\ row' = row
  BY RankIs DEF Faithful
<1>2. PICK batch \in SUBSET Hit, fell \in BOOLEAN :
        /\ Conclude(batch, fell) /\ Unique(batch)
        /\ Merge(search.hits, batch) \subseteq Hit /\ Unique(Merge(search.hits, batch))
        /\ Keys(Merge(search.hits, batch)) \subseteq seen.ever
        /\ \A h \in Merge(search.hits, batch) : Fits(h.from, search.ask)
        /\ 0 \in seen.always => \/ Cardinality(Merge(search.hits, batch)) >= search.ask.limit
                                \/ 0 \in Keys(Merge(search.hits, batch))
        /\ search.ask.keyword_limit >= MaxId =>
             \A k \in seen.always \ {0} :
               Covered(k, search.ask, Merge(search.hits, batch), fell, search.turn)
  BY RankKeeps
<1> DEFINE hits == Merge(search.hits, batch)
<1>3. PICK a \in Asks : a = search.ask
  BY <1>1, SearchIs
<1>4. seen'.ever = seen.ever \cup Visible(a)' /\ seen'.always = seen.always \cap Visible(a)'
  BY <1>1, <1>3, WatchIs
<1>5. \/ search' = Asking(a, search.turn + 1, hits, fell) /\ NoAnswer
      \/ /\ search' = Idle /\ search.turn = Len(a.queries)
         /\ answer'.given /\ answer'.chunks /\ answer'.ask = a /\ answer'.fell = fell
         /\ answer'.hits \subseteq hits
         /\ Cardinality(answer'.hits) <= a.limit
         /\ Cardinality(answer'.hits) < a.limit => answer'.hits = hits
  BY <1>1, <1>2, <1>3, ConcludeIs DEF HoldsTrue
<1>6. /\ hits \subseteq Hit /\ Unique(hits) /\ Keys(hits) \subseteq seen'.ever
      /\ \A h \in hits : Fits(h.from, a)
      /\ 0 \in seen'.always => Cardinality(hits) >= a.limit \/ 0 \in Keys(hits)
      /\ a.keyword_limit >= MaxId => \A k \in seen'.always \ {0} : Covered(k, a, hits, fell, search.turn)
  BY <1>2, <1>3, <1>4
<1> HIDE DEF hits
<1>7. search.turn \in Nat \ {0}
  BY <1>1, SearchIs
<1>8. CASE search' = Asking(a, search.turn + 1, hits, fell) /\ NoAnswer
  <2>1. /\ search'.at = "lexical" /\ search'.ask = a /\ search'.turn = search.turn + 1
        /\ search'.hits = hits /\ search'.fell = fell
        /\ search'.rows = Nothing /\ search'.facts = {}
    BY <1>8 DEF Asking
  <2>2. HoldsTrue'
    BY <1>6, <2>1, NothingTyped DEF HoldsTrue
  <2>3. HoldsAll'
    <3>1. ASSUME NEW k \in seen'.always \ {0}, a.keyword_limit >= MaxId PROVE Holds(k)'
      <4>1. Covered(k, a, hits, fell, search.turn)
        BY <1>6, <3>1
      <4>2. search'.turn - 1 = search.turn
        BY <1>7, <2>1
      <4> QED
        BY <1>1, <2>1, <4>1, <4>2 DEF Holds, Covered, Word
    <3>2. seen'.always \subseteq Visible(search.ask)'
      BY <1>4, <2>1
    <3> QED
      BY <2>1, <3>1, <3>2 DEF HoldsAll
  <2> QED
    BY <1>8, <2>2, <2>3, SilentFaith
<1>9. CASE /\ search' = Idle /\ search.turn = Len(a.queries)
           /\ answer'.given /\ answer'.chunks /\ answer'.ask = a /\ answer'.fell = fell
           /\ answer'.hits \subseteq hits
           /\ Cardinality(answer'.hits) <= a.limit
           /\ Cardinality(answer'.hits) < a.limit => answer'.hits = hits
  <2>1. HoldsTrue' /\ HoldsAll'
    BY <1>9 DEF HoldsTrue, HoldsAll, Idle
  <2>2. Sound'
    BY <1>6, <1>9 DEF Sound, Unique, Keys, Fits
  <2>3. Complete'
    <3> SUFFICES ASSUME Cardinality(answer'.hits) < a.limit, NEW k \in seen'.always
                 PROVE  \/ k \in Keys(hits)
                        \/ k > 0 /\ ~fell /\ \A j \in DOMAIN a.queries : ~Word(row[k], a.queries[j])
                        \/ k > 0 /\ a.keyword_limit < MaxId
      BY <1>1, <1>9 DEF Complete, Word, Keys
    <3>1. k \in {0} \cup Ids
      BY <1>1, <1>4 DEF TypeOK, SearchOK
    <3>2. a.limit \in Nat /\ a.keyword_limit \in Nat /\ DOMAIN a.queries = 1 .. search.turn
      BY <1>9, RetrievalConstantsOK
    <3>3. answer'.hits = hits /\ ~(Cardinality(hits) >= a.limit)
      <4>1. answer'.hits = hits
        BY <1>9
      <4>2. Cardinality(hits) \in Nat
        BY <1>6, HitsFinite
      <4> QED
        BY <3>2, <4>1, <4>2
    <3>4. CASE k = 0
      BY <1>6, <3>3, <3>4
    <3>5. CASE k > 0 /\ a.keyword_limit >= MaxId
      BY <1>6, <3>2, <3>3, <3>5 DEF Covered
    <3>6. CASE k > 0 /\ a.keyword_limit < MaxId
      BY <3>6
    <3> QED
      BY <3>1, <3>2, <3>4, <3>5, <3>6, RetrievalConstantsOK DEF Ids
  <2> QED
    BY <2>1, <2>2, <2>3 DEF SearchKeepsFaith
<1> QED
  BY <1>5, <1>8, <1>9

LEMMA FindMemoriesFaith ==
  Faithful /\ FindMemories /\ Watch => HoldsTrue' /\ HoldsAll' /\ SearchKeepsFaith'
<1> SUFFICES ASSUME Faithful, FindMemories, Watch PROVE HoldsTrue' /\ HoldsAll' /\ SearchKeepsFaith'
  OBVIOUS
<1>1. TypeOK /\ search.at = "idle" /\ search' = search
  BY DEF Faithful, FindMemories
<1>2. PICK a, hit :
        /\ a \in Asks /\ hit.key = 0 /\ hit.from = Told(memory.text)
        /\ answer' = [given |-> TRUE, ask |-> a, fell |-> TRUE, chunks |-> FALSE,
                      hits |-> {h \in {hit} : 0 \in Visible(a)}]
  BY DEF FindMemories
<1>3. /\ a \in Asks /\ answer'.given /\ ~answer'.chunks /\ answer'.ask = a
      /\ answer'.hits = {h \in {hit} : 0 \in Visible(a)}
  BY <1>2
<1>4. Visible(a)' = Visible(a)
  BY QuietSees DEF FindMemories
<1>5. seen'.ever = Visible(a) /\ seen'.always \subseteq Visible(a)
  <2> DEFINE asks == {b \in Asks : IF search.at # "idle" THEN b = search.ask
                                  ELSE IF search'.at # "idle" THEN b = search'.ask
                                  ELSE answer'.given /\ b = answer'.ask}
             before == IF search.at = "idle" THEN Unseen ELSE seen
  <2>1. asks = {a} /\ before = Unseen
    BY <1>1, <1>3
  <2>2. \/ asks = {} /\ seen' = Unseen
        \/ \E b \in asks : seen' = [ever   |-> before.ever \cup Visible(b)',
                                   always |-> before.always \cap Visible(b)']
    BY Zenon DEF Watch
  <2> HIDE DEF asks, before
  <2>3. Unseen.ever = {}
    BY DEF Unseen
  <2> QED
    BY <1>4, <2>1, <2>2, <2>3
<1>6. a.limit \in Nat \ {0}
  BY <1>3, RetrievalConstantsOK
<1>7. Sound'
  <2>1. CASE 0 \in Visible(a)
    <3>1. answer'.hits = {hit}
      BY <1>3, <2>1
    <3>2. Cardinality({hit}) = 1
      BY FS_Singleton
    <3>3. InScope(hit.from, a.scope) /\ Matches(hit.from, a.filter)
      <4>1. Fits(Fact, a)
        BY <1>1, <2>1, VisibleIs
      <4> QED
        BY <1>2, <4>1 DEF Told, Fits, InScope, Server!InScope, Matches, Server!Matches
    <3>4. Keys({hit}) = {0}
      BY <1>2 DEF Keys
    <3> QED
      BY <1>3, <1>5, <1>6, <2>1, <3>1, <3>2, <3>3, <3>4 DEF Sound
  <2>2. CASE 0 \notin Visible(a)
    <3>1. answer'.hits = {}
      BY <1>3, <2>2
    <3>2. Cardinality({}) = 0 /\ Keys({}) = {}
      BY FS_EmptySet DEF Keys
    <3> QED
      BY <1>3, <1>6, <3>1, <3>2 DEF Sound
  <2> QED
    BY <2>1, <2>2
<1>8. Complete'
  <2> SUFFICES ASSUME NEW k \in seen'.always PROVE k \in Keys(answer'.hits) \/ (k > 0 /\ ~answer'.chunks)
    BY <1>3 DEF Complete, Keys
  <2>1. CASE k = 0
    <3>1. answer'.hits = {hit}
      BY <1>3, <1>5, <2>1
    <3> QED
      BY <1>2, <2>1, <3>1 DEF Keys
  <2>2. CASE k # 0
    <3>1. k \in AllKeys
      BY <1>1, <1>5, VisibleTyped DEF TypeOK
    <3> QED
      BY <1>3, <2>2, <3>1, RetrievalConstantsOK DEF AllKeys, Ids
  <2> QED
    BY <2>1, <2>2
<1> QED
  BY <1>1, <1>7, <1>8 DEF HoldsTrue, HoldsAll, SearchKeepsFaith

LEMMA FaithfulInit == Init => Faithful
<1> SUFFICES ASSUME Init PROVE Faithful
  OBVIOUS
<1>1. search.at = "idle" /\ ~answer.given
  BY DEF Init, Idle, Silent
<1> QED
  BY <1>1, InitTyped DEF Faithful, HoldsTrue, HoldsAll, SearchKeepsFaith, Sound, Complete

LEMMA FaithfulNext == Faithful /\ [Next]_vars => Faithful'
<1> SUFFICES ASSUME Faithful, [Next]_vars PROVE Faithful'
  OBVIOUS
<1>1. TypeOK'
  BY NextTyped DEF Faithful
<1>2. ASSUME Next PROVE HoldsTrue' /\ HoldsAll' /\ SearchKeepsFaith'
  <2>1. Step /\ Watch
    BY <1>2 DEF Next
  <2>2. CASE AddChunk \/ IndexChunk \/ EraseChunk \/ EraseTag \/ EraseRows \/ Expire \/ ChangeMemory
    <3>1. UNCHANGED search /\ NoAnswer
      BY <2>2 DEF AddChunk, IndexChunk, EraseChunk, EraseTag, Erase, EraseRows, Expire, ChangeMemory, Wrote
    <3> QED
      BY <2>1, <3>1, HeldUnder
  <2>3. ASSUME NEW p \in Procs, Restart(p) PROVE HoldsTrue' /\ HoldsAll' /\ SearchKeepsFaith'
    <3>1. NoAnswer
      BY <2>3 DEF Restart
    <3>2. CASE UNCHANGED search
      BY <2>1, <3>1, <3>2, HeldUnder
    <3>3. CASE search' = Idle
      BY <3>1, <3>3, SilentFaith DEF HoldsTrue, HoldsAll, Idle
    <3> QED
      BY <2>3, <3>2, <3>3 DEF Restart
  <2>4. CASE Lexical \/ CountRows \/ ReadRows \/ ReadFacts \/ Rank \/ FindMemories
    BY <2>1, <2>4, LexicalFaith, CountFaith, RowsFaith, FactsFaith, RankFaith, FindMemoriesFaith
  <2> QED
    BY <2>1, <2>2, <2>3, <2>4 DEF Step
<1>3. ASSUME UNCHANGED vars PROVE HoldsTrue' /\ HoldsAll' /\ SearchKeepsFaith'
  <2>1. /\ UNCHANGED <<row, expired, memory>>
        /\ UNCHANGED <<search, answer, seen>>
    BY <1>3 DEF vars, tables
  <2>2. HoldsTrue'
    BY <2>1 DEF Faithful, HoldsTrue
  <2>3. \A k : Holds(k) => Holds(k)'
    BY <2>1 DEF Holds, Covered, Sought, Word
  <2>4. Visible(search.ask)' = Visible(search.ask)
    BY <2>1 DEF Visible, Live
  <2>5. HoldsAll'
    BY <2>1, <2>3, <2>4 DEF Faithful, HoldsAll
  <2>6. SearchKeepsFaith'
    BY <2>1 DEF Faithful, SearchKeepsFaith, Sound, Complete, Word
  <2> QED
    BY <2>2, <2>5, <2>6
<1> QED
  BY <1>1, <1>2, <1>3 DEF Faithful

\* Whatever the store, and whatever it has lost, kept too long or never got, while
\* chunks are indexed, deleted and expire, the memory is edited, calls fail and
\* processes restart between the statements of a search: its answer shows each key
\* once, only what its tables had in scope while it ran, in the words of a document
\* that the caller may read; and one that is not full has left out nothing that was
\* there throughout and that a word, or a comparison in the process, had to find.
THEOREM SearchIsFaithful == Spec => []SearchKeepsFaith
<1>1. Init => Faithful
  BY FaithfulInit
<1>2. Faithful /\ [Next]_vars => Faithful'
  BY FaithfulNext
<1>3. Faithful => SearchKeepsFaith
  BY DEF Faithful
<1> QED
  BY <1>1, <1>2, <1>3, PTL DEF Spec

-----------------------------------------------------------------------------
(***************************************************************************)
(* The adapters.                                                           *)
(***************************************************************************)
\* Only the scores of what is ranked count.
LEMMA RankingsSame ==
  ASSUME NEW S, NEW f, NEW g, \A i \in S : f[i] = g[i]
  PROVE  Rankings(S, f) = Rankings(S, g)
  BY DEF Rankings, Server!Rankings

\* Only what is ranked is kept.
LEMMA KeptSame ==
  ASSUME NEW o, NEW S, NEW T, DOMAIN o \cap S = DOMAIN o \cap T
  PROVE  Kept(o, S) = Kept(o, T)
  BY DEF Kept, Server!Kept

\* The points of a scope are those that the filter of the adapter selects.
LEMMA SelectedIs ==
  ASSUME TypeOK, NEW p \in Procs, NEW s, s.org # Empty, s.project # Empty, NEW u
  PROVE  Selected(Points(p), s, u) =
           {i \in DOMAIN View(p) : /\ InScope(View(p)[i], s)
                                   /\ u => View(p)[i].org = None /\ View(p)[i].project = None}
<1>1. ASSUME NEW i \in DOMAIN Points(p)
      PROVE  Selects(Points(p)[i], s, u) <=>
               /\ InScope(View(p)[i], s)
               /\ u => View(p)[i].org = None /\ View(p)[i].project = None
  <2>1. View(p)[i] \in Docs /\ Points(p)[i] = Stored(View(p)[i])
    BY ViewIs
  <2> QED
    BY <2>1, StoredDocument
<1>2. DOMAIN View(p) = DOMAIN Points(p)
  BY ViewIs
<1> QED
  BY <1>1, <1>2 DEF Selected

\* What an adapter answers is what the protocol allows.
LEMMA AnswersPromised ==
  ASSUME TypeOK, NEW r \in Requests, r.op = "query"
  PROVE  Local("server", r) \cup Fetched("server", r) \subseteq Server!Answers(r)
<1> DEFINE points == Points("server")
           view == View("server")
           scoped == {i \in DOMAIN view : InScope(view[i], r.scope)}
           fit == {i \in scoped : Matches(view[i], r.filter)}
           nearness == [i \in scoped |-> Near[r.query][view[i].text]]
           Score(S) == [i \in S |-> Near[r.query][points[i].text]]
<1>1. /\ "server" \in Procs
      /\ DOMAIN view = DOMAIN points
      /\ \A i \in DOMAIN points : view[i] \in Docs /\ points[i] = Stored(view[i])
  BY ViewIs DEF Procs
<1>2. \A i \in DOMAIN points : points[i].text = view[i].text /\ points[i].meta = view[i].meta
  BY <1>1, StoredDocument
<1>3. Selected(points, r.scope, FALSE) = scoped
  <2>1. r.scope.org # Empty /\ r.scope.project # Empty
    BY RequestIs
  <2>2. Selected(points, r.scope, FALSE) =
          {i \in DOMAIN view : /\ InScope(view[i], r.scope)
                               /\ FALSE => view[i].org = None /\ view[i].project = None}
    BY <1>1, <2>1, SelectedIs
  <2> QED
    BY <2>2
<1>4. Fitting(points, r) = {i \in DOMAIN view : Matches(view[i], r.filter)}
  BY <1>1, <1>2 DEF Fitting, Matches, Server!Matches
<1>5. scoped \cap Fitting(points, r) = fit
  BY <1>4
<1>6. /\ Rankings(fit, Score(fit)) = Rankings(fit, nearness)
      /\ Rankings(scoped, Score(scoped)) = Rankings(scoped, nearness)
  <2>1. \A i \in scoped : Score(scoped)[i] = nearness[i]
    BY <1>1, <1>2
  <2>2. \A i \in fit : Score(fit)[i] = nearness[i]
    BY <1>1, <1>2
  <2> HIDE DEF fit, scoped, nearness, Score
  <2> QED
    BY <2>1, <2>2, RankingsSame
<1>7. Server!Answers(r) =
        {Top(o, r.limit) : o \in Rankings(fit, nearness)}
          \cup {Kept(Top(o, r.limit), fit) : o \in Rankings(scoped, nearness)}
  BY DEF Server!Answers, Top, Kept, Rankings, InScope, Matches
<1>8. Local("server", r) = {Top(o, r.limit) : o \in Rankings(fit, Score(fit))}
  <2>1. Local("server", r) =
          {Top(o, r.limit) : o \in Ranked(points, Selected(points, r.scope, FALSE) \cap Fitting(points, r), r)}
    BY DEF Local, Points
  <2> QED
    BY <1>3, <1>5, <2>1 DEF Ranked
<1>9. Fetched("server", r) = {Kept(Top(o, r.limit), Fitting(points, r)) : o \in Rankings(scoped, Score(scoped))}
  <2>1. Fetched("server", r) =
          {Kept(Top(o, r.limit), Fitting(points, r)) : o \in Ranked(points, Selected(points, r.scope, FALSE), r)}
    BY DEF Fetched, Points
  <2> QED
    BY <1>3, <2>1 DEF Ranked
<1>10. ASSUME NEW o \in Rankings(scoped, nearness)
       PROVE  Kept(Top(o, r.limit), Fitting(points, r)) = Kept(Top(o, r.limit), fit)
  <2>1. DOMAIN Top(o, r.limit) \subseteq scoped
    BY RankedIs
  <2>2. DOMAIN Top(o, r.limit) \cap Fitting(points, r) = DOMAIN Top(o, r.limit) \cap fit
    BY <1>5, <2>1
  <2> QED
    BY <2>2, KeptSame
<1> HIDE DEF fit, scoped, nearness, Score, points, view
<1> QED
  BY <1>6, <1>7, <1>8, <1>9, <1>10

\* A process sees a call do what it names.
LEMMA ObeysView ==
  ASSUME TypeOK, UNCHANGED kind, NEW p \in Procs, NEW r \in Requests, r.op # "query", Obeys(p, r)
  PROVE  /\ r.op = "upsert" =>
              View(p)' = [i \in DOMAIN View(p) \cup {r.id} |-> IF i = r.id THEN r.doc ELSE View(p)[i]]
         /\ r.op = "delete" =>
              View(p)' = [i \in DOMAIN View(p) \ r.ids |-> View(p)[i]]
         /\ r.op = "delete_in" =>
              View(p)' = [i \in DOMAIN View(p) \ {i \in DOMAIN View(p) :
                                                    /\ InScope(View(p)[i], r.scope)
                                                    /\ r.unscoped => /\ View(p)[i].org = None
                                                                     /\ View(p)[i].project = None}
                            |-> View(p)[i]]
<1>1. /\ Place(p) \in Places /\ DOMAIN View(p) = DOMAIN Points(p)
      /\ \A i \in DOMAIN Points(p) : View(p)[i] \in Docs /\ Points(p)[i] = Stored(View(p)[i])
  BY ViewIs
<1>2. point \in [Places -> Partial(Ids, Records)] /\ Place(p)' = Place(p)
  BY DEF TypeOK, StoreOK, Place
<1>3. point'[Place(p)] = Changed(Points(p), r)
  BY <1>1, <1>2 DEF Obeys, Points
<1>4. View(p)' = [i \in DOMAIN Changed(Points(p), r) |-> Decoded(Changed(Points(p), r)[i])]
  BY <1>2, <1>3 DEF View, Decoded
<1>5. \A i \in DOMAIN Points(p) : Decoded(Points(p)[i]) = View(p)[i]
  BY DEF View, Points
<1>6. ASSUME NEW S
      PROVE  [i \in DOMAIN Without(Points(p), S) |-> Decoded(Without(Points(p), S)[i])] =
               [i \in DOMAIN View(p) \ S |-> View(p)[i]]
  BY <1>1, <1>5 DEF Without
<1>7. CASE r.op = "upsert"
  <2>1. r.doc \in Docs
    BY <1>7, RequestIs
  <2>2. Decoded(Stored(r.doc)) = r.doc
    BY <2>1, StoredDocument
  <2>3. Changed(Points(p), r) =
          [i \in DOMAIN Points(p) \cup {r.id} |-> IF i = r.id THEN Stored(r.doc) ELSE Points(p)[i]]
    BY <1>7 DEF Changed
  <2> QED
    BY <1>1, <1>4, <1>5, <1>7, <2>2, <2>3
<1>8. CASE r.op = "delete"
  BY <1>4, <1>6, <1>8 DEF Changed
<1>9. CASE r.op = "delete_in"
  <2>1. r.scope.org # Empty /\ r.scope.project # Empty
    BY <1>9, RequestIs
  <2>2. Changed(Points(p), r) = Without(Points(p), Selected(Points(p), r.scope, r.unscoped))
    BY <1>9 DEF Changed
  <2>3. Selected(Points(p), r.scope, r.unscoped) =
          {i \in DOMAIN View(p) : /\ InScope(View(p)[i], r.scope)
                                  /\ r.unscoped => View(p)[i].org = None /\ View(p)[i].project = None}
    BY <2>1, SelectedIs
  <2> QED
    BY <1>4, <1>6, <1>9, <2>2, <2>3
<1> QED
  BY <1>7, <1>8, <1>9, RequestIs

\* Without a call of its own a process sees those of others.
LEMMA OthersSeen ==
  ASSUME NEW p \in Procs, call'.who # p
  PROVE  By(p)' = NoCall /\ ReplyTo(p)' = Nothing
  BY DEF By, ReplyTo

\* A call does, to the process that has made it, what the protocol says; the other
\* sees points change, or not.
LEMMA ServerCalls ==
  ASSUME TypeOK, UNCHANGED kind, NEW r \in Requests, r.op # "upsert", Call("server", r)
  PROVE  Server!Next /\ Worker!Next
<1>1. "server" \in Procs /\ "worker" \in Procs
  BY DEF Procs
<1>2. CASE Ignores("server", r)
  <2>1. call'.who = "server" /\ ~call'.ok /\ reply' = Nothing /\ UNCHANGED point
    BY <1>2 DEF Ignores
  <2>2. View("server")' = View("server") /\ By("server")' = call' /\ ReplyTo("server")' = Nothing
    BY <2>1 DEF View, Place, By, ReplyTo, Decoded
  <2>3. Server!Fail
    BY <2>1, <2>2 DEF Server!Fail, Server!NoReply, Nothing
  <2>4. Worker!Others
    BY <1>1, <2>1, OthersSeen DEF Worker!Others, Worker!NoCall, Worker!NoReply, NoCall, Nothing
  <2> QED
    BY <2>3, <2>4 DEF Server!Next, Worker!Next
<1>3. CASE r.op # "query" /\ Obeys("server", r)
  <2>1. call' = [who |-> "server", ok |-> TRUE, request |-> r] /\ reply' = Nothing
    BY <1>3 DEF Obeys
  <2>2. By("server")' = call' /\ ReplyTo("server")' = Nothing
    BY <2>1 DEF By, ReplyTo
  <2>3. Server!Delete(r)
    <3>1. CASE r.op = "delete"
      <4>1. View("server")' = [i \in DOMAIN View("server") \ r.ids |-> View("server")[i]]
        BY <1>1, <1>3, <3>1, ObeysView
      <4> QED
        BY <2>2, <3>1, <4>1 DEF Server!Delete, Server!Named, Server!NoReply, Nothing
    <3>2. CASE r.op = "delete_in"
      <4>1. View("server")' =
              [i \in DOMAIN View("server") \ {i \in DOMAIN View("server") :
                                                /\ InScope(View("server")[i], r.scope)
                                                /\ r.unscoped => /\ View("server")[i].org = None
                                                                 /\ View("server")[i].project = None}
                 |-> View("server")[i]]
        BY <1>1, <1>3, <3>2, ObeysView
      <4> QED
        BY <2>2, <3>2, <4>1 DEF Server!Delete, Server!Named, Server!NoReply, Nothing, InScope
    <3> QED
      BY <1>3, <3>1, <3>2, RequestIs
  <2>4. Server!Next
    BY <2>1, <2>2, <2>3 DEF Server!Next
  <2>5. Worker!Others
    BY <1>1, <2>1, OthersSeen DEF Worker!Others, Worker!NoCall, Worker!NoReply, NoCall, Nothing
  <2> QED
    BY <2>4, <2>5 DEF Worker!Next
<1>4. CASE r.op = "query" /\ Answers("server", r, Local("server", r) \cup Fetched("server", r))
  <2>1. /\ call' = [who |-> "server", ok |-> TRUE, request |-> r] /\ UNCHANGED point
        /\ reply' \in Server!Answers(r)
    BY <1>4, AnswersPromised DEF Answers
  <2>2. View("server")' = View("server") /\ By("server")' = call' /\ ReplyTo("server")' = reply'
    BY <2>1 DEF View, Place, By, ReplyTo, Decoded
  <2>3. Server!Next
    BY <1>4, <2>1, <2>2 DEF Server!Next, Server!Query
  <2>4. Worker!Others
    BY <1>1, <2>1, OthersSeen DEF Worker!Others, Worker!NoCall, Worker!NoReply, NoCall, Nothing
  <2> QED
    BY <2>3, <2>4 DEF Worker!Next
<1> QED
  BY <1>1, <1>2, <1>3, <1>4, CallCases

LEMMA WorkerCalls ==
  ASSUME TypeOK, UNCHANGED kind, NEW i \in Ids, NEW d \in Docs, Call("worker", Upsert(i, d))
  PROVE  Server!Next /\ Worker!Next
<1> DEFINE r == Upsert(i, d)
<1>1. "server" \in Procs /\ "worker" \in Procs /\ r \in Requests
  BY DEF Procs, Requests
<1>2. r.op = "upsert" /\ r.id = i /\ r.doc = d
  BY DEF Upsert
<1> HIDE DEF r
<1>3. Call("worker", r)
  BY DEF r
<1>4. CASE Ignores("worker", r)
  <2>1. call'.who = "worker" /\ ~call'.ok /\ reply' = Nothing /\ UNCHANGED point
    BY <1>4 DEF Ignores
  <2>2. View("worker")' = View("worker") /\ By("worker")' = call' /\ ReplyTo("worker")' = Nothing
    BY <2>1 DEF View, Place, By, ReplyTo, Decoded
  <2>3. Worker!Fail
    BY <2>1, <2>2 DEF Worker!Fail, Worker!NoReply, Nothing
  <2>4. Server!Others
    BY <1>1, <2>1, OthersSeen DEF Server!Others, Server!NoCall, Server!NoReply, NoCall, Nothing
  <2> QED
    BY <2>3, <2>4 DEF Server!Next, Worker!Next
<1>5. CASE Obeys("worker", r)
  <2>1. call' = [who |-> "worker", ok |-> TRUE, request |-> r] /\ reply' = Nothing
    BY <1>5 DEF Obeys
  <2>2. By("worker")' = call' /\ ReplyTo("worker")' = Nothing
    BY <2>1 DEF By, ReplyTo
  <2>3. View("worker")' =
          [j \in DOMAIN View("worker") \cup {r.id} |-> IF j = r.id THEN r.doc ELSE View("worker")[j]]
    BY <1>1, <1>2, <1>5, ObeysView
  <2>4. Worker!Upsert(r)
    BY <1>2, <2>2, <2>3 DEF Worker!Upsert, Worker!NoReply, Nothing
  <2>5. Worker!Next
    BY <2>1, <2>2, <2>4 DEF Worker!Next
  <2>6. Server!Others
    BY <1>1, <2>1, OthersSeen DEF Server!Others, Server!NoCall, Server!NoReply, NoCall, Nothing
  <2> QED
    BY <2>5, <2>6 DEF Server!Next
<1> QED
  BY <1>1, <1>2, <1>3, <1>4, <1>5, CallCases

\* A step without a call.
LEMMA NoCalls == call' = NoCall => Server!Next /\ Worker!Next
<1> SUFFICES ASSUME call' = NoCall PROVE Server!Next /\ Worker!Next
  OBVIOUS
<1>1. "server" \in Procs /\ "worker" \in Procs /\ call'.who = "nobody"
  BY DEF Procs, NoCall
<1>2. Server!Others /\ Worker!Others
  BY <1>1, OthersSeen DEF Server!Others, Server!NoCall, Server!NoReply,
     Worker!Others, Worker!NoCall, Worker!NoReply, NoCall, Nothing
<1> QED
  BY <1>2 DEF Server!Next, Worker!Next

LEMMA AdaptersStep == TypeOK /\ [Next]_vars => [Server!Next]_(Server!vars) /\ [Worker!Next]_(Worker!vars)
<1> SUFFICES ASSUME TypeOK, [Next]_vars
             PROVE  [Server!Next]_(Server!vars) /\ [Worker!Next]_(Worker!vars)
  OBVIOUS
<1>1. ASSUME Step PROVE Server!Next /\ Worker!Next
  <2>1. CASE AddChunk \/ EraseRows \/ Expire \/ ChangeMemory \/ (\E p \in Procs : Restart(p))
             \/ Lexical \/ CountRows \/ ReadRows \/ ReadFacts \/ FindMemories
    <3>1. call' = NoCall
      BY <2>1 DEF AddChunk, EraseRows, Expire, ChangeMemory, Restart, Lexical, CountRows, ReadRows,
         ReadFacts, FindMemories, Quiet, Uncalled
    <3> QED
      BY <3>1, NoCalls
  <2>2. CASE IndexChunk
    <3>1. PICK c \in chunked : Call("worker", Upsert(c.id, c.doc))
      BY <2>2 DEF IndexChunk
    <3>2. c.id \in Ids /\ c.doc \in Docs /\ UNCHANGED kind
      BY <2>2 DEF TypeOK, TablesOK, IndexChunk
    <3> QED
      BY <3>1, <3>2, WorkerCalls
  <2>3. ASSUME NEW r \in Erasures, Erase(r) PROVE Server!Next /\ Worker!Next
    <3>1. r \in Requests /\ r.op # "upsert"
      BY DEF Erasures, Requests, Delete, DeleteIn
    <3> QED
      BY <2>3, <3>1, ServerCalls DEF Erase
  <2>4. CASE EraseChunk
    <3>1. PICK i \in Live : Erase(Delete({i}))
      BY <2>4 DEF EraseChunk
    <3>2. Live \subseteq Ids
      BY VisibleTyped DEF TypeOK
    <3> QED
      BY <2>3, <3>1, <3>2 DEF Erasures
  <2>5. CASE EraseTag
    BY <2>3, <2>5 DEF EraseTag, Erasures
  <2>6. CASE Rank
    <3>1. /\ UNCHANGED kind /\ Call("server", Query(search.ask, Sought))
          /\ Query(search.ask, Sought) \in Requests
      BY <2>6, RankIs, SearchIs DEF Requests
    <3>2. Query(search.ask, Sought).op # "upsert"
      BY DEF Query
    <3> QED
      BY <3>1, <3>2, ServerCalls
  <2> QED
    BY <1>1, <2>1, <2>2, <2>4, <2>5, <2>6 DEF Step
<1>2. ASSUME UNCHANGED vars PROVE UNCHANGED Server!vars /\ UNCHANGED Worker!vars
  <2>1. kind' = kind /\ point' = point /\ call' = call /\ reply' = reply
    BY <1>2 DEF vars, store
  <2>2. ASSUME NEW p PROVE View(p)' = View(p) /\ By(p)' = By(p) /\ ReplyTo(p)' = ReplyTo(p)
    BY <2>1 DEF View, Place, By, ReplyTo, Decoded
  <2> QED
    BY <2>2 DEF Server!vars, Worker!vars
<1> QED
  BY <1>1, <1>2 DEF Next

\* Each of the five adapters is, to the server and to the worker, the store that the
\* protocol promises: a call that succeeds does or answers what it says, on the
\* points that it names and no other, and one that fails leaves them as they are,
\* whatever stands for the absence of a tenant, in whatever order an adapter filters
\* and limits, and whoever else has written.
THEOREM AdaptersImplement == Spec => AdaptersAgree
<1>1. Init => Server!Init /\ Worker!Init
  BY DEF Init, Server!Init, Worker!Init, By, ReplyTo, NoCall, Nothing, Server!NoCall, Server!NoReply,
     Worker!NoCall, Worker!NoReply
<1>2. TypeOK /\ [Next]_vars => [Server!Next]_(Server!vars) /\ [Worker!Next]_(Worker!vars)
  BY AdaptersStep
<1> QED
  BY <1>1, <1>2, TypeCorrect, PTL DEF Spec, AdaptersAgree, Server!Spec, Worker!Spec

-----------------------------------------------------------------------------
(***************************************************************************)
(* The fact graph.  Types first: FactTypeOK does not say that a worker     *)
(* that asserts a row has found one.                                       *)
(***************************************************************************)
FoundRow == \A w \in Dreamers : dreamer[w].pc = "asserting" => dreamer[w].same \in Facts

Typed == FactTypeOK /\ FoundRow

\* A worker at any place, with something to do there, is a well-formed one.
LEMMA AtType ==
  ASSUME NEW todo \in Seq(Objects)
  PROVE  /\ At("finding", todo) \in Dreamer
         /\ At("idle", todo) \in Dreamer
         /\ \A pc \in {"idle", "finding"} :
              At(pc, todo).pc = pc /\ At(pc, todo).todo = todo
  BY DEF At, Dreamer

\* The loop over the facts of a document leaves a well-formed worker.
LEMMA AdvanceTyped ==
  ASSUME Typed, NEW w \in Dreamers, dreamer[w].pc # "idle", Advance(w)
  PROVE  /\ dreamer' \in [Dreamers -> Dreamer]
         /\ \A v \in Dreamers : dreamer'[v].pc # "idle" => dreamer'[v].todo # <<>>
         /\ FoundRow'
<1> DEFINE rest == Tail(dreamer[w].todo)
           next == At(IF rest = <<>> THEN "idle" ELSE "finding", rest)
<1>1. dreamer[w].todo \in Seq(Objects) /\ dreamer[w].todo # <<>>
  BY DEF Typed, FactTypeOK, Dreamer
<1>2. rest \in Seq(Objects)
  BY <1>1
<1>3. next \in Dreamer /\ (next.pc # "idle" => next.todo # <<>>) /\ next.pc # "asserting"
  BY <1>2, AtType
<1>4. dreamer' = [dreamer EXCEPT ![w] = next]
  BY DEF Advance
<1> QED
  BY <1>3, <1>4 DEF Typed, FactTypeOK, FoundRow

\* A worker that is back at the loop of main leaves the others as they are.
LEMMA IdleTyped ==
  ASSUME Typed, NEW w \in Dreamers, dreamer' = [dreamer EXCEPT ![w] = At("idle", <<>>)]
  PROVE  /\ dreamer' \in [Dreamers -> Dreamer]
         /\ \A v \in Dreamers : dreamer'[v].pc # "idle" => dreamer'[v].todo # <<>>
         /\ FoundRow'
<1> DEFINE next == At("idle", <<>>)
<1>1. next \in Dreamer
  BY DEF At, Dreamer
<1>2. next.pc = "idle"
  BY DEF At
<1>3. dreamer' = [dreamer EXCEPT ![w] = next]
  OBVIOUS
<1> HIDE DEF next
<1> QED
  BY <1>1, <1>2, <1>3 DEF Typed, FactTypeOK, FoundRow

\* Asserting a fact writes well-formed rows and memories.
LEMMA ReassertTyped ==
  ASSUME FactTypeOK, NEW f \in Facts, NEW revive \in BOOLEAN, Reassert(f, revive)
  PROVE  /\ rows' \in [Facts -> Row]
         /\ projection' \in [Facts -> {"none", "active", "deleted", "gone"}]
         /\ inserted' \in Nat
  BY DEF FactTypeOK, Reassert, Ensured, Row

\* So does inserting one.
LEMMA InsertTyped ==
  ASSUME FactTypeOK, NEW f \in Facts, NEW o \in Objects, NEW closed \in SUBSET Facts,
         Insert(f, o, closed)
  PROVE  /\ rows' \in [Facts -> Row]
         /\ projection' \in [Facts -> {"none", "active", "deleted", "gone"}]
         /\ inserted' \in Nat
<1>1. [state |-> "live", object |-> o, by |-> NoFact, born |-> inserted] \in Row
  BY DEF FactTypeOK, Row
<1>2. \A g \in Facts : rows[g] \in Row /\ [rows[g] EXCEPT !.state = "superseded", !.by = f] \in Row
  BY DEF FactTypeOK, Row
<1>3. rows' \in [Facts -> Row]
  BY <1>1, <1>2 DEF Insert
<1>4. Ensured(f) \in [Facts -> {"none", "active", "deleted", "gone"}]
  BY DEF FactTypeOK, Ensured
<1>5. projection' = Ensured(f) /\ inserted' = inserted + 1
  BY DEF Insert
<1> QED
  BY <1>3, <1>4, <1>5 DEF FactTypeOK

\* Deleting memories leaves memories.
LEMMA DeletedType ==
  ASSUME FactTypeOK, NEW S
  PROVE  Deleted(S) \in [Facts -> {"none", "active", "deleted", "gone"}]
  BY DEF FactTypeOK, Deleted

\* Every step of the API keeps the types.
LEMMA ApiTyped ==
  ASSUME Typed,
         \/ \E o \in Objects, supersede \in BOOLEAN : CreateFact(o, supersede)
         \/ \E f \in Facts : Forget(f)
         \/ \E f \in Facts, linked \in BOOLEAN : DeleteMemory(f, linked)
         \/ PurgeTag
  PROVE  Typed'
<1>1. ASSUME NEW o \in Objects, NEW supersede \in BOOLEAN, CreateFact(o, supersede)
      PROVE  Typed'
  <2>1. CASE \E f \in Same(o) : Reassert(f, rows[f].state = "superseded")
    BY <1>1, <2>1, ReassertTyped DEF CreateFact, Same, Typed, FactTypeOK, FoundRow
  <2>2. CASE \E f \in Facts : Insert(f, o, IF supersede THEN Current ELSE {})
    BY <1>1, <2>2, InsertTyped DEF CreateFact, Current, Typed, FactTypeOK, FoundRow
  <2> QED
    BY <1>1, <2>1, <2>2 DEF CreateFact
<1>2. ASSUME NEW f \in Facts, Forget(f)
      PROVE  Typed'
  BY <1>2, DeletedType DEF Forget, Typed, FactTypeOK, FoundRow, Row
<1>3. ASSUME NEW f \in Facts, NEW linked \in BOOLEAN, DeleteMemory(f, linked)
      PROVE  Typed'
  BY <1>3, DeletedType DEF DeleteMemory, Typed, FactTypeOK, FoundRow
<1>4. CASE PurgeTag
  BY <1>4 DEF PurgeTag, Typed, FactTypeOK, FoundRow, Row
<1> QED
  BY <1>1, <1>2, <1>3, <1>4

\* Every step of a worker keeps them.
LEMMA DreamTyped ==
  ASSUME Typed, NEW w \in Dreamers, Dream(w)
  PROVE  Typed'
<1> USE DEF Typed
<1>0. dreamer[w] \in Dreamer /\ (dreamer[w].pc # "idle" =>
        Head(dreamer[w].todo) \in Objects)
  BY DEF FactTypeOK, Dreamer
<1>1. CASE Begin(w)
  <2>1. PICK todo \in Extractions \ {<<>>} : dreamer' = [dreamer EXCEPT ![w] = At("finding", todo)]
    BY <1>1 DEF Begin
  <2>2. todo \in Seq(Objects)
    BY FactConstantsOK
  <2> QED
    BY <1>1, <2>1, <2>2, AtType DEF Begin, FactTypeOK, FoundRow
<1>2. CASE Find(w)
  <2>1. /\ dreamer[w].pc = "finding"
        /\ UNCHANGED <<rows, projection, inserted>>
    BY <1>2 DEF Find
  <2>2. CASE dreamer' = [dreamer EXCEPT ![w].pc = "scanning"]
    BY <1>0, <2>1, <2>2 DEF FactTypeOK, FoundRow, Dreamer
  <2>3. ASSUME NEW f \in Facts,
               dreamer' = [dreamer EXCEPT ![w].pc = "asserting", ![w].same = f,
                                          ![w].revive = rows[f].state = "superseded"]
        PROVE  Typed'
    BY <1>0, <2>1, <2>3 DEF FactTypeOK, FoundRow, Dreamer
  <2> QED
    BY <1>2, <2>2, <2>3 DEF Find, Same
<1>3. CASE Scan(w)
  BY <1>0, <1>3 DEF Scan, Current, FactTypeOK, FoundRow, Dreamer
<1>4. CASE Store(w)
  <2>1. PICK f \in Facts : Insert(f, Head(dreamer[w].todo), dreamer[w].closed)
    BY <1>4 DEF Store
  <2>2. dreamer[w].pc # "idle" /\ dreamer[w].closed \in SUBSET Facts
    BY <1>0, <1>4 DEF Store, Dreamer
  <2> QED
    BY <1>0, <1>4, <2>1, <2>2, InsertTyped, AdvanceTyped DEF Store, FactTypeOK
<1>5. CASE AssertSame(w)
  <2>1. dreamer[w].same \in Facts /\ dreamer[w].revive \in BOOLEAN /\ dreamer[w].pc # "idle"
    BY <1>0, <1>5 DEF AssertSame, FoundRow, Dreamer
  <2>2. CASE Reassert(dreamer[w].same, dreamer[w].revive) /\ Advance(w)
    BY <1>5, <2>1, <2>2, ReassertTyped, AdvanceTyped DEF AssertSame, FactTypeOK
  <2>3. CASE /\ dreamer' = [dreamer EXCEPT ![w] = At("idle", <<>>)]
             /\ UNCHANGED <<rows, projection, inserted>>
    BY <1>5, <2>3, IdleTyped DEF AssertSame, FactTypeOK
  <2> QED
    BY <1>5, <2>2, <2>3 DEF AssertSame
<1>6. CASE Kill(w)
  BY <1>6, IdleTyped DEF Kill, FactTypeOK
<1> QED
  BY <1>1, <1>2, <1>3, <1>4, <1>5, <1>6 DEF Dream

\* The empty database is well-formed.
LEMMA FactsInitTyped == FactInit => Typed
<1>1. (CHOOSE o \in Objects : TRUE) \in Objects
  BY FactConstantsOK
<1> SUFFICES ASSUME FactInit PROVE Typed
  OBVIOUS
<1>2. rows \in [Facts -> Row]
  BY <1>1 DEF FactInit, Row
<1>3. dreamer \in [Dreamers -> Dreamer] /\ \A w \in Dreamers : dreamer[w].pc = "idle"
  BY DEF FactInit, Dreamer, At
<1> QED
  BY <1>2, <1>3 DEF FactInit, Typed, FactTypeOK, FoundRow

\* Every step keeps the types.
LEMMA FactsNextTyped == Typed /\ [FactNext]_factVars => Typed'
<1>1. ASSUME Typed, UNCHANGED factVars
      PROVE  Typed'
  BY <1>1 DEF factVars, Typed, FactTypeOK, FoundRow
<1> QED
  BY <1>1, ApiTyped, DreamTyped DEF FactNext

\* They hold always.
LEMMA AlwaysTyped == FactSpec => []Typed
  BY FactsInitTyped, FactsNextTyped, PTL DEF FactSpec

\* The tables and every worker's locals stay well-formed (add_fact).
THEOREM FactsTypeCorrect == FactSpec => []FactTypeOK
  BY AlwaysTyped, PTL DEF Typed

-----------------------------------------------------------------------------
(***************************************************************************)
(* Supersession.  The order of the rows is that of their insertion: every  *)
(* row was born before the next one will be.                               *)
(***************************************************************************)
BornBefore == \A f \in Facts : Exists(f) => rows[f].born < inserted

Forward == Typed /\ BornBefore /\ SupersessionIsForward

\* No row names one that is not there.
LEMMA NamesExist ==
  ASSUME Forward, NEW f \in Facts, Exists(f), rows[f].by \in Facts
  PROVE  Exists(rows[f].by)
  BY FactConstantsOK DEF Forward, SupersessionIsForward

\* Asserting a row that exists keeps the order: a row that is revived names none.
LEMMA ReassertForward ==
  ASSUME Forward, NEW f \in Facts, Exists(f), NEW revive \in BOOLEAN, Reassert(f, revive)
  PROVE  BornBefore' /\ SupersessionIsForward'
<1>1. CASE rows' = rows
  BY <1>1 DEF Reassert, Forward, BornBefore, SupersessionIsForward, Exists
<1>2. CASE rows' = [rows EXCEPT ![f].state = "live", ![f].by = NoFact]
  <2>1. rows'[f].state = "live" /\ rows'[f].by = NoFact /\ rows'[f].born = rows[f].born
    BY <1>2 DEF Forward, Typed, FactTypeOK, Row
  <2>2. \A g \in Facts \ {f} : rows'[g] = rows[g]
    BY <1>2 DEF Forward, Typed, FactTypeOK
  <2>3. inserted' = inserted
    BY DEF Reassert
  <2> QED
    BY <2>1, <2>2, <2>3 DEF Forward, BornBefore, SupersessionIsForward, Exists
<1> QED
  BY <1>1, <1>2 DEF Reassert

\* The row that is inserted is newer than those it closes, even when they have
\* been closed by another one since they were read.
LEMMA InsertForward ==
  ASSUME Forward, NEW f \in Facts, NEW o \in Objects, NEW closed \in SUBSET Facts,
         Insert(f, o, closed)
  PROVE  BornBefore' /\ SupersessionIsForward'
<1>1. ~Exists(f) /\ inserted \in Nat /\ \A g \in Facts : rows[g].born \in Nat
  BY DEF Insert, Exists, Forward, Typed, FactTypeOK, Row
<1>2. /\ rows'[f].state = "live" /\ rows'[f].by = NoFact /\ rows'[f].born = inserted
      /\ inserted' = inserted + 1
  BY DEF Insert
<1>3. ASSUME NEW g \in Facts \ {f}, g \in closed, Exists(g)
      PROVE  /\ rows'[g].state = "superseded" /\ rows'[g].by = f
             /\ rows'[g].born = rows[g].born
  <2>1. rows[g] \in Row /\ rows'[g] = [rows[g] EXCEPT !.state = "superseded", !.by = f]
    BY <1>3 DEF Insert, Forward, Typed, FactTypeOK
  <2> QED
    BY <2>1 DEF Row
<1>4. ASSUME NEW g \in Facts \ {f}, ~(g \in closed /\ Exists(g))
      PROVE  rows'[g] = rows[g]
  BY <1>4 DEF Insert
<1>5. \A g \in Facts \ {f} : (Exists(g))' <=> Exists(g)
  BY <1>3, <1>4 DEF Exists
<1>6. \A g \in Facts : rows'[g].born = IF g = f THEN inserted ELSE rows[g].born
  BY <1>2, <1>3, <1>4
<1>7. BornBefore'
  BY <1>1, <1>2, <1>5, <1>6 DEF BornBefore, Forward
<1>8. ASSUME NEW g \in Facts, (Exists(g))'
      PROVE  IF rows'[g].state = "live" THEN rows'[g].by = NoFact
             ELSE \E h \in Facts : rows'[g].by = h /\ (Exists(h))' /\ rows'[g].born < rows'[h].born
  <2>1. CASE g = f
    BY <1>2, <2>1
  <2>2. CASE g # f /\ g \in closed /\ Exists(g)
    <3>1. rows[g].born < inserted
      BY <2>2 DEF Forward, BornBefore
    <3>2. (Exists(f))'
      BY <1>2 DEF Exists
    <3> QED
      BY <1>2, <1>3, <2>2, <3>1, <3>2
  <2>3. CASE g # f /\ ~(g \in closed /\ Exists(g))
    <3>1. rows'[g] = rows[g] /\ Exists(g)
      BY <1>4, <1>5, <1>8, <2>3
    <3>2. CASE rows[g].state = "live"
      BY <3>1, <3>2 DEF Forward, SupersessionIsForward
    <3>3. CASE rows[g].state # "live"
      <4>1. PICK h \in Facts : rows[g].by = h /\ Exists(h) /\ rows[g].born < rows[h].born
        BY <3>1, <3>3 DEF Forward, SupersessionIsForward
      <4>2. h # f
        BY <1>1, <4>1
      <4> QED
        BY <1>5, <1>6, <3>1, <3>3, <4>1, <4>2
    <3> QED
      BY <3>2, <3>3
  <2> QED
    BY <2>1, <2>2, <2>3
<1> QED
  BY <1>7, <1>8 DEF SupersessionIsForward

\* A step that removes rows nobody names, or all of them, keeps the order.
LEMMA RemoveForward ==
  ASSUME Forward, NEW S \in SUBSET Facts, inserted' = inserted,
         \A f \in Facts \ S : rows'[f] = rows[f],
         \A f \in S : ~(Exists(f))',
         \A f \in Facts \ S : Exists(f) => rows[f].by \notin S
  PROVE  BornBefore' /\ SupersessionIsForward'
<1>1. \A f \in Facts : (Exists(f))' <=> f \notin S /\ Exists(f)
  BY DEF Exists
<1> QED
  BY <1>1 DEF Forward, BornBefore, SupersessionIsForward

\* Every step keeps the order.
LEMMA NextForward == Forward /\ [FactNext]_factVars => Forward'
<1> SUFFICES ASSUME Forward, [FactNext]_factVars
             PROVE  BornBefore' /\ SupersessionIsForward'
  BY FactsNextTyped DEF Forward
<1>1. ASSUME UNCHANGED <<rows, inserted>>
      PROVE  BornBefore' /\ SupersessionIsForward'
  BY <1>1 DEF Forward, BornBefore, SupersessionIsForward, Exists
<1>2. ASSUME NEW o \in Objects, NEW supersede \in BOOLEAN, CreateFact(o, supersede)
      PROVE  BornBefore' /\ SupersessionIsForward'
  <2>1. CASE \E f \in Same(o) : Reassert(f, rows[f].state = "superseded")
    BY <2>1, ReassertForward DEF Same
  <2>2. CASE \E f \in Facts : Insert(f, o, IF supersede THEN Current ELSE {})
    BY <2>2, InsertForward DEF Current
  <2> QED
    BY <1>2, <2>1, <2>2 DEF CreateFact
<1>3. ASSUME NEW f \in Facts, Forget(f)
      PROVE  BornBefore' /\ SupersessionIsForward'
  <2>1. CASE ~Referenced(f) /\ rows' = [rows EXCEPT ![f].state = "gone"]
    <3>1. \A g \in Facts \ {f} : rows'[g] = rows[g]
      BY <2>1 DEF Forward, Typed, FactTypeOK
    <3>2. ~(Exists(f))'
      <4>1. rows'[f].state = "gone"
        BY <2>1 DEF Forward, Typed, FactTypeOK, Row
      <4> QED
        BY <4>1 DEF Exists
    <3>3. \A g \in Facts \ {f} : Exists(g) => rows[g].by # f
      BY <2>1 DEF Referenced
    <3> QED
      BY <1>3, <3>1, <3>2, <3>3, RemoveForward DEF Forget
  <2>2. CASE UNCHANGED rows
    BY <1>1, <1>3, <2>2 DEF Forget
  <2> QED
    BY <1>3, <2>1, <2>2 DEF Forget
<1>4. ASSUME NEW f \in Facts, NEW linked \in BOOLEAN, DeleteMemory(f, linked)
      PROVE  BornBefore' /\ SupersessionIsForward'
  BY <1>1, <1>4 DEF DeleteMemory
<1>5. CASE PurgeTag
  <2>1. \A f \in Facts : ~(Exists(f))'
    <3> TAKE f \in Facts
    <3>1. CASE Exists(f)
      <4>1. rows'[f] = [rows[f] EXCEPT !.state = "gone"] /\ rows[f] \in Row
        BY <1>5, <3>1 DEF PurgeTag, Forward, Typed, FactTypeOK
      <4> QED
        BY <4>1 DEF Exists, Row
    <3>2. CASE ~Exists(f)
      BY <1>5, <3>2 DEF PurgeTag, Exists
    <3> QED
      BY <3>1, <3>2
  <2> QED
    BY <2>1 DEF BornBefore, SupersessionIsForward
<1>6. ASSUME NEW w \in Dreamers, Dream(w)
      PROVE  BornBefore' /\ SupersessionIsForward'
  <2>0. dreamer[w] \in Dreamer
    BY DEF Forward, Typed, FactTypeOK
  <2>1. CASE Begin(w) \/ Find(w) \/ Scan(w) \/ Kill(w)
    BY <1>1, <2>1 DEF Begin, Find, Scan, Kill
  <2>2. CASE Store(w)
    <3>1. Head(dreamer[w].todo) \in Objects /\ dreamer[w].closed \in SUBSET Facts
      BY <2>0, <2>2 DEF Store, Forward, Typed, FactTypeOK, Dreamer
    <3> QED
      BY <2>2, <3>1, InsertForward DEF Store
  <2>3. CASE AssertSame(w)
    <3>1. dreamer[w].same \in Facts /\ dreamer[w].revive \in BOOLEAN
      BY <2>0, <2>3 DEF AssertSame, Forward, Typed, FoundRow, Dreamer
    <3>2. CASE Exists(dreamer[w].same) /\ Reassert(dreamer[w].same, dreamer[w].revive)
      BY <3>1, <3>2, ReassertForward
    <3>3. CASE UNCHANGED <<rows, projection, inserted>>
      BY <1>1, <3>3
    <3> QED
      BY <2>3, <3>2, <3>3 DEF AssertSame
  <2> QED
    BY <1>6, <2>1, <2>2, <2>3 DEF Dream
<1>7. CASE UNCHANGED factVars
  BY <1>1, <1>7 DEF factVars
<1> QED
  BY <1>2, <1>3, <1>4, <1>5, <1>6, <1>7 DEF FactNext

\* At first there is no row.
LEMMA InitForward == FactInit => Forward
<1> SUFFICES ASSUME FactInit PROVE \A f \in Facts : ~Exists(f)
  BY FactsInitTyped DEF Forward, BornBefore, SupersessionIsForward
<1> QED
  BY DEF FactInit, Exists

\* The order holds always.
LEMMA AlwaysForward == FactSpec => []Forward
  BY InitForward, NextForward, PTL DEF FactSpec

\* A superseded fact names the newer one that took its place, which is there, and
\* a live one names none: for any number of writers that read and write in
\* separate commits (facts.add_fact) and any deletions (app.forget_fact).
THEOREM HistoryIsForward == FactSpec => []SupersessionIsForward
  BY AlwaysForward, PTL DEF Forward

-----------------------------------------------------------------------------
(***************************************************************************)
(* A value survives.  The newest row cannot have been superseded, as       *)
(* supersession points to a newer one; there is a newest because rows are  *)
(* numbered below "inserted".                                              *)
(***************************************************************************)
\* How many rows have been inserted since f.
Age(f) == inserted - rows[f].born

\* The newest row is live.
LEMMA ForwardKeepsValue == Forward => ValueSurvives
<1> SUFFICES ASSUME Forward, NEW e \in Facts, Exists(e)
             PROVE  Current # {}
  BY DEF ValueSurvives
<1> DEFINE Ages == {Age(f) : f \in {g \in Facts : Exists(g)}}
           Below == {p \in Nat \X Nat : p[1] < p[2]}
<1>1. \A f \in Facts : Exists(f) => /\ Age(f) \in Nat /\ rows[f].born \in Nat
                                   /\ rows[f].state \in {"live", "superseded"}
  <2> TAKE f \in Facts
  <2> HAVE Exists(f)
  <2>1. inserted \in Nat /\ rows[f].born \in Nat
    BY DEF Forward, Typed, FactTypeOK, Row
  <2>2. rows[f].born < inserted
    BY DEF Forward, BornBefore
  <2> QED
    BY <2>1, <2>2 DEF Age, Exists
<1>2. Ages \subseteq Nat /\ Ages # {}
  BY <1>1
<1>3. PICK least \in Ages : \A a \in Ages : ~(<<a, least>> \in Below)
  <2>1. IsWellFoundedOn(Below, Nat)
    BY NatLessThanWellFounded DEF OpToRel
  <2> HIDE DEF Ages, Below
  <2> QED
    BY <1>2, <2>1, WFMin
<1>4. PICK newest \in Facts : Exists(newest) /\ Age(newest) = least
  BY <1>3
<1>5. ASSUME rows[newest].state # "live"
      PROVE  FALSE
  <2>1. PICK g \in Facts : Exists(g) /\ rows[newest].born < rows[g].born
    BY <1>4, <1>5 DEF Forward, SupersessionIsForward
  <2>2. Age(g) \in Ages /\ Age(g) < least
    BY <1>1, <1>4, <2>1 DEF Age, Forward, Typed, FactTypeOK
  <2>3. <<Age(g), least>> \in Below
    BY <1>2, <2>2
  <2> QED
    BY <1>3, <2>2, <2>3
<1> QED
  BY <1>4, <1>5 DEF Current

\* A relation that has a history has a current value ("Contradictions supersede,
\* never delete", facts.py): neither racing writers nor deletions, which the
\* foreign key holds back, leave it with superseded rows alone.
THEOREM ValueNeverLost == FactSpec => []ValueSurvives
  BY AlwaysForward, ForwardKeepsValue, PTL

-----------------------------------------------------------------------------
(***************************************************************************)
(* A fact and its memory.                                                  *)
(***************************************************************************)
\* An id that was never used has no memory.
Fresh == \A f \in Facts : rows[f].state = "absent" => projection[f] = "none"

Paired == Typed /\ Fresh /\ Projected

\* Asserting a fact gives it a memory unless it has one, or had.
LEMMA ReassertPaired ==
  ASSUME Paired, NEW f \in Facts, Exists(f), NEW revive \in BOOLEAN, Reassert(f, revive)
  PROVE  Fresh' /\ Projected'
<1>1. projection' = projection
  BY DEF Reassert, Ensured, Paired, Projected, Typed, FactTypeOK
<1>2. \A g \in Facts : rows'[g].state = rows[g].state \/ (g = f /\ rows'[g].state = "live")
  <2>1. CASE rows' = rows
    BY <2>1
  <2>2. CASE rows' = [rows EXCEPT ![f].state = "live", ![f].by = NoFact]
    <3>1. rows[f] \in Row /\ rows'[f] = [rows[f] EXCEPT !.state = "live", !.by = NoFact]
      BY <2>2 DEF Paired, Typed, FactTypeOK
    <3>2. \A g \in Facts \ {f} : rows'[g] = rows[g]
      BY <2>2 DEF Paired, Typed, FactTypeOK
    <3> QED
      BY <3>1, <3>2 DEF Row
  <2> QED
    BY <2>1, <2>2 DEF Reassert
<1> QED
  BY <1>1, <1>2 DEF Paired, Fresh, Projected, Exists

\* The row that is inserted gets its memory in the same transaction.
LEMMA InsertPaired ==
  ASSUME Paired, NEW f \in Facts, NEW o \in Objects, NEW closed \in SUBSET Facts,
         Insert(f, o, closed)
  PROVE  Fresh' /\ Projected'
<1>1. projection[f] = "none" /\ projection' = [projection EXCEPT ![f] = "active"]
  BY DEF Insert, Ensured, Paired, Fresh
<1>2. rows'[f].state = "live"
  BY DEF Insert
<1>3. \A g \in Facts \ {f} :
        rows'[g].state = rows[g].state \/ (Exists(g) /\ rows'[g].state = "superseded")
  <2> TAKE g \in Facts \ {f}
  <2>1. CASE g \in closed /\ Exists(g)
    <3>1. rows[g] \in Row /\ rows'[g] = [rows[g] EXCEPT !.state = "superseded", !.by = f]
      BY <2>1 DEF Insert, Paired, Typed, FactTypeOK
    <3> QED
      BY <2>1, <3>1 DEF Row
  <2>2. CASE ~(g \in closed /\ Exists(g))
    BY <2>2 DEF Insert
  <2> QED
    BY <2>1, <2>2
<1> QED
  BY <1>1, <1>2, <1>3 DEF Paired, Typed, FactTypeOK, Fresh, Projected, Exists

\* When rows and memories are deleted together the rest is as it was.
LEMMA DeletePaired ==
  ASSUME Paired, NEW S \in SUBSET Facts,
         \A f \in Facts \ S : rows'[f] = rows[f] /\ projection'[f] = projection[f],
         \A f \in S : rows'[f].state = "gone" /\ projection'[f] # "active"
  PROVE  Fresh' /\ Projected'
<1>1. \A f \in S : ~(Exists(f))'
  BY DEF Exists
<1>2. \A f \in Facts \ S : (Exists(f))' <=> Exists(f)
  BY DEF Exists
<1> QED
  BY <1>1, <1>2 DEF Paired, Fresh, Projected

\* Every step keeps facts and memories together.
LEMMA NextPaired == Paired /\ [FactNext]_factVars => Paired'
<1> SUFFICES ASSUME Paired, [FactNext]_factVars
             PROVE  Fresh' /\ Projected'
  BY FactsNextTyped DEF Paired
<1>1. ASSUME UNCHANGED <<rows, projection>>
      PROVE  Fresh' /\ Projected'
  BY <1>1 DEF Paired, Fresh, Projected, Exists
<1>2. ASSUME NEW o \in Objects, NEW supersede \in BOOLEAN, CreateFact(o, supersede)
      PROVE  Fresh' /\ Projected'
  <2>1. CASE \E f \in Same(o) : Reassert(f, rows[f].state = "superseded")
    BY <2>1, ReassertPaired DEF Same
  <2>2. CASE \E f \in Facts : Insert(f, o, IF supersede THEN Current ELSE {})
    BY <2>2, InsertPaired DEF Current
  <2> QED
    BY <1>2, <2>1, <2>2 DEF CreateFact
<1>3. ASSUME NEW f \in Facts, Forget(f)
      PROVE  Fresh' /\ Projected'
  <2>1. CASE rows' = [rows EXCEPT ![f].state = "gone"] /\ projection' = Deleted({f})
    <3>1. rows'[f].state = "gone" /\ projection'[f] # "active"
      <4>1. rows[f] \in Row /\ rows'[f] = [rows[f] EXCEPT !.state = "gone"]
        BY <2>1 DEF Paired, Typed, FactTypeOK
      <4>2. projection'[f] # "active"
        BY <2>1 DEF Deleted
      <4> QED
        BY <4>1, <4>2 DEF Row
    <3>2. \A g \in Facts \ {f} : rows'[g] = rows[g] /\ projection'[g] = projection[g]
      BY <2>1 DEF Deleted, Paired, Typed, FactTypeOK
    <3>3. {f} \in SUBSET Facts /\ \A g \in {f} : rows'[g].state = "gone" /\ projection'[g] # "active"
      BY <3>1
    <3> QED
      BY <3>2, <3>3, DeletePaired
  <2>2. CASE UNCHANGED <<rows, projection>>
    BY <1>1, <2>2
  <2> QED
    BY <1>3, <2>1, <2>2 DEF Forget
<1>4. ASSUME NEW f \in Facts, NEW linked \in BOOLEAN, DeleteMemory(f, linked)
      PROVE  Fresh' /\ Projected'
  <2>1. \A g \in Facts : projection'[g] = projection[g] \/ (projection[g] = "active" /\ projection'[g] = "deleted")
    BY <1>4 DEF DeleteMemory, Deleted
  <2>2. UNCHANGED rows
    BY <1>4 DEF DeleteMemory
  <2> QED
    BY <2>1, <2>2 DEF Paired, Fresh, Projected, Exists
<1>5. CASE PurgeTag
  <2>1. \A f \in Facts : /\ rows'[f].state = IF Exists(f) THEN "gone" ELSE rows[f].state
                         /\ projection'[f] = IF projection[f] = "none" THEN "none" ELSE "gone"
    <3> TAKE f \in Facts
    <3>1. rows[f] \in Row /\
          rows'[f] = IF Exists(f) THEN [rows[f] EXCEPT !.state = "gone"] ELSE rows[f]
      BY <1>5 DEF PurgeTag, Paired, Typed, FactTypeOK
    <3> QED
      BY <1>5, <3>1 DEF PurgeTag, Row
  <2> QED
    BY <2>1 DEF Paired, Fresh, Projected, Exists
<1>6. ASSUME NEW w \in Dreamers, Dream(w)
      PROVE  Fresh' /\ Projected'
  <2>0. dreamer[w] \in Dreamer
    BY DEF Paired, Typed, FactTypeOK
  <2>1. CASE Begin(w) \/ Find(w) \/ Scan(w) \/ Kill(w)
    BY <1>1, <2>1 DEF Begin, Find, Scan, Kill
  <2>2. CASE Store(w)
    <3>1. Head(dreamer[w].todo) \in Objects /\ dreamer[w].closed \in SUBSET Facts
      BY <2>0, <2>2 DEF Store, Paired, Typed, FactTypeOK, Dreamer
    <3> QED
      BY <2>2, <3>1, InsertPaired DEF Store
  <2>3. CASE AssertSame(w)
    <3>1. dreamer[w].same \in Facts /\ dreamer[w].revive \in BOOLEAN
      BY <2>0, <2>3 DEF AssertSame, Paired, Typed, FoundRow, Dreamer
    <3>2. CASE Exists(dreamer[w].same) /\ Reassert(dreamer[w].same, dreamer[w].revive)
      BY <3>1, <3>2, ReassertPaired
    <3>3. CASE UNCHANGED <<rows, projection, inserted>>
      BY <1>1, <3>3
    <3> QED
      BY <2>3, <3>2, <3>3 DEF AssertSame
  <2> QED
    BY <1>6, <2>1, <2>2, <2>3 DEF Dream
<1>7. CASE UNCHANGED factVars
  BY <1>1, <1>7 DEF factVars
<1> QED
  BY <1>2, <1>3, <1>4, <1>5, <1>6, <1>7 DEF FactNext

\* At first there are neither facts nor memories.
LEMMA InitPaired == FactInit => Paired
<1> SUFFICES ASSUME FactInit PROVE \A f \in Facts : ~Exists(f) /\ projection[f] = "none"
  BY FactsInitTyped DEF Paired, Fresh, Projected
<1> QED
  BY DEF FactInit, Exists

\* They are together always.
LEMMA AlwaysPaired == FactSpec => []Paired
  BY InitPaired, NextPaired, PTL DEF FactSpec

\* A fact that exists has a memory or its tombstone, and an active memory a fact,
\* however deletions and writers interleave (db.ensure_fact_memory).
THEOREM ProjectionHolds == FactSpec => []Projected
  BY AlwaysPaired, PTL DEF Paired

\* No step turns a tombstone into anything but a purged row.
LEMMA TombstoneStep ==
  ASSUME Paired, [FactNext]_factVars, NEW f \in Facts, projection[f] = "deleted"
  PROVE  projection'[f] \in {"deleted", "gone"}
<1>1. ASSUME NEW g \in Facts, projection' = Ensured(g)
      PROVE  projection'[f] = "deleted"
  BY <1>1 DEF Ensured, Paired, Typed, FactTypeOK
<1>2. ASSUME NEW S, projection' = Deleted(S)
      PROVE  projection'[f] = "deleted"
  BY <1>2 DEF Deleted
<1>3. ASSUME NEW o \in Objects, NEW supersede \in BOOLEAN, CreateFact(o, supersede)
      PROVE  projection'[f] = "deleted"
  BY <1>1, <1>3 DEF CreateFact, Reassert, Insert, Same
<1>4. ASSUME NEW g \in Facts, Forget(g)
      PROVE  projection'[f] = "deleted"
  BY <1>2, <1>4 DEF Forget
<1>5. ASSUME NEW g \in Facts, NEW linked \in BOOLEAN, DeleteMemory(g, linked)
      PROVE  projection'[f] = "deleted"
  BY <1>2, <1>5 DEF DeleteMemory
<1>6. CASE PurgeTag
  BY <1>6 DEF PurgeTag
<1>7. ASSUME NEW w \in Dreamers, Dream(w)
      PROVE  projection'[f] = "deleted"
  <2>1. dreamer[w].pc = "asserting" => dreamer[w].same \in Facts
    BY DEF Paired, Typed, FoundRow
  <2>2. CASE Store(w)
    BY <1>1, <2>2 DEF Store, Insert
  <2>3. CASE AssertSame(w)
    BY <1>1, <2>1, <2>3 DEF AssertSame, Reassert
  <2> QED
    BY <1>7, <2>2, <2>3 DEF Dream, Begin, Find, Scan, Kill
<1>8. CASE UNCHANGED factVars
  BY <1>8 DEF factVars
<1> QED
  BY <1>3, <1>4, <1>5, <1>6, <1>7, <1>8 DEF FactNext

\* A memory that was deleted is not brought back when its fact is asserted again
\* (db.ensure_fact_memory, db.soft_delete_memory).
THEOREM TombstonesStay == FactSpec => TombstoneIsFinal
<1>1. Paired /\ [FactNext]_factVars =>
        [\A f \in Facts : projection[f] = "deleted" => projection'[f] \in {"deleted", "gone"}]_factVars
  BY TombstoneStep
<1> QED
  BY <1>1, AlwaysPaired, PTL DEF FactSpec, TombstoneIsFinal
=============================================================================
