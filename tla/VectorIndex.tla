----------------------------- MODULE VectorIndex -----------------------------
(***************************************************************************)
(* What a vector store promises to the process that calls it               *)
(* (vectorstore.py, VectorStore and InMemoryVectorStore): a call that      *)
(* succeeds does to the points what it says, and a query answers with the  *)
(* nearest points of its scope.  Other processes write as well.            *)
(***************************************************************************)
EXTENDS Integers, FiniteSets

CONSTANTS None,
  Near           \* how near each text is to each query

VARIABLES
  point,     \* the points that the store holds, by identifier
  call,      \* the call that has just been made, if any
  reply      \* the identifiers that it has returned, and the rank of each

vars == <<point, call, reply>>

NoCall  == [who |-> "nobody", ok |-> TRUE, request |-> [op |-> "none"]]
NoReply == [i \in {} |-> 0]

\* A point is of the scope of a request; None asks for any.
InScope(d, s) ==
  d.tag = s.tag /\ s.org \in {None, d.org} /\ s.project \in {None, d.project}

Matches(d, filter) == filter \in {None, d.meta}

\* All the ways to rank a set by falling score: the rank of each member, from 1 on.
Rankings(S, score) ==
  {o \in [S -> 1 .. Cardinality(S)] :
     \A i, j \in S : i # j => o[i] # o[j] /\ (o[i] < o[j] => score[i] >= score[j])}

Top(o, n) == [i \in {j \in DOMAIN o : o[j] <= n} |-> o[i]]

\* A ranking of which only the members of S are kept.
Kept(o, S) == [i \in DOMAIN o \cap S |-> Cardinality({j \in DOMAIN o \cap S : o[j] <= o[i]})]

\* The points that a deletion names: by identifier, or by scope, and then perhaps
\* only those of no tenant.
Named(r) ==
  IF r.op = "delete" THEN r.ids
  ELSE {i \in DOMAIN point : /\ InScope(point[i], r.scope)
                             /\ r.unscoped => point[i].org = None /\ point[i].project = None}

\* The reference filters and then limits; others limit and then filter.
Answers(r) ==
  LET scoped == {i \in DOMAIN point : InScope(point[i], r.scope)}
      fit == {i \in scoped : Matches(point[i], r.filter)}
      nearness == [i \in scoped |-> Near[r.query][point[i].text]] IN
  {Top(o, r.limit) : o \in Rankings(fit, nearness)}
    \cup {Kept(Top(o, r.limit), fit) : o \in Rankings(scoped, nearness)}

\* There may be points of earlier processes.
Init == call = NoCall /\ reply = NoReply

Upsert(r) ==
  /\ r.op = "upsert"
  /\ point' = [i \in DOMAIN point \cup {r.id} |-> IF i = r.id THEN r.doc ELSE point[i]]
  /\ reply' = NoReply

Delete(r) ==
  /\ r.op \in {"delete", "delete_in"}
  /\ point' = [i \in DOMAIN point \ Named(r) |-> point[i]]
  /\ reply' = NoReply

Query(r) == r.op = "query" /\ point' = point /\ reply' \in Answers(r)

\* The call raises, or the adapter does nothing because it has seen no upsert.
Fail == ~call'.ok /\ point' = point /\ reply' = NoReply

Others == call' = NoCall /\ reply' = NoReply

Next ==
  \/ call'.ok /\ \E r \in {call'.request} : Upsert(r) \/ Delete(r) \/ Query(r)
  \/ Fail
  \/ Others

Spec == Init /\ [][Next]_vars
=============================================================================
