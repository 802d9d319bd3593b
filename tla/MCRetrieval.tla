---------------------------- MODULE MCRetrieval ----------------------------
EXTENDS Retrieval, TLC

CONSTANTS t1, o1, p1, m, n, near, far, other, q1, q2

Doc(text, tag, org, p, meta) == [text |-> text, tag |-> tag, org |-> org, project |-> p, meta |-> meta]

\* A document of a tag alone, and two of a project.
SomeDocs == {Doc(near, t1, None, None, m), Doc(far, t1, o1, p1, n), Doc(near, t1, o1, p1, m)}
OneFact  == Doc(far, t1, o1, p1, m)

Distances == (q1 :> (near :> 3 @@ far :> 2 @@ other :> 1)) @@ (q2 :> (near :> 1 @@ far :> 2 @@ other :> 3))
WordsOf == (q1 :> {far}) @@ (q2 :> {near})
AllKinds == {"memory", "sqlite", "qdrant", "chroma", "pgvector"}

AskFor(tag, org, p, filter, queries, limit, keyword_limit, rerank) ==
  [scope |-> [tag |-> tag, org |-> org, project |-> p], filter |-> filter, queries |-> queries,
   limit |-> limit, keyword_limit |-> keyword_limit, rerank |-> rerank]

\* A project, with room, ranked again; a tag, rewritten, with a filter and no room to spare.
SomeAsks == {AskFor(t1, None, p1, None, << q1 >>, 3, 2, TRUE),
             AskFor(t1, None, None, m, << q2, q1 >>, 1, 1, FALSE)}

\* A bound: the chunk that is there already, if any, is the one that the filter
\* refuses.  The others come with AddChunk.
MCInit == Init /\ \A i \in DOMAIN row : row[i].meta = n

MCSpec == MCInit /\ [][Next]_vars
=============================================================================
