----------------------------- MODULE FactGraph -----------------------------
(***************************************************************************)
(* The temporal fact graph (facts.py) with the memory that each fact       *)
(* projects into, for one container tag, subject and predicate: the facts  *)
(* are the values that the relation has or had.                            *)
(*                                                                         *)
(* POST /v4/facts calls add_fact inside BEGIN IMMEDIATE, so it is one      *)
(* step.  A worker that dreams calls it in autocommit mode, once for each  *)
(* fact that the language model extracted: its SELECTs come before the     *)
(* transaction that the first INSERT or UPDATE opens.                      *)
(***************************************************************************)
EXTENDS Naturals, Sequences

CONSTANTS
  Facts,       \* ids (uuid4) that new rows take: bounds the number of rows
  Objects,     \* the objects of the relation
  NoFact,      \* the NULL of superseded_by
  Dreamers,    \* worker processes that dream
  Extractions  \* the sequences of objects that the language model may extract

ASSUME FactConstantsOK ==
  /\ NoFact \notin Facts
  /\ Objects # {}
  /\ Extractions \subseteq Seq(Objects)

VARIABLES
  rows,        \* the facts table
  projection,  \* the memory whose fact_id is, or was, the fact
  dreamer,     \* each worker's locals inside add_fact
  inserted     \* number of rows inserted so far

factVars == <<rows, projection, dreamer, inserted>>

Row == [state  : {"absent", "live", "superseded", "gone"},
        object : Objects,
        by     : Facts \cup {NoFact},
        born   : Nat]

\* "same" and "closed" are what add_fact has read; "revive" is whether it read a
\* valid_to; "todo" begins with the object it was called for.
Dreamer == [pc     : {"idle", "finding", "scanning", "storing", "asserting"},
            todo   : Seq(Objects),
            same   : Facts \cup {NoFact},
            revive : BOOLEAN,
            closed : SUBSET Facts]

At(pc, todo) ==
  [pc |-> pc, todo |-> todo, same |-> NoFact, revive |-> FALSE, closed |-> {}]

Exists(f) == rows[f].state \in {"live", "superseded"}

\* The first SELECT of add_fact.  Two rows with one object are ordered by the
\* time at which their add_fact began: either may come first.
Same(o) == {f \in Facts : Exists(f) /\ rows[f].object = o}

\* Its second SELECT.
Current == {f \in Facts : rows[f].state = "live"}

FactInit ==
  /\ rows = [f \in Facts |-> [state |-> "absent", object |-> CHOOSE o \in Objects : TRUE,
                              by |-> NoFact, born |-> 0]]
  /\ projection = [f \in Facts |-> "none"]
  /\ dreamer = [w \in Dreamers |-> At("idle", <<>>)]
  /\ inserted = 0

-----------------------------------------------------------------------------
(***************************************************************************)
(* What add_fact writes.                                                   *)
(***************************************************************************)
\* Mutant: a deleted projection does not count, as in ensure_input_memory.
EnsureActive(f) == [projection EXCEPT ![f] = "active"]

\* ensure_fact_memory: a memory that exists stays as it is, deleted or not.
Ensured(f) == [projection EXCEPT ![f] = IF @ = "none" THEN "active" ELSE @]

\* The row is live again; the rows that have superseded it are left alone.
Reassert(f, revive) ==
  /\ rows' = IF revive THEN [rows EXCEPT ![f].state = "live", ![f].by = NoFact] ELSE rows
  /\ projection' = Ensured(f)
  /\ UNCHANGED inserted

\* Mutant: the rows to close are selected after the INSERT.
InsertThenScan(f, o, closed) ==
  /\ rows[f].state = "absent"
  /\ rows' = [g \in Facts |->
                IF g = f THEN [state |-> IF closed = {} THEN "live" ELSE "superseded",
                               object |-> o, by |-> IF closed = {} THEN NoFact ELSE f,
                               born |-> inserted]
                ELSE IF g \in closed /\ Exists(g)
                  THEN [rows[g] EXCEPT !.state = "superseded", !.by = f]
                ELSE rows[g]]
  /\ projection' = Ensured(f)
  /\ inserted' = inserted + 1

\* A new row, and an UPDATE by id of each row that it supersedes.
Insert(f, o, closed) ==
  /\ rows[f].state = "absent"
  /\ rows' = [g \in Facts |->
                IF g = f THEN [state |-> "live", object |-> o, by |-> NoFact, born |-> inserted]
                ELSE IF g \in closed /\ Exists(g)
                  THEN [rows[g] EXCEPT !.state = "superseded", !.by = f]
                ELSE rows[g]]
  /\ projection' = Ensured(f)
  /\ inserted' = inserted + 1

-----------------------------------------------------------------------------
(***************************************************************************)
(* The API.                                                                *)
(***************************************************************************)
\* POST /v4/facts; with supersede = FALSE nothing is closed.
CreateFact(o, supersede) ==
  /\ IF Same(o) # {}
       THEN \E f \in Same(o) : Reassert(f, rows[f].state = "superseded")
       ELSE \E f \in Facts : Insert(f, o, IF supersede THEN Current ELSE {})
  /\ UNCHANGED dreamer

\* soft_delete_memory: nothing becomes of a memory that is not active.
Deleted(S) == [f \in Facts |-> IF f \in S /\ projection[f] = "active" THEN "deleted" ELSE projection[f]]

\* superseded_by REFERENCES facts(id), with no ON DELETE.
Referenced(f) == \E g \in Facts : Exists(g) /\ rows[g].by = f

\* Mutant: the foreign key is not enforced.
ForgetReferenced(f) ==
  /\ Exists(f)
  /\ rows' = [rows EXCEPT ![f].state = "gone"]
  /\ projection' = Deleted({f})
  /\ UNCHANGED <<dreamer, inserted>>

\* Mutant: the route deletes the fact row alone.
ForgetFactOnly(f) ==
  /\ Exists(f) /\ ~Referenced(f)
  /\ rows' = [rows EXCEPT ![f].state = "gone"]
  /\ UNCHANGED <<projection, dreamer, inserted>>

\* DELETE /v4/memories/{fact_id}: the projection and the row go in one
\* transaction, which is rolled back when the DELETE of the row raises.
Forget(f) ==
  /\ Exists(f)
  /\ \/ /\ ~Referenced(f)
        /\ rows' = [rows EXCEPT ![f].state = "gone"]
        /\ projection' = Deleted({f})
     \/ /\ Referenced(f)
        /\ UNCHANGED <<rows, projection>>
  /\ UNCHANGED <<dreamer, inserted>>

\* linked_memory_ids: what f superseded, and so on through what is not deleted.
Linked(f) ==
  LET closed(S) == \A g \in Facts :
        Exists(g) /\ projection[g] = "active" /\ rows[g].by \in S \cup {f} => g \in S
  IN  {g \in Facts : \A S \in SUBSET Facts : closed(S) => g \in S}

\* DELETE of a memory by its own id, with or without delete_linked: the fact
\* row stays.
DeleteMemory(f, linked) ==
  /\ projection[f] = "active"
  /\ projection' = Deleted({f} \cup (IF linked THEN Linked(f) ELSE {}))
  /\ UNCHANGED <<rows, dreamer, inserted>>

\* DELETE /v4/tags/{tag}: purge_tag deletes the memories and the facts.
PurgeTag ==
  /\ rows' = [f \in Facts |-> IF Exists(f) THEN [rows[f] EXCEPT !.state = "gone"] ELSE rows[f]]
  /\ projection' = [f \in Facts |-> IF projection[f] = "none" THEN "none" ELSE "gone"]
  /\ UNCHANGED <<dreamer, inserted>>

-----------------------------------------------------------------------------
(***************************************************************************)
(* A worker that dreams: dream_document, _dream_bundle.                    *)
(***************************************************************************)
\* A job is delivered, for the first time or again after an error or a kill,
\* and the model extracts what it likes.
Begin(w) ==
  /\ dreamer[w].pc = "idle"
  /\ \E todo \in Extractions \ {<<>>} : dreamer' = [dreamer EXCEPT ![w] = At("finding", todo)]
  /\ UNCHANGED <<rows, projection, inserted>>

Find(w) ==
  /\ dreamer[w].pc = "finding"
  /\ LET same == Same(Head(dreamer[w].todo)) IN
     IF same = {} THEN dreamer' = [dreamer EXCEPT ![w].pc = "scanning"]
     ELSE \E f \in same :
            dreamer' = [dreamer EXCEPT ![w].pc = "asserting", ![w].same = f,
                                       ![w].revive = rows[f].state = "superseded"]
  /\ UNCHANGED <<rows, projection, inserted>>

Scan(w) ==
  /\ dreamer[w].pc = "scanning"
  /\ dreamer' = [dreamer EXCEPT ![w].pc = "storing", ![w].closed = Current]
  /\ UNCHANGED <<rows, projection, inserted>>

\* Mutant: the loop goes on past the last fact.
AdvanceAlways(w) == dreamer' = [dreamer EXCEPT ![w] = At("finding", Tail(dreamer[w].todo))]

\* The loop goes on to the next fact, if there is one.
Advance(w) ==
  LET rest == Tail(dreamer[w].todo) IN
  dreamer' = [dreamer EXCEPT ![w] = At(IF rest = <<>> THEN "idle" ELSE "finding", rest)]

Store(w) ==
  /\ dreamer[w].pc = "storing"
  /\ \E f \in Facts : Insert(f, Head(dreamer[w].todo), dreamer[w].closed)
  /\ Advance(w)

\* When the row is gone by now, its projection cannot be inserted
\* (memories.fact_id REFERENCES facts): the handler raises.
AssertSame(w) ==
  LET f == dreamer[w].same IN
  /\ dreamer[w].pc = "asserting"
  /\ \/ Exists(f) /\ Reassert(f, dreamer[w].revive) /\ Advance(w)
     \/ /\ ~Exists(f)
        /\ dreamer' = [dreamer EXCEPT ![w] = At("idle", <<>>)]
        /\ UNCHANGED <<rows, projection, inserted>>

\* The worker is killed between two commits.
Kill(w) ==
  /\ dreamer[w].pc # "idle"
  /\ dreamer' = [dreamer EXCEPT ![w] = At("idle", <<>>)]
  /\ UNCHANGED <<rows, projection, inserted>>

-----------------------------------------------------------------------------
Dream(w) == Begin(w) \/ Find(w) \/ Scan(w) \/ Store(w) \/ AssertSame(w) \/ Kill(w)

FactNext ==
  \/ \E o \in Objects, supersede \in BOOLEAN : CreateFact(o, supersede)
  \/ \E f \in Facts : Forget(f)
  \/ \E f \in Facts, linked \in BOOLEAN : DeleteMemory(f, linked)
  \/ PurgeTag
  \/ \E w \in Dreamers : Dream(w)

FactSpec == FactInit /\ [][FactNext]_factVars

-----------------------------------------------------------------------------
FactTypeOK ==
  /\ rows \in [Facts -> Row]
  /\ projection \in [Facts -> {"none", "active", "deleted", "gone"}]
  /\ dreamer \in [Dreamers -> Dreamer]
  /\ \A w \in Dreamers : dreamer[w].pc # "idle" => dreamer[w].todo # <<>>
  /\ inserted \in Nat

\* A superseded fact names the fact that took its place, which is there and is
\* newer, and a live one names none, however add_fact interleaves with itself,
\* with revivals and with deletions: the history that linked_memory_ids follows
\* has no cycle and no dead end.
SupersessionIsForward ==
  \A f \in Facts : Exists(f) =>
    IF rows[f].state = "live" THEN rows[f].by = NoFact
    ELSE \E g \in Facts : rows[f].by = g /\ Exists(g) /\ rows[f].born < rows[g].born

\* "Contradictions supersede (close validity), never delete" (facts.py): a
\* relation that has a history has a current value.  No race of two writers and
\* no deletion leaves it with superseded rows alone.
ValueSurvives == (\E f \in Facts : Exists(f)) => Current # {}

\* A fact and its memory go together: a fact that exists has a memory, or the
\* tombstone of one, and no active memory is left of a fact that was deleted
\* while a writer was about to assert it again (ensure_fact_memory, forget_fact).
Projected ==
  \A f \in Facts : /\ Exists(f) => projection[f] \in {"active", "deleted"}
                   /\ projection[f] = "active" => Exists(f)

\* A memory that was deleted is not brought back when its fact is asserted again.
TombstoneIsFinal ==
  [][\A f \in Facts : projection[f] = "deleted" => projection'[f] \in {"deleted", "gone"}]_factVars
=============================================================================
