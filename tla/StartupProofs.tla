---------------------------- MODULE StartupProofs ----------------------------
(***************************************************************************)
(* Proofs about Startup, for any list of migrations, any connections of    *)
(* any builds and any number of kills, backups and restores.               *)
(***************************************************************************)
EXTENDS Startup, TLAPS, WellFoundedInduction

-----------------------------------------------------------------------------
(***************************************************************************)
(* The operators.                                                          *)
(***************************************************************************)
\* The equation that the columns of version v satisfy.
Unfolded(f, v) ==
  IF v = 0 THEN {}
  ELSE CASE Migrations[v].kind = "alter" -> f[v - 1] \cup Migrations[v].columns
         [] OTHER                        -> Migrations[v].columns

\* The columns of version v are those that some migration has dealt with last:
\* after it columns were only added.
Lasting(v) ==
  UNION {Migrations[u].columns : u \in {u \in 1..v : \A t \in (u + 1)..v : Migrations[t].kind = "alter"}}

\* The columns of a version, by what its migration does to those before.
LEMMA ColumnsUnfold ==
  \A v \in 0..N : Columns[v] = Unfolded(Columns, v)
<1> DEFINE f == [v \in 0..N |-> Lasting(v)]
<1>1. \A v \in 0..N : Lasting(v) = Unfolded(f, v)
  <2> SUFFICES ASSUME NEW v \in 0..N PROVE Lasting(v) = Unfolded(f, v)
    OBVIOUS
  <2>1. CASE v = 0
    BY <2>1 DEF Lasting, Unfolded
  <2>2. CASE v # 0 /\ Migrations[v].kind = "alter"
    <3>1. v - 1 \in 0..N /\ v \in 1..N
      BY <2>2, StartupConstantsOK
    <3>2. {u \in 1..v : \A t \in (u + 1)..v : Migrations[t].kind = "alter"} =
            {u \in 1..(v - 1) : \A t \in (u + 1)..(v - 1) : Migrations[t].kind = "alter"} \cup {v}
      BY <2>2, <3>1
    <3>3. Lasting(v) = Lasting(v - 1) \cup Migrations[v].columns
      BY <3>2 DEF Lasting
    <3> QED
      BY <2>2, <3>1, <3>3 DEF Unfolded
  <2>3. CASE v # 0 /\ Migrations[v].kind # "alter"
    <3>1. {u \in 1..v : \A t \in (u + 1)..v : Migrations[t].kind = "alter"} = {v}
      BY <2>3, StartupConstantsOK
    <3>2. Lasting(v) = Migrations[v].columns
      BY <3>1 DEF Lasting
    <3> QED
      BY <2>3, <3>2 DEF Unfolded
  <2> QED
    BY <2>1, <2>2, <2>3
<1>2. f = [v \in 0..N |-> Unfolded(f, v)]
  BY <1>1
<1>3. Columns = CHOOSE g : g = [v \in 0..N |-> Unfolded(g, v)]
  BY Zenon DEF Columns, Unfolded
<1>4. Columns = [v \in 0..N |-> Unfolded(Columns, v)]
  <2> HIDE DEF f
  <2> QED
    BY <1>2, <1>3, Zenon
<1> QED
  BY <1>4

Named == UNION {Migrations[v].columns : v \in 1..N}

\* A version has no columns but those of the migrations.
LEMMA ColumnsNamed == \A v \in 0..N : Columns[v] \subseteq Named
<1> DEFINE Strange == {v \in 0..N : ~(Columns[v] \subseteq Named)}
           Below == {p \in Nat \X Nat : p[1] < p[2]}
<1> SUFFICES ASSUME Strange # {} PROVE FALSE
  OBVIOUS
<1>1. Strange \subseteq Nat
  BY StartupConstantsOK
<1>2. PICK v \in Strange : \A u \in Strange : ~(<<u, v>> \in Below)
  <2>1. IsWellFoundedOn(Below, Nat)
    BY NatLessThanWellFounded DEF OpToRel
  <2> HIDE DEF Strange, Below
  <2> QED
    BY <1>1, <2>1, WFMin
<1>3. v \in 0..N /\ Columns[v] = Unfolded(Columns, v) /\ ~(Columns[v] \subseteq Named)
  BY <1>2, ColumnsUnfold
<1>4. v # 0
  BY <1>3 DEF Unfolded
<1>5. v - 1 \in 0..N /\ v \in 1..N
  BY <1>3, <1>4, StartupConstantsOK
<1>6. ~(Columns[v - 1] \subseteq Named) \/ Migrations[v].kind # "alter"
  BY <1>3, <1>4, <1>5 DEF Unfolded, Named
<1>7. Migrations[v].kind = "alter" /\ v - 1 \in Strange
  BY <1>3, <1>4, <1>5, <1>6 DEF Unfolded, Named
<1>8. <<v - 1, v>> \in Below
  BY <1>5, StartupConstantsOK
<1> QED
  BY <1>2, <1>7, <1>8

\* A database whose versions have no gap records the last of them.
LEMMA RecordedIs ==
  ASSUME NEW d, NEW v \in Nat, d.stamps = 1..v
  PROVE  Recorded(d) = v
<1>1. CASE v = 0
  BY <1>1 DEF Recorded
<1>2. CASE v # 0
  <2>1. v \in d.stamps /\ (\A w \in d.stamps : w <= v) /\ d.stamps \subseteq Int
    BY <1>2
  <2>2. \A u \in d.stamps : (\A w \in d.stamps : w <= u) => u = v
    BY <2>1
  <2> QED
    BY <1>2, <2>1, <2>2 DEF Recorded
<1> QED
  BY <1>1, <1>2

Versioned(d) == d.stamps = 1..Recorded(d)

\* The version of a database is one of the list.
LEMMA RecordedType ==
  ASSUME NEW d \in File
  PROVE  Recorded(d) \in 0..N
<1>1. d.stamps \subseteq 1..N
  BY DEF File
<1>2. CASE d.stamps = {}
  BY <1>2, StartupConstantsOK DEF Recorded
<1>3. CASE d.stamps # {}
  <2> DEFINE Newest == {v \in d.stamps : \A w \in d.stamps : w <= v}
             Above  == {N - v : v \in d.stamps}
             Below  == {p \in Nat \X Nat : p[1] < p[2]}
  <2>1. Above \subseteq Nat /\ Above # {}
    BY <1>1, <1>3, StartupConstantsOK
  <2>2. PICK n \in Above : \A m \in Above : ~(<<m, n>> \in Below)
    <3>1. IsWellFoundedOn(Below, Nat)
      BY NatLessThanWellFounded DEF OpToRel
    <3> HIDE DEF Above, Below
    <3> QED
      BY <2>1, <3>1, WFMin
  <2>3. PICK v \in d.stamps : n = N - v
    BY <2>2
  <2>4. \A w \in d.stamps : w <= v
    <3> SUFFICES ASSUME NEW w \in d.stamps PROVE w <= v
      OBVIOUS
    <3>1. ~(<<N - w, n>> \in Below)
      BY <2>2
    <3> QED
      BY <1>1, <2>1, <2>3, <3>1, StartupConstantsOK
  <2>5. Newest # {}
    BY <2>4
  <2> QED
    BY <1>1, <1>3, <2>5 DEF Recorded
<1> QED
  BY <1>2, <1>3

-----------------------------------------------------------------------------
(***************************************************************************)
(* Types.  Beside them: a connection applies a migration of its build that *)
(* is recorded already or the next to be, and the snapshots are databases  *)
(* of some version.                                                        *)
(***************************************************************************)
Applying == {"migrate"} \cup Rebuilding

InRange(c) ==
  /\ conn[c].stage \in Applying => conn[c].at \in 1..Build[c] /\ conn[c].at <= Recorded(main) + 1
  /\ conn[c].stage \in Rebuilding => Rebuilds(conn[c].at)
  /\ conn[c].stage = "closed" => conn[c].at = 0
  /\ conn[c].stage = "verify" => conn[c].at = Build[c] + 1

AllClosed == \A c \in Conns : conn[c] = Closed

FilesKept ==
  /\ snapshot # None => Versioned(snapshot)
  /\ tool.stage \in {"backup", "copied"} => tool.file # None
  /\ tool.file # None => Versioned(tool.file)
  /\ tool.stage = "copied" => AllClosed

\* What the history may hold.
HistoryKept ==
  /\ outdated \subseteq Conns /\ cut \subseteq 1..N
  /\ mishaps \subseteq {"crossed", "torn", "rerun", "outdated"}
  /\ \A v \in cut : Rebuilds(v)

Bounded == (\A c \in Conns : InRange(c)) /\ FilesKept /\ HistoryKept

\* What the migrations and the builds are.
LEMMA Known ==
  /\ N \in Nat
  /\ \A c \in Conns : Build[c] \in 1..N
  /\ \A v \in 1..N : Migrations[v].columns \subseteq Named
  /\ \A v \in 1..N : Migrations[v].kind \in {"create", "alter", "rebuild"}
  /\ \A v \in 1..N : Migrations[v].kind = "create" <=> v = 1
  /\ \A v : Rebuilds(v) <=> v \in 1..N /\ Migrations[v].kind = "rebuild"
  BY StartupConstantsOK DEF Named, Rebuilds

\* A connection that goes on to another stage.
LEMMA Moved ==
  ASSUME TypeOK, NEW c \in Conns, NEW s \in Stage, NEW v \in 0..(N + 1), Moves(c, s, v)
  PROVE  /\ conn' \in [Conns -> [stage : Stage, at : 0..(N + 1)]]
         /\ conn'[c] = [stage |-> s, at |-> v]
         /\ \A d \in Conns \ {c} : conn'[d] = conn[d]
  BY DEF Moves, TypeOK

\* A migration that is not recorded is the next one, and its record leaves no gap.
LEMMA NextStamp ==
  ASSUME NEW d \in File, Versioned(d), NEW v \in 1..N, v <= Recorded(d) + 1, v \notin d.stamps
  PROVE  v = Recorded(d) + 1 /\ d.stamps \cup {v} = 1..v
<1>1. Recorded(d) \in Nat
  BY RecordedType, Known
<1>2. v > Recorded(d)
  BY <1>1, Known DEF Versioned
<1> QED
  BY <1>1, <1>2, Known DEF Versioned

\* Two databases that record the same have the same version.
LEMMA SameStamps ==
  ASSUME NEW d, NEW e, d.stamps = e.stamps
  PROVE  Recorded(d) = Recorded(e) /\ (Versioned(d) => Versioned(e))
  BY DEF Recorded, Versioned

\* A plain migration: CREATE TABLE or ALTER TABLE ADD COLUMN, and its record.
LEMMA PlainMain ==
  ASSUME TypeOK, Bounded, NEW c \in Conns, Plain(c)
  PROVE  LET v == conn[c].at IN
         /\ v \in 1..Build[c] /\ v = Recorded(main) + 1 /\ ~Rebuilds(v)
         /\ main' \in File /\ Versioned(main') /\ Recorded(main') = v
         /\ main'.copy = main.copy /\ main'.written = main.written
         /\ v = 1 => main'.documents = IF main.documents = None
                                         THEN [columns |-> Migrations[v].columns, rows |-> {}]
                                         ELSE main.documents
         /\ v # 1 => /\ main.documents # None
                     /\ main'.documents # None
                     /\ main'.documents.columns = main.documents.columns \cup Migrations[v].columns
                     /\ main'.documents.rows = main.documents.rows
<1> DEFINE v == conn[c].at
<1>1. conn[c].stage = "migrate" /\ ~Rebuilds(v) /\ v \notin main.stamps
  BY DEF Plain, Applies
<1>2. v \in 1..Build[c] /\ v <= Recorded(main) + 1
  BY <1>1 DEF Bounded, InRange, Applying
<1>3. v \in 1..N /\ main \in File /\ Versioned(main)
  BY <1>2, Known DEF TypeOK, Versioned
<1>4. v = Recorded(main) + 1 /\ main.stamps \cup {v} = 1..v
  BY <1>1, <1>2, <1>3, NextStamp
<1>5. Migrations[v].kind = IF v = 1 THEN "create" ELSE "alter"
  BY <1>1, <1>3, Known
<1> DEFINE old == main.documents
           new == IF old = None THEN [columns |-> Migrations[v].columns, rows |-> {}]
                  ELSE IF v = 1 THEN old
                  ELSE [old EXCEPT !.columns = @ \cup Migrations[v].columns]
<1>6. main' = [main EXCEPT !.stamps = 1..v, !.documents = new]
  BY <1>4, <1>5 DEF Plain, Commits
<1>7. old \in Table \cup {None} /\ main.copy \in Table \cup {None} /\ main.written \subseteq Docs
  BY <1>3 DEF File
<1>8. v # 1 => old # None
  BY <1>1, <1>5 DEF Plain, Applies
<1>9. new \in Table /\ (v # 1 => new.columns = old.columns \cup Migrations[v].columns /\ new.rows = old.rows)
  BY <1>3, <1>7, <1>8, Known DEF Table, Named
<1>10. new # None
  BY <1>9, StartupConstantsOK
<1> HIDE DEF new
<1>11. main'.stamps = 1..v /\ main'.documents = new /\ main'.copy = main.copy /\ main'.written = main.written
  BY <1>3, <1>6 DEF File
<1>12. main' \in File
  <2>1. 1..v \subseteq 1..N
    BY <1>3, Known
  <2>2. main' = [stamps |-> 1..v, documents |-> new, copy |-> main.copy, written |-> main.written]
    BY <1>3, <1>6 DEF File
  <2> QED
    BY <1>7, <1>9, <2>1, <2>2 DEF File
<1>13. Recorded(main') = v
  BY <1>3, <1>11, RecordedIs, Known
<1>14. Versioned(main')
  BY <1>11, <1>13 DEF Versioned
<1>15. v = 1 => new = IF old = None THEN [columns |-> Migrations[v].columns, rows |-> {}] ELSE old
  BY DEF new
<1> QED
  BY <1>1, <1>2, <1>4, <1>8, <1>9, <1>10, <1>11, <1>12, <1>13, <1>14, <1>15

\* The statements of a rebuild, by the stage they are at.
Rebuilt(c) ==
  LET s == conn[c].stage
      v == conn[c].at
  IN /\ s = "migrate" => main'.copy = None
     /\ s = "create" => main.copy = None /\ main'.copy = [columns |-> Migrations[v].columns, rows |-> {}]
     /\ s = "fill" => /\ main.copy # None /\ main.documents # None /\ main'.copy # None
                      /\ main'.copy.columns = main.copy.columns
                      /\ main'.copy.rows = main.copy.rows \cup main.documents.rows
     /\ s \in {"drop", "stamp"} => main'.copy = main.copy
     /\ s \in {"migrate", "create", "fill", "stamp"} => main'.documents = main.documents
     /\ s = "drop" => main.documents # None /\ main'.documents = None
     /\ s = "rename" => /\ main.copy # None /\ main.documents = None
                        /\ main'.documents = main.copy /\ main'.copy = None
     /\ s # "stamp" => main'.stamps = main.stamps
     /\ s = "stamp" => main'.stamps = 1..v /\ v = Recorded(main) + 1

\* Rebuilding documents does to the file what Rebuilt says, and the file stays a file of the
\* table that has lost nothing of what was written to it.
LEMMA RebuildData ==
  ASSUME TypeOK, NEW c \in Conns, Rebuild(c), conn[c].stage \in Applying,
         conn[c].at \in 1..N, conn[c].at <= Recorded(main) + 1
  PROVE  main' \in File /\ main'.written = main.written /\ Rebuilt(c)
<1> DEFINE v == conn[c].at
           m == Migrations[v]
<1>3. v \in 1..N /\ main \in File /\ Versioned(main) /\ m.columns \subseteq Named
  BY Known DEF TypeOK, Versioned
<1>4. main' = Left(c) /\ Succeeds(c)
  BY DEF Rebuild, Commits
<1>5. /\ main.documents \in Table \cup {None} /\ main.copy \in Table \cup {None}
      /\ main.written \subseteq Docs /\ main.stamps \subseteq 1..N
  BY <1>3 DEF File
<1>6. [columns |-> m.columns, rows |-> {}] \in Table
  BY <1>3 DEF Table, Named
<1>7. CASE conn[c].stage = "migrate"
  BY <1>3, <1>4, <1>5, <1>7 DEF Left, Rebuilt, File
<1>8. CASE conn[c].stage = "create"
  BY <1>3, <1>4, <1>5, <1>6, <1>8 DEF Left, Succeeds, Rebuilt, File
<1>9. CASE conn[c].stage = "fill"
  <2>1. main.copy # None /\ main.documents # None /\ main' = [main EXCEPT !.copy.rows = main.copy.rows \cup main.documents.rows]
    BY <1>4, <1>9 DEF Left, Succeeds
  <2> DEFINE copy == [main.copy EXCEPT !.rows = main.copy.rows \cup main.documents.rows]
  <2>2. /\ copy \in Table /\ copy.columns = main.copy.columns
        /\ copy.rows = main.copy.rows \cup main.documents.rows
    BY <1>5, <2>1 DEF Table
  <2>3. copy # None
    BY <2>2, StartupConstantsOK
  <2>4. main' = [main EXCEPT !.copy = copy]
    BY <1>3, <2>1 DEF File
  <2> HIDE DEF copy
  <2> QED
    BY <1>3, <1>5, <1>9, <2>1, <2>2, <2>3, <2>4 DEF Rebuilt, File
<1>10. CASE conn[c].stage = "drop"
  BY <1>3, <1>4, <1>5, <1>10 DEF Left, Succeeds, Rebuilt, File
<1>11. CASE conn[c].stage = "rename"
  BY <1>3, <1>4, <1>5, <1>11 DEF Left, Succeeds, Rebuilt, File
<1>12. CASE conn[c].stage = "stamp"
  <2>1. v \notin main.stamps /\ main' = [main EXCEPT !.stamps = main.stamps \cup {v}]
    BY <1>4, <1>12 DEF Left, Succeeds
  <2>2. v = Recorded(main) + 1 /\ main.stamps \cup {v} = 1..v
    BY <1>3, <2>1, NextStamp
  <2> QED
    BY <1>3, <1>5, <1>12, <2>1, <2>2, Known DEF Rebuilt, File
<1> QED
  BY <1>7, <1>8, <1>9, <1>10, <1>11, <1>12 DEF Applying, Rebuilding

\* ... and so for the versions.
LEMMA RebuildMain ==
  ASSUME TypeOK, Bounded, NEW c \in Conns, Rebuild(c)
  PROVE  /\ conn[c].stage \in Applying /\ Rebuilds(conn[c].at)
         /\ conn[c].at \in 1..Build[c] /\ conn[c].at <= Recorded(main) + 1
         /\ main' \in File /\ Versioned(main') /\ main'.written = main.written
         /\ Rebuilt(c)
         /\ Recorded(main') = IF conn[c].stage = "stamp" THEN conn[c].at ELSE Recorded(main)
<1> DEFINE v == conn[c].at
           m == Migrations[v]
<1>1. conn[c].stage \in Applying
  BY DEF Rebuild, InRebuild, Applying, Rebuilding
<1>2. v \in 1..Build[c] /\ v <= Recorded(main) + 1 /\ Rebuilds(v)
  BY <1>1 DEF Bounded, InRange, Applying, Rebuild, InRebuild
<1>3. v \in 1..N /\ main \in File /\ Versioned(main) /\ m.columns \subseteq Named
  BY <1>2, Known DEF TypeOK, Versioned
<1>13. main' \in File /\ main'.written = main.written /\ Rebuilt(c)
  BY <1>1, <1>2, <1>3, RebuildData
<1>14. CASE conn[c].stage = "stamp"
  <2>1. main'.stamps = 1..v
    BY <1>13, <1>14 DEF Rebuilt
  <2>2. Recorded(main') = v
    BY <1>3, <2>1, RecordedIs, Known
  <2> QED
    BY <1>1, <1>2, <1>13, <1>14, <2>1, <2>2 DEF Versioned
<1>15. CASE conn[c].stage # "stamp"
  <2>1. main'.stamps = main.stamps
    BY <1>13, <1>15 DEF Rebuilt
  <2>2. Recorded(main') = Recorded(main) /\ Versioned(main')
    BY <1>3, <2>1, SameStamps
  <2> QED
    BY <1>1, <1>2, <1>13, <1>15, <2>2
<1> QED
  BY <1>14, <1>15

Log == {None, "own", "foreign", "replayed"}

\* What a connection does to its own stage, while no restore is at work, keeps the types.
LEMMA ConnTypes ==
  ASSUME TypeOK, Bounded, NEW c \in Conns, NEW s \in Stage, NEW v \in 0..(N + 1), Moves(c, s, v),
         main' \in File, Versioned(main'), Recorded(main') >= Recorded(main),
         wal' \in Log, faults' \in 0..MaxFaults, UNCHANGED <<snapshot, tool, tools>>,
         HistoryKept', tool.stage # "copied",
         s \in Applying => v \in 1..Build[c] /\ v <= Recorded(main') + 1,
         s \in Rebuilding => Rebuilds(v),
         s = "closed" => v = 0,
         s = "verify" => v = Build[c] + 1
  PROVE  TypeOK' /\ Bounded'
<1>0. /\ conn' \in [Conns -> [stage : Stage, at : 0..(N + 1)]]
      /\ conn'[c] = [stage |-> s, at |-> v]
      /\ \A d \in Conns \ {c} : conn'[d] = conn[d]
  BY Moved
<1>1. /\ conn' \in [Conns -> [stage : Stage, at : 0..(N + 1)]]
      /\ conn'[c].stage = s /\ conn'[c].at = v
      /\ \A d \in Conns \ {c} : conn'[d] = conn[d]
  BY <1>0
<1>2. TypeOK'
  BY <1>1 DEF TypeOK, Versioned, Log, HistoryKept
<1>3. \A d \in Conns \ {c} : InRange(d)'
  <2> SUFFICES ASSUME NEW d \in Conns \ {c} PROVE InRange(d)'
    OBVIOUS
  <2>1. InRange(d) /\ conn'[d] = conn[d] /\ Build[d] \in 1..N /\ N \in Nat
    BY <1>1, Known DEF Bounded
  <2>2. Recorded(main) \in Nat /\ Recorded(main') \in Nat
    BY RecordedType, Known DEF TypeOK
  <2> QED
    BY <2>1, <2>2 DEF InRange
<1>4. InRange(c)'
  BY <1>1 DEF InRange
<1>5. FilesKept'
  BY DEF FilesKept, Bounded, Versioned, Recorded
<1> QED
  BY <1>2, <1>3, <1>4, <1>5 DEF Bounded

\* While a connection is open, no restore is about to replace the database.
LEMMA NotRestoring ==
  ASSUME Bounded, NEW c \in Conns, conn[c].stage # "closed"
  PROVE  tool.stage # "copied"
  BY DEF Bounded, FilesKept, AllClosed, Closed

\* The next migration, or the verification.
LEMMA AfterStage ==
  ASSUME NEW c \in Conns, conn[c].at \in 1..Build[c], After(c)
  PROVE  \E s \in {"migrate", "verify"} :
           /\ Moves(c, s, conn[c].at + 1)
           /\ conn[c].at + 1 \in 0..(N + 1)
           /\ s = "migrate" => conn[c].at + 1 \in 1..Build[c]
           /\ s = "verify" => conn[c].at = Build[c]
<1>1. Build[c] \in 1..N /\ N \in Nat /\ conn[c].at + 1 \in 0..(N + 1)
  BY Known
<1>2. CASE conn[c].at = Build[c]
  BY <1>1, <1>2 DEF After
<1>3. CASE conn[c].at # Build[c]
  BY <1>1, <1>3 DEF After
<1> QED
  BY <1>2, <1>3

\* The steps of a connection.
ConnStep(c) ==
  Open(c) \/ Plain(c) \/ Rebuild(c) \/ Fails(c) \/ Verify(c) \/ Write(c) \/ Close(c) \/ Kill(c)

\* What a connection adds to the history, and what it makes of the log.
LEMMA ConnHistory ==
  ASSUME TypeOK, Bounded, NEW c \in Conns, ConnStep(c)
  PROVE  HistoryKept' /\ wal' \in Log
<1>1. /\ wal \in Log /\ HistoryKept
  BY DEF TypeOK, Log, Bounded
<1>2. CASE Open(c)
  BY <1>1, <1>2 DEF Open, HistoryKept, Log, Noted
<1>3. ASSUME NEW e, Commits(c, e) PROVE wal' \in Log /\ outdated' \subseteq Conns
  BY <1>1, <1>3 DEF Commits, HistoryKept, Log
<1>4. CASE Plain(c)
  BY <1>1, <1>3, <1>4 DEF Plain, HistoryKept
<1>5. CASE Rebuild(c)
  BY <1>1, <1>3, <1>5 DEF Rebuild, HistoryKept, Noted
<1>6. CASE Fails(c) \/ Verify(c) \/ Close(c)
  BY <1>1, <1>6 DEF Fails, GivesUp, Verify, Close, history, HistoryKept, Log
<1>7. CASE Write(c)
  BY <1>1, <1>3, <1>7 DEF Write, HistoryKept
<1>8. CASE Kill(c)
  <2>1. conn[c].stage \in {"rename", "stamp"} => conn[c].at \in 1..N /\ Rebuilds(conn[c].at)
    BY Known DEF Bounded, InRange, Applying, Rebuilding
  <2> QED
    BY <1>1, <1>8, <2>1 DEF Kill, GivesUp, HistoryKept, Log
<1> QED
  BY <1>2, <1>4, <1>5, <1>6, <1>7, <1>8 DEF ConnStep

\* The steps of the connections keep the types and the bounds.
LEMMA ConnTypeOK ==
  ASSUME TypeOK, Bounded, NEW c \in Conns, ConnStep(c)
  PROVE  TypeOK' /\ Bounded'
<1>1. /\ main \in File /\ Versioned(main) /\ Recorded(main) \in 0..N
      /\ faults \in 0..MaxFaults /\ HistoryKept' /\ wal' \in Log
      /\ Build[c] \in 1..N /\ N \in Nat /\ MaxFaults \in Nat
      /\ conn[c] \in [stage : Stage, at : 0..(N + 1)]
  BY RecordedType, Known, StartupConstantsOK, ConnHistory DEF TypeOK, Versioned
<1>2. CASE Open(c)
  <2> DEFINE s == IF Recorded(main) = Build[c] THEN "verify" ELSE "migrate"
             v == Recorded(main) + 1
  <2>1. /\ Moves(c, s, v) /\ UNCHANGED <<main, snapshot, tool, faults, tools>>
        /\ tool.stage # "copied" /\ Recorded(main) <= Build[c]
    BY <1>2 DEF Open
  <2>2. s \in Stage /\ v \in 0..(N + 1)
    BY <1>1 DEF Stage
  <2>3. /\ s \in Applying => v \in 1..Build[c]
        /\ s \notin Rebuilding /\ s # "closed"
        /\ s = "verify" => v = Build[c] + 1
    BY <1>1, <2>1 DEF Applying, Rebuilding
  <2>4. Recorded(main') = Recorded(main) /\ Versioned(main')
    BY <1>1, <2>1
  <2> HIDE DEF s
  <2> QED
    BY <1>1, <2>1, <2>2, <2>3, <2>4, ConnTypes
<1>3. CASE Plain(c)
  <2>1. /\ conn[c].at \in 1..Build[c] /\ conn[c].at = Recorded(main) + 1
        /\ main' \in File /\ Versioned(main') /\ Recorded(main') = conn[c].at
    BY <1>3, PlainMain
  <2>2. /\ After(c) /\ conn[c].stage # "closed"
        /\ UNCHANGED <<snapshot, tool, faults, tools>>
    BY <1>3 DEF Plain, Commits
  <2>3. PICK s \in {"migrate", "verify"} :
           /\ Moves(c, s, conn[c].at + 1)
           /\ conn[c].at + 1 \in 0..(N + 1)
           /\ s = "migrate" => conn[c].at + 1 \in 1..Build[c]
           /\ s = "verify" => conn[c].at = Build[c]
    BY <2>1, <2>2, AfterStage
  <2> QED
    BY <1>1, <2>1, <2>2, <2>3, NotRestoring, ConnTypes DEF Stage, Applying, Rebuilding
<1>4. CASE Rebuild(c)
  <2>1. /\ conn[c].stage \in Applying /\ Rebuilds(conn[c].at)
        /\ conn[c].at \in 1..Build[c] /\ conn[c].at <= Recorded(main) + 1
        /\ main' \in File /\ Versioned(main')
        /\ Recorded(main') = IF conn[c].stage = "stamp" THEN conn[c].at ELSE Recorded(main)
        /\ conn[c].stage = "stamp" => conn[c].at = Recorded(main) + 1
    BY <1>4, RebuildMain DEF Rebuilt
  <2>2. conn[c].stage # "closed" /\ UNCHANGED <<snapshot, tool, faults, tools>>
    BY <1>4, <2>1 DEF Rebuild, Commits, Applying, Rebuilding
  <2>3. CASE conn[c].stage = "stamp"
    <3>1. PICK s \in {"migrate", "verify"} :
             /\ Moves(c, s, conn[c].at + 1)
             /\ conn[c].at + 1 \in 0..(N + 1)
             /\ s = "migrate" => conn[c].at + 1 \in 1..Build[c]
             /\ s = "verify" => conn[c].at = Build[c]
      BY <1>4, <2>1, <2>3, AfterStage DEF Rebuild
    <3> QED
      BY <1>1, <2>1, <2>2, <2>3, <3>1, NotRestoring, ConnTypes DEF Stage, Applying, Rebuilding
  <2>4. CASE conn[c].stage # "stamp"
    <3> DEFINE s == Following[conn[c].stage]
    <3>1. Moves(c, s, conn[c].at)
      BY <1>4, <2>4 DEF Rebuild
    <3>2. s \in Rebuilding
      BY <2>1, <2>4 DEF Following, Applying, Rebuilding
    <3>3. s \in Stage /\ s # "closed" /\ s # "verify"
      BY <3>2 DEF Stage, Rebuilding
    <3> HIDE DEF s
    <3> QED
      BY <1>1, <2>1, <2>2, <2>4, <3>1, <3>2, <3>3, NotRestoring, ConnTypes
  <2> QED
    BY <2>3, <2>4
<1>5. ASSUME conn[c].stage # "closed", UNCHANGED <<main, snapshot, tool, tools>>, faults' \in 0..MaxFaults,
             NEW s \in {"closed", "serving"}, Moves(c, s, 0)
      PROVE  TypeOK' /\ Bounded'
  <2>1. Recorded(main') = Recorded(main) /\ Versioned(main')
    BY <1>1, <1>5
  <2> QED
    BY <1>1, <1>5, <2>1, NotRestoring, ConnTypes DEF Stage, Applying, Rebuilding
<1>6. CASE Fails(c) \/ Verify(c) \/ Close(c)
  <2>1. /\ conn[c].stage # "closed" /\ UNCHANGED <<main, snapshot, tool, faults, tools>>
        /\ Moves(c, "closed", 0) \/ Moves(c, "serving", 0)
    BY <1>6 DEF Fails, GivesUp, InRebuild, Rebuilding, Verify, Close, Serving
  <2>2. faults' \in 0..MaxFaults
    BY <1>1, <2>1
  <2> QED
    BY <1>5, <2>1, <2>2
<1>7. CASE Kill(c)
  <2>1. conn[c].stage # "closed"
    BY <1>1, <1>7 DEF Kill, Bounded, InRange, Closed
  <2> QED
    BY <1>1, <1>5, <1>7, <2>1 DEF Kill, GivesUp
<1>8. CASE Write(c)
  <2>1. PICK x \in Docs : Commits(c, [main EXCEPT !.documents.rows = @ \cup {x}, !.written = @ \cup {x}])
    BY <1>8 DEF Write
  <2>2. main.documents # None /\ UNCHANGED <<snapshot, conn, tool, faults, tools>>
    BY <1>8, <2>1 DEF Write, Commits
  <2> DEFINE table == [main.documents EXCEPT !.rows = @ \cup {x}]
  <2>3. main.documents \in Table /\ table \in Table
    BY <1>1, <2>2 DEF File, Table
  <2>4. main' = [main EXCEPT !.documents = table, !.written = @ \cup {x}]
    BY <1>1, <2>1 DEF Commits, File
  <2> HIDE DEF table
  <2>5. main' \in File /\ main'.stamps = main.stamps
    BY <1>1, <2>3, <2>4 DEF File
  <2>6. Recorded(main') = Recorded(main) /\ Versioned(main')
    BY <1>1, <2>5, SameStamps
  <2> QED
    BY <1>1, <2>2, <2>5, <2>6 DEF TypeOK, Bounded, InRange, FilesKept, HistoryKept, Log, AllClosed, Versioned, Recorded
<1> QED
  BY <1>2, <1>3, <1>4, <1>6, <1>7, <1>8 DEF ConnStep

\* The steps of the tools.
ToolStep ==
  BackupCopies \/ BackupReplaces \/ RestoreCopies \/ RestoreReplaces \/ RestoreUnlinks \/ ToolKilled

\* The steps of the backup and the restore tools keep the types and the bounds.
LEMMA ToolTypeOK ==
  ASSUME TypeOK, Bounded, ToolStep
  PROVE  TypeOK' /\ Bounded'
<1>1. /\ main \in File /\ Versioned(main) /\ faults \in 0..MaxFaults /\ tools \in 0..MaxTools
      /\ MaxFaults \in Nat /\ MaxTools \in Nat /\ None \notin File
      /\ snapshot \in File \cup {None} /\ tool.file \in File \cup {None} /\ conn \in [Conns -> [stage : Stage, at : 0..(N + 1)]]
      /\ HistoryKept /\ wal \in {None, "own", "foreign", "replayed"}
  BY StartupConstantsOK DEF TypeOK, Versioned, Bounded
<1>2. CASE BackupCopies \/ BackupReplaces \/ RestoreCopies \/ RestoreUnlinks \/ ToolKilled
  <2>0. UNCHANGED <<main, conn>>
    BY <1>2 DEF BackupCopies, BackupReplaces, RestoreCopies, RestoreUnlinks, ToolKilled
  <2>1. UNCHANGED Recorded(main) /\ \A c \in Conns : InRange(c)'
    <3>1. UNCHANGED Recorded(main)
      BY <2>0 DEF Recorded
    <3>2. \A c \in Conns : InRange(c)
      BY DEF Bounded
    <3> QED
      BY <2>0, <3>1, <3>2 DEF InRange
  <2>2. wal' \in {wal, None} /\ faults' \in 0..MaxFaults /\ tools' \in 0..MaxTools
    <3>1. wal' \in {wal, None}
      BY <1>2 DEF BackupCopies, BackupReplaces, RestoreCopies, RestoreUnlinks, ToolKilled
    <3>2. /\ faults' = faults \/ (faults' = faults + 1 /\ faults < MaxFaults)
          /\ tools' = tools \/ (tools' = tools + 1 /\ tools < MaxTools)
      BY <1>2 DEF BackupCopies, BackupReplaces, RestoreCopies, RestoreUnlinks, ToolKilled
    <3> QED
      BY <1>1, <3>1, <3>2
  <2>6. HistoryKept'
    BY <1>1, <1>2 DEF BackupCopies, BackupReplaces, RestoreCopies, RestoreUnlinks, ToolKilled,
                      history, HistoryKept, Noted
  <2>3. /\ snapshot' \in {snapshot} \cup (IF tool.stage = "backup" THEN {tool.file} ELSE {})
        /\ \/ tool' = NoTool
           \/ tool' = [stage |-> "backup", file |-> main]
           \/ tool' = [stage |-> "copied", file |-> snapshot] /\ snapshot # None /\ AllClosed
    BY <1>2 DEF BackupCopies, BackupReplaces, RestoreCopies, RestoreUnlinks, ToolKilled, AllClosed
  <2>4. snapshot' \in File \cup {None} /\ (snapshot' # None => Versioned(snapshot'))
    BY <1>1, <2>3 DEF Bounded, FilesKept
  <2>5. /\ tool' \in [stage : {"none", "backup", "copied", "replaced"}, file : File \cup {None}]
        /\ tool'.stage \in {"backup", "copied"} => tool'.file # None
        /\ tool'.file # None => Versioned(tool'.file)
        /\ tool'.stage = "copied" => AllClosed
    BY <1>1, <2>3 DEF Bounded, FilesKept, NoTool
  <2> QED
    BY <1>1, <2>0, <2>1, <2>2, <2>4, <2>5, <2>6 DEF TypeOK, Bounded, FilesKept, HistoryKept, AllClosed
<1>3. CASE RestoreReplaces
  <2>1. AllClosed /\ tool.file # None /\ Versioned(tool.file)
    BY <1>3 DEF RestoreReplaces, Bounded, FilesKept
  <2>2. /\ main' \in File /\ Versioned(main') /\ wal' \in {None, "foreign"}
        /\ tool' = [stage |-> "replaced", file |-> None] /\ UNCHANGED <<snapshot, conn, faults, tools>>
        /\ HistoryKept'
    BY <1>1, <1>3, <2>1 DEF RestoreReplaces, history, HistoryKept
  <2>3. \A c \in Conns : InRange(c)'
    BY <2>1, <2>2 DEF AllClosed, InRange, Closed, Applying, Rebuilding
  <2> QED
    BY <1>1, <2>1, <2>2, <2>3 DEF TypeOK, Bounded, FilesKept, HistoryKept, AllClosed, Versioned
<1> QED
  BY <1>2, <1>3 DEF ToolStep

\* So does every step.
LEMMA NextTypeOK ==
  ASSUME TypeOK, Bounded, [Next]_vars
  PROVE  TypeOK' /\ Bounded'
<1>1. CASE Next
  BY <1>1, ConnTypeOK, ToolTypeOK DEF Next, ConnStep, ToolStep
<1>2. CASE UNCHANGED vars
  BY <1>2 DEF vars, history, TypeOK, Bounded, InRange, FilesKept, HistoryKept, AllClosed, Versioned, Recorded
<1> QED
  BY <1>1, <1>2

\* A database of version v, as an earlier build has left it.
LEMMA InitFile ==
  ASSUME Init
  PROVE  /\ main \in File /\ Versioned(main)
         /\ \E v \in 0..N : /\ main.stamps = 1..v /\ Recorded(main) = v
                            /\ IF v = 0 THEN main.documents = None /\ main.written = {}
                               ELSE /\ main.documents.columns = Columns[v]
                                    /\ main.documents \in Table
                                    /\ main.documents.rows = main.written
<1>1. PICK v \in 0..N, rows \in SUBSET Docs :
        main = [stamps |-> 1..v, copy |-> None,
                documents |-> IF v = 0 THEN None ELSE [columns |-> Columns[v], rows |-> rows],
                written |-> IF v = 0 THEN {} ELSE rows]
  BY DEF Init
<1>2. Recorded(main) = v
  BY <1>1, RecordedIs, Known
<1>3. [columns |-> Columns[v], rows |-> rows] \in Table
  BY ColumnsNamed DEF Table, Named
<1>4. 1..v \subseteq 1..N
  BY Known
<1>5. main \in File
  BY <1>1, <1>3, <1>4 DEF File
<1>6. IF v = 0 THEN main.documents = None /\ main.written = {}
      ELSE /\ main.documents.columns = Columns[v] /\ main.documents \in Table
           /\ main.documents.rows = main.written
  BY <1>1, <1>3
<1> QED
  BY <1>1, <1>2, <1>5, <1>6 DEF Versioned

\* The initial states have the types and keep the bounds.
LEMMA InitTypeOK == Init => TypeOK /\ Bounded
<1> SUFFICES ASSUME Init PROVE TypeOK /\ Bounded
  OBVIOUS
<1>1. main \in File /\ Versioned(main)
  BY InitFile
<1>2. /\ wal = None /\ snapshot = None /\ tool = NoTool /\ faults = 0 /\ tools = 0
      /\ conn = [c \in Conns |-> Closed]
      /\ outdated = {} /\ cut = {} /\ mishaps = {}
  BY DEF Init
<1>3. TypeOK
  BY <1>1, <1>2, Known, StartupConstantsOK DEF TypeOK, Versioned, NoTool, Closed, Stage
<1>4. Bounded
  BY <1>2 DEF Bounded, InRange, FilesKept, HistoryKept, NoTool, Closed, Applying, Rebuilding
<1> QED
  BY <1>3, <1>4

\* Every variable keeps its type, and the recorded versions have no gap, whoever opens,
\* upgrades, backs up, restores or is killed (_apply_migration, backup.py).
THEOREM TypeCorrect == Spec => []TypeOK
<1>1. Init => TypeOK /\ Bounded
  BY InitTypeOK
<1>2. (TypeOK /\ Bounded) /\ [Next]_vars => (TypeOK /\ Bounded)'
  BY NextTypeOK
<1> QED
  BY <1>1, <1>2, PTL DEF Spec

-----------------------------------------------------------------------------
(***************************************************************************)
(* Documents.  As long as no rebuild has begun without the table, and none *)
(* has dropped a table that has changed since it copied it, a database and *)
(* every copy of its file hold all that was written, in the table or, when *)
(* there is none, in the copy of it.                                       *)
(***************************************************************************)
Base == TypeOK /\ Bounded

Accounted == mishaps \cap {"torn", "rerun", "outdated"} = {}

\* The copy never holds more than the documents, and there is none before documents is created.
Holds(d) ==
  /\ d.documents # None => d.documents.rows = d.written
  /\ d.documents = None => d.written \subseteq Rows(d.copy)
  /\ Rows(d.copy) \subseteq d.written
  /\ Recorded(d) = 0 => d.documents = None /\ d.copy = None

\* A connection that has filled its copy, and has missed nothing since, may drop the table.
Copied(c) ==
  conn[c].stage = "drop" /\ c \notin outdated =>
    main.copy # None /\ main.documents # None /\ main.documents.rows \subseteq main.copy.rows

FilesHold ==
  /\ Holds(main)
  /\ snapshot # None => Holds(snapshot)
  /\ tool.file # None => Holds(tool.file)

NothingMissed == Accounted => FilesHold /\ \A c \in Conns : Copied(c)

\* The history only grows.
LEMMA MishapsStay ==
  ASSUME [Next]_vars
  PROVE  mishaps \subseteq mishaps' /\ cut \subseteq cut'
<1>1. ASSUME NEW c \in Conns, ConnStep(c) PROVE mishaps \subseteq mishaps' /\ cut \subseteq cut'
  BY <1>1 DEF ConnStep, Open, Plain, Rebuild, Fails, Verify, Write, Close, Kill, history
<1>2. CASE ToolStep
  BY <1>2 DEF ToolStep, BackupCopies, BackupReplaces, RestoreCopies, RestoreReplaces, RestoreUnlinks,
              ToolKilled, history
<1>3. CASE UNCHANGED vars
  BY <1>3 DEF vars, history
<1> QED
  BY <1>1, <1>2, <1>3 DEF Next, ConnStep, ToolStep

\* A file that has the same contents holds the same.
LEMMA HoldsNext ==
  /\ Holds(main)' <=> Holds(main')
  /\ Holds(snapshot)' <=> Holds(snapshot')
  /\ Holds(tool.file)' <=> Holds(tool'.file)
  BY DEF Holds, Rows, Recorded

\* A commit leaves the others that are about to drop behind.
LEMMA CommitMisses ==
  ASSUME Base, NothingMissed, Accounted, NEW c \in Conns, NEW d, Commits(c, d),
         \A e \in Conns \ {c} : conn'[e] = conn[e],
         UNCHANGED <<snapshot, tool>>, Holds(main'), Copied(c)'
  PROVE  FilesHold' /\ \A e \in Conns : Copied(e)'
<1>1. ASSUME NEW e \in Conns \ {c} PROVE Copied(e)'
  BY <1>1 DEF Commits, Copied
<1>2. FilesHold'
  BY HoldsNext DEF NothingMissed, FilesHold
<1> QED
  BY <1>1, <1>2

\* A table is created, or a column added.
LEMMA PlainHolds ==
  ASSUME Base, NothingMissed, Accounted, NEW c \in Conns, Plain(c)
  PROVE  FilesHold' /\ \A e \in Conns : Copied(e)'
<1> DEFINE v == conn[c].at
<1>1. /\ v \in 1..Build[c] /\ v = Recorded(main) + 1
      /\ main' \in File /\ Recorded(main') = v
      /\ main'.copy = main.copy /\ main'.written = main.written
      /\ v = 1 => main'.documents = IF main.documents = None
                                      THEN [columns |-> Migrations[v].columns, rows |-> {}]
                                      ELSE main.documents
      /\ v # 1 => /\ main.documents # None /\ main'.documents # None
                  /\ main'.documents.rows = main.documents.rows
  BY PlainMain DEF Base
<1>2. Holds(main) /\ Build[c] \in 1..N /\ N \in Nat
  BY Known DEF NothingMissed, FilesHold
<1>3. /\ \E d : Commits(c, d)
      /\ After(c) /\ UNCHANGED <<snapshot, tool>>
  BY DEF Plain
<1>4. Holds(main')
  <2>1. CASE v = 1
    <3>1. main.documents = None /\ main.copy = None
      BY <1>1, <1>2, <2>1, RecordedType DEF Holds, Base, TypeOK
    <3>2. main.written = {}
      BY <1>2, <3>1 DEF Holds, Rows
    <3>3. main'.documents.rows = {}
      BY <1>1, <2>1, <3>1
    <3>4. main'.documents # None
      <4>1. [columns |-> Migrations[v].columns, rows |-> {}] \in Table
        BY <1>1, <1>2, Known DEF Table, Named
      <4> QED
        BY <1>1, <2>1, <3>1, <4>1, StartupConstantsOK
    <3> QED
      BY <1>1, <2>1, <3>1, <3>2, <3>3, <3>4 DEF Holds, Rows
  <2>2. CASE v # 1
    BY <1>1, <1>2, <2>2 DEF Holds, Rows
  <2> QED
    BY <2>1, <2>2
<1>5. PICK s \in {"migrate", "verify"} : Moves(c, s, v + 1) /\ v + 1 \in 0..(N + 1)
  BY <1>1, <1>3, AfterStage
<1>6. conn'[c].stage = s /\ \A e \in Conns \ {c} : conn'[e] = conn[e]
  <2>1. conn'[c] = [stage |-> s, at |-> v + 1] /\ \A e \in Conns \ {c} : conn'[e] = conn[e]
    BY <1>5, Moved DEF Base, Stage
  <2> QED
    BY <2>1
<1>7. Copied(c)'
  BY <1>6 DEF Copied
<1> QED
  BY <1>3, <1>4, <1>6, <1>7, CommitMisses

\* A statement of a rebuild, or its record, that the history finds no fault with.
LEMMA RebuildHolds ==
  ASSUME Base, NothingMissed, Accounted, Accounted', NEW c \in Conns, Rebuild(c)
  PROVE  FilesHold' /\ \A e \in Conns : Copied(e)'
<1> DEFINE s == conn[c].stage
           v == conn[c].at
<1>1. /\ s \in Applying /\ Rebuilds(v) /\ v \in 1..Build[c] /\ v <= Recorded(main) + 1
      /\ main' \in File /\ main'.written = main.written /\ Rebuilt(c)
      /\ Recorded(main') = IF s = "stamp" THEN v ELSE Recorded(main)
  BY RebuildMain DEF Base
<1>2. /\ \E d : Commits(c, d)
      /\ UNCHANGED <<snapshot, tool>>
      /\ s = "stamp" => After(c)
      /\ s # "stamp" => Moves(c, Following[s], v)
      /\ s = "migrate" /\ main.documents = None => "rerun" \in mishaps'
      /\ s = "drop" /\ c \in outdated => "outdated" \in mishaps'
  BY DEF Rebuild, Noted
<1>3. Holds(main) /\ Copied(c)
  BY DEF NothingMissed, FilesHold
<1>4. Recorded(main) # 0 /\ Recorded(main') # 0
  <2>1. v # 1 /\ v \in 1..N /\ N \in Nat /\ Recorded(main) \in 0..N
    BY <1>1, Known, RecordedType DEF Base, TypeOK
  <2> QED
    BY <1>1, <2>1
<1>5. Holds(main')
  <2>1. CASE s = "migrate"
    BY <1>1, <1>2, <1>3, <1>4, <2>1 DEF Accounted, Rebuilt, Holds, Rows
  <2>2. CASE s = "create"
    <3>1. main.copy = None /\ main'.documents = main.documents /\ main'.copy.rows = {}
      BY <1>1, <2>2 DEF Rebuilt
    <3> QED
      BY <1>1, <1>3, <1>4, <3>1 DEF Holds, Rows
  <2>3. CASE s = "fill"
    BY <1>1, <1>3, <1>4, <2>3 DEF Rebuilt, Holds, Rows
  <2>4. CASE s = "drop"
    <3>1. main.documents # None /\ main'.documents = None /\ main'.copy = main.copy
      BY <1>1, <2>4 DEF Rebuilt
    <3>2. main.copy # None /\ main.documents.rows \subseteq main.copy.rows
      BY <1>2, <1>3, <2>4 DEF Accounted, Copied
    <3> QED
      BY <1>1, <1>3, <1>4, <3>1, <3>2 DEF Holds, Rows
  <2>5. CASE s = "rename"
    <3>1. main.copy # None /\ main.documents = None /\ main'.documents = main.copy /\ main'.copy = None
      BY <1>1, <2>5 DEF Rebuilt
    <3>2. main.copy.rows = main.written
      BY <1>3, <3>1 DEF Holds, Rows
    <3> QED
      BY <1>1, <1>4, <3>1, <3>2 DEF Holds, Rows
  <2>6. CASE s = "stamp"
    BY <1>1, <1>3, <1>4, <2>6 DEF Rebuilt, Holds, Rows
  <2> QED
    BY <1>1, <2>1, <2>2, <2>3, <2>4, <2>5, <2>6 DEF Applying, Rebuilding
<1>6. PICK next \in Stage, u \in 0..(N + 1) :
         Moves(c, next, u) /\ (next = "drop" => s = "fill")
  <2>1. CASE s = "stamp"
    BY <1>1, <1>2, <2>1, AfterStage DEF Stage
  <2>2. CASE s # "stamp"
    <3>1. Following[s] \in Stage /\ (Following[s] = "drop" => s = "fill")
      BY <1>1, <2>2 DEF Following, Applying, Rebuilding, Stage
    <3>2. v \in 0..(N + 1)
      BY <1>1, Known
    <3> QED
      BY <1>2, <2>2, <3>1, <3>2
  <2> QED
    BY <2>1, <2>2
<1>7. conn'[c].stage = next /\ \A e \in Conns \ {c} : conn'[e] = conn[e]
  <2>1. conn'[c] = [stage |-> next, at |-> u] /\ \A e \in Conns \ {c} : conn'[e] = conn[e]
    BY <1>6, Moved DEF Base
  <2> QED
    BY <2>1
<1>8. Copied(c)'
  BY <1>1, <1>6, <1>7 DEF Copied, Rebuilt
<1> QED
  BY <1>2, <1>5, <1>7, <1>8, CommitMisses

\* A request writes a document.
LEMMA WriteHolds ==
  ASSUME Base, NothingMissed, Accounted, NEW c \in Conns, Write(c)
  PROVE  FilesHold' /\ \A e \in Conns : Copied(e)'
<1>1. PICK x \in Docs : Commits(c, [main EXCEPT !.documents.rows = @ \cup {x}, !.written = @ \cup {x}])
  BY DEF Write
<1>2. /\ conn[c].stage = "serving" /\ main.documents # None /\ UNCHANGED <<snapshot, conn, tool>>
      /\ Holds(main)
  BY DEF Write, Serving, NothingMissed, FilesHold
<1>3. main \in File /\ main.documents \in Table
  BY <1>2 DEF Base, TypeOK, File
<1> DEFINE table == [main.documents EXCEPT !.rows = @ \cup {x}]
<1>4. table \in Table /\ table.rows = main.documents.rows \cup {x}
  BY <1>3 DEF Table
<1>5. main' = [main EXCEPT !.documents = table, !.written = @ \cup {x}]
  BY <1>1, <1>3 DEF Commits, File
<1> HIDE DEF table
<1>6. /\ main'.documents = table /\ main'.written = main.written \cup {x} /\ main'.stamps = main.stamps
      /\ main'.copy = main.copy
  BY <1>3, <1>5 DEF File
<1>7. Recorded(main') = Recorded(main) /\ table # None
  BY <1>4, <1>6, SameStamps, StartupConstantsOK
<1>8. Holds(main')
  BY <1>2, <1>4, <1>6, <1>7 DEF Holds, Rows
<1>9. Copied(c)'
  BY <1>2 DEF Copied
<1> QED
  BY <1>1, <1>2, <1>8, <1>9, CommitMisses

\* A connection is opened or closed, verified, given up or killed: it commits nothing.
LEMMA QuietHolds ==
  ASSUME Base, NothingMissed, Accounted, NEW c \in Conns,
         Open(c) \/ Fails(c) \/ Verify(c) \/ Close(c) \/ Kill(c)
  PROVE  FilesHold' /\ \A e \in Conns : Copied(e)'
<1>1. UNCHANGED <<main, snapshot, tool>> /\ outdated \ {c} \subseteq outdated'
  BY DEF Open, Fails, GivesUp, Verify, Close, Kill, history
<1>2. PICK s \in {"migrate", "verify", "serving", "closed"}, v \in 0..(N + 1) : Moves(c, s, v)
  <2>1. Recorded(main) + 1 \in 0..(N + 1) /\ 0 \in 0..(N + 1)
    BY RecordedType, Known DEF Base, TypeOK
  <2>2. CASE Open(c)
    BY <2>1, <2>2 DEF Open
  <2>3. CASE Fails(c) \/ Verify(c) \/ Close(c) \/ Kill(c)
    BY <2>1, <2>3 DEF Fails, GivesUp, Verify, Close, Kill
  <2> QED
    BY <2>2, <2>3
<1>3. conn'[c].stage # "drop" /\ \A e \in Conns \ {c} : conn'[e] = conn[e]
  <2>1. conn'[c] = [stage |-> s, at |-> v] /\ \A e \in Conns \ {c} : conn'[e] = conn[e]
    BY <1>2, Moved DEF Base, Stage
  <2> QED
    BY <2>1
<1>4. FilesHold'
  BY <1>1, HoldsNext DEF NothingMissed, FilesHold
<1> QED
  BY <1>1, <1>3, <1>4 DEF NothingMissed, Copied

\* A snapshot holds what the database held, and a restored database what the snapshot does.
LEMMA ToolHolds ==
  ASSUME Base, NothingMissed, Accounted, ToolStep
  PROVE  FilesHold' /\ \A e \in Conns : Copied(e)'
<1>1. /\ Holds(main) /\ (snapshot # None => Holds(snapshot)) /\ (tool.file # None => Holds(tool.file))
      /\ \A e \in Conns : Copied(e)
  BY DEF NothingMissed, FilesHold
<1>2. CASE RestoreReplaces
  <2>1. /\ AllClosed /\ tool.file # None /\ main' = tool.file /\ tool'.file = None
        /\ UNCHANGED <<snapshot, conn>>
    BY <1>2 DEF RestoreReplaces, Base, Bounded, FilesKept
  <2>2. FilesHold'
    BY <1>1, <2>1, HoldsNext DEF FilesHold
  <2> QED
    BY <2>1, <2>2 DEF AllClosed, Closed, Copied
<1>3. CASE BackupCopies \/ BackupReplaces \/ RestoreCopies \/ RestoreUnlinks \/ ToolKilled
  <2>1. /\ UNCHANGED <<main, conn, outdated>>
        /\ snapshot' = snapshot \/ (snapshot' = tool.file /\ tool.file # None)
        /\ tool'.file \in {None, main, snapshot}
    <3>1. tool.stage = "backup" => tool.file # None
      BY DEF Base, Bounded, FilesKept
    <3>2. UNCHANGED <<main, conn, outdated>>
      BY <1>3 DEF BackupCopies, BackupReplaces, RestoreCopies, RestoreUnlinks, ToolKilled, history
    <3>3. snapshot' = snapshot \/ (snapshot' = tool.file /\ tool.file # None)
      BY <1>3, <3>1 DEF BackupCopies, BackupReplaces, RestoreCopies, RestoreUnlinks, ToolKilled
    <3>4. \/ tool' = NoTool
          \/ tool' = [stage |-> "backup", file |-> main]
          \/ tool' = [stage |-> "copied", file |-> snapshot]
      BY <1>3 DEF BackupCopies, BackupReplaces, RestoreCopies, RestoreUnlinks, ToolKilled
    <3>5. tool'.file \in {None, main, snapshot}
      BY <3>4 DEF NoTool
    <3> QED
      BY <3>2, <3>3, <3>5
  <2>2. FilesHold'
    BY <1>1, <2>1, HoldsNext DEF FilesHold
  <2> QED
    BY <1>1, <2>1, <2>2 DEF Copied
<1> QED
  BY <1>2, <1>3 DEF ToolStep

\* Every step keeps the invariant.
LEMMA NextHolds ==
  ASSUME Base, NothingMissed, [Next]_vars
  PROVE  NothingMissed'
<1> SUFFICES ASSUME Accounted' PROVE FilesHold' /\ \A e \in Conns : Copied(e)'
  BY DEF NothingMissed
<1>1. Accounted
  BY MishapsStay DEF Accounted
<1>2. ASSUME NEW c \in Conns, ConnStep(c) PROVE FilesHold' /\ \A e \in Conns : Copied(e)'
  BY <1>1, <1>2, PlainHolds, RebuildHolds, WriteHolds, QuietHolds DEF ConnStep
<1>3. CASE UNCHANGED vars
  <2>1. UNCHANGED <<main, snapshot, conn, tool, outdated>>
    BY <1>3 DEF vars, history
  <2> QED
    BY <1>1, <2>1, HoldsNext DEF NothingMissed, FilesHold, Copied
<1> QED
  BY <1>1, <1>2, <1>3, ToolHolds DEF Next, ConnStep, ToolStep

\* An earlier build has left every document in the table.
LEMMA InitHolds == Init => NothingMissed
<1> SUFFICES ASSUME Init PROVE FilesHold /\ \A c \in Conns : Copied(c)
  BY DEF NothingMissed
<1>1. /\ snapshot = None /\ tool.file = None /\ main.copy = None
      /\ \A c \in Conns : conn[c].stage = "closed"
  BY DEF Init, NoTool, Closed
<1>2. PICK v \in 0..N : /\ Recorded(main) = v
                        /\ IF v = 0 THEN main.documents = None /\ main.written = {}
                           ELSE main.documents \in Table /\ main.documents.rows = main.written
  BY InitFile
<1>3. v # 0 => main.documents # None
  BY <1>2, StartupConstantsOK
<1>4. Holds(main)
  BY <1>1, <1>2, <1>3 DEF Holds, Rows
<1> QED
  BY <1>1, <1>4 DEF FilesHold, Copied

\* Whatever is killed or fails in the middle of an upgrade, however many processes open and
\* upgrade the database at once, and whenever it is backed up or restored: a document is
\* missing only after a rebuild began where the table had been dropped, or dropped a table
\* that had changed since it was copied, or after a restore was torn (_apply_migration).
THEOREM LossIsExplained == Spec => []LossHasACause
<1>1. Init => Base /\ NothingMissed
  BY InitTypeOK, InitHolds DEF Base
<1>2. (Base /\ NothingMissed) /\ [Next]_vars => (Base /\ NothingMissed)'
  BY NextTypeOK, NextHolds DEF Base
<1>3. Base /\ NothingMissed => LossHasACause
  BY DEF NothingMissed, Accounted, FilesHold, Holds, LossHasACause
<1> QED
  BY <1>1, <1>2, <1>3, PTL DEF Spec

-----------------------------------------------------------------------------
(***************************************************************************)
(* What is served.  As long as no rebuild has been made beside another     *)
(* connection or a backup, nothing but its own next statement, an error or *)
(* a kill can come between the statements of a rebuild.  So the database   *)
(* has the columns of its version, unless the rebuild after it is between  *)
(* its DROP and its record, or was killed there; and then only a build     *)
(* that does not know the rebuild can still reach the verification.        *)
(***************************************************************************)
Uncrossed == "crossed" \notin mishaps

\* The rebuilds that have dropped the table and have not been recorded.
Renaming(c) == conn[c].stage \in {"rename", "stamp"}
Half        == cut \cup {conn[c].at : c \in {c \in Conns : Renaming(c)}}

\* A database with every document and the columns of its version, half rebuilds apart.
Settled(d, half) ==
  /\ d.documents # None => d.documents.rows = d.written
  /\ Recorded(d) = 0 => d.documents = None /\ d.written = {}
  /\ Recorded(d) # 0 /\ Recorded(d) + 1 \notin half =>
       d.documents # None /\ d.documents.columns = Columns[Recorded(d)]

\* What the statements of a rebuild have left for the next one.
RebuildKept(c) ==
  /\ conn[c].stage \in {"fill", "drop", "rename"} =>
       main.copy # None /\ main.copy.columns = Columns[conn[c].at]
  /\ conn[c].stage = "fill" => main.copy.rows = {}
  /\ conn[c].stage \in {"drop", "rename"} => main.copy.rows = main.written
  /\ conn[c].stage = "rename" => main.documents = None
  /\ conn[c].stage = "stamp" => main.documents # None /\ main.documents.columns = Columns[conn[c].at]

Alone(c) ==
  /\ conn[c].stage \in Rebuilding => Others(c) = {}
  /\ InRebuild(c) => conn[c].at = Recorded(main) + 1

FilesSettled ==
  /\ Settled(main, Half)
  /\ snapshot # None => Settled(snapshot, cut)
  /\ tool.file # None => Settled(tool.file, cut)

\* The table has the columns that the program of the connection needs.
Offers(c)  == main.documents # None /\ Columns[Build[c]] \subseteq main.documents.columns
Offered(c) == conn[c].stage \in {"verify", "serving"} /\ (\A v \in cut : v <= Build[c]) => Offers(c)

Upgraded == (\A c \in Conns : Alone(c) /\ RebuildKept(c) /\ Offered(c)) /\ FilesSettled

\* More half rebuilds ask less of a database.
LEMMA SettledMore ==
  ASSUME NEW d, NEW half, NEW more, half \subseteq more, Settled(d, half)
  PROVE  Settled(d, more)
  BY DEF Settled

\* A file that has the same contents is settled as well.
LEMMA SettledNext ==
  /\ Settled(main, Half)' <=> Settled(main', Half')
  /\ Settled(snapshot, cut)' <=> Settled(snapshot', cut')
  /\ Settled(tool.file, cut)' <=> Settled(tool'.file, cut')
  BY DEF Settled, Recorded

\* While one connection is open, no other one rebuilds.
LEMMA OthersQuiet ==
  ASSUME Upgraded, NEW c \in Conns, conn[c] # Closed, NEW d \in Conns \ {c}
  PROVE  conn[d].stage \notin Rebuilding
  BY DEF Upgraded, Alone, Others

\* What a connection does keeps the invariant if it keeps its own part of it.
LEMMA ConnUpgraded ==
  ASSUME Base, Upgraded, NEW c \in Conns, NEW s \in Stage, NEW v \in 0..(N + 1), Moves(c, s, v),
         UNCHANGED <<snapshot, tool>>, cut \subseteq cut',
         \A d \in Conns \ {c} : conn[d].stage \notin Rebuilding,
         s \in Rebuilding => Others(c) = {},
         Recorded(main') = Recorded(main) \/ \A d \in Conns \ {c} : ~InRebuild(d),
         s \in Rebuilding \/ (s = "migrate" /\ Rebuilds(v)) => v = Recorded(main') + 1,
         RebuildKept(c)',
         Settled(main', cut' \cup (IF s \in {"rename", "stamp"} THEN {v} ELSE {})),
         \A d \in Conns \ {c} : conn[d].stage \in {"verify", "serving"} /\ Offers(d) => Offers(d)',
         s \in {"verify", "serving"} /\ (\A u \in cut' : u <= Build[c]) => Offers(c)'
  PROVE  Upgraded'
<1>0. /\ conn'[c] = [stage |-> s, at |-> v]
      /\ \A d \in Conns \ {c} : conn'[d] = conn[d]
  BY Moved DEF Base
<1>1. conn'[c].stage = s /\ conn'[c].at = v
  BY <1>0
<1>2. ASSUME NEW d \in Conns PROVE Alone(d)'
  <2>1. Recorded(main)' = Recorded(main')
    BY DEF Recorded
  <2>2. CASE d = c
    <3>1. s \in Rebuilding => Others(c)' = {}
      BY <1>0 DEF Others
    <3> QED
      BY <1>1, <2>1, <2>2, <3>1 DEF Alone, InRebuild
  <2>3. CASE d # c
    <3>1. conn'[d] = conn[d] /\ conn'[d].stage \notin Rebuilding
      BY <1>0, <2>3
    <3>2. InRebuild(d)' => InRebuild(d)
      BY <3>1 DEF InRebuild
    <3>3. InRebuild(d) => conn[d].at = Recorded(main) + 1
      BY DEF Upgraded, Alone
    <3> QED
      BY <2>1, <2>3, <3>1, <3>2, <3>3 DEF Alone
  <2> QED
    BY <2>2, <2>3
<1>3. ASSUME NEW d \in Conns PROVE RebuildKept(d)'
  <2>1. CASE d = c
    BY <2>1
  <2>2. CASE d # c
    <3>1. conn'[d].stage \notin Rebuilding
      BY <1>0, <2>2
    <3> QED
      BY <3>1 DEF RebuildKept, Rebuilding
  <2> QED
    BY <2>1, <2>2
<1>4. ASSUME NEW d \in Conns PROVE Offered(d)'
  <2>1. CASE d = c
    BY <1>1, <2>1 DEF Offered
  <2>2. CASE d # c
    BY <1>0, <2>2 DEF Upgraded, Offered
  <2> QED
    BY <2>1, <2>2
<1>5. Half' = cut' \cup (IF s \in {"rename", "stamp"} THEN {v} ELSE {})
  <2>1. \A d \in Conns \ {c} : ~Renaming(d)'
    BY <1>0 DEF Renaming, Rebuilding
  <2>2. Renaming(c)' <=> s \in {"rename", "stamp"}
    BY <1>1 DEF Renaming
  <2> QED
    BY <1>1, <2>1, <2>2 DEF Half
<1>6. FilesSettled'
  <2>1. Settled(main', Half')
    BY <1>5
  <2>2. /\ snapshot' # None => Settled(snapshot', cut')
        /\ tool'.file # None => Settled(tool'.file, cut')
    BY SettledMore DEF Upgraded, FilesSettled
  <2> QED
    BY <2>1, <2>2, SettledNext DEF FilesSettled
<1> QED
  BY <1>2, <1>3, <1>4, <1>6 DEF Upgraded

\* The half rebuilds are those that were cut short, and that of the only open connection.
LEMMA HalfIs ==
  ASSUME Base, Upgraded, NEW c \in Conns, \A d \in Conns \ {c} : conn[d].stage \notin Rebuilding
  PROVE  /\ Half = cut \cup (IF Renaming(c) THEN {conn[c].at} ELSE {})
         /\ \A v \in Half : Rebuilds(v)
<1>1. \A d \in Conns \ {c} : ~Renaming(d)
  BY DEF Renaming, Rebuilding
<1>2. Renaming(c) => Rebuilds(conn[c].at)
  BY DEF Base, Bounded, InRange, Renaming, Rebuilding
<1>3. \A v \in cut : Rebuilds(v)
  BY DEF Base, Bounded, HistoryKept
<1>4. Half = cut \cup (IF Renaming(c) THEN {conn[c].at} ELSE {})
  BY <1>1 DEF Half
<1> QED
  BY <1>2, <1>3, <1>4

\* A connection is opened.
LEMMA OpenUpgraded ==
  ASSUME Base, Upgraded, Uncrossed', NEW c \in Conns, Open(c)
  PROVE  Upgraded'
<1> DEFINE s == IF Recorded(main) = Build[c] THEN "verify" ELSE "migrate"
           v == Recorded(main) + 1
<1>1. /\ Moves(c, s, v) /\ UNCHANGED <<main, snapshot, tool, cut>>
      /\ \A d \in Conns : conn[d].stage \notin Rebuilding
  BY DEF Open, Noted, Uncrossed
<1>2. Half = cut
  BY <1>1 DEF Half, Renaming, Rebuilding
<1>3. Settled(main, cut)
  BY <1>2 DEF Upgraded, FilesSettled
<1>4. Recorded(main) \in 0..N /\ Build[c] \in 1..N /\ N \in Nat
  BY RecordedType, Known DEF Base, TypeOK
<1>5. s = "verify" /\ (\A u \in cut : u <= Build[c]) => Offers(c)'
  <2> SUFFICES ASSUME Recorded(main) = Build[c], \A u \in cut : u <= Build[c] PROVE Offers(c)'
    BY <1>1
  <2>1. Recorded(main) + 1 \notin cut /\ Recorded(main) # 0
    BY <1>4
  <2> QED
    BY <1>1, <1>3, <2>1 DEF Settled, Offers
<1>6. \A d \in Conns \ {c} : Offers(d) => Offers(d)'
  BY <1>1 DEF Offers
<1>7. s \in Stage /\ v \in 0..(N + 1) /\ s \in {"migrate", "verify"}
  BY <1>4 DEF Stage
<1>8. RebuildKept(c)'
  <2>1. conn'[c] = [stage |-> s, at |-> v]
    BY <1>1, <1>7, Moved DEF Base
  <2>2. conn'[c].stage \in {"migrate", "verify"}
    BY <1>7, <2>1
  <2> QED
    BY <2>2 DEF RebuildKept
<1>9. /\ Settled(main', cut') /\ v = Recorded(main') + 1 /\ Recorded(main') = Recorded(main)
      /\ s \notin Rebuilding /\ s # "serving"
  BY <1>1, <1>3 DEF Rebuilding
<1>10. s \notin {"rename", "stamp"} /\ cut' = cut
  BY <1>1
<1> HIDE DEF s, v
<1> QED
  BY <1>1, <1>5, <1>6, <1>7, <1>8, <1>9, <1>10, ConnUpgraded

\* A table is created, or a column added.
LEMMA PlainUpgraded ==
  ASSUME Base, Upgraded, NEW c \in Conns, Plain(c)
  PROVE  Upgraded'
<1> DEFINE v == conn[c].at
<1>1. /\ v \in 1..Build[c] /\ v = Recorded(main) + 1 /\ ~Rebuilds(v)
      /\ main' \in File /\ Recorded(main') = v /\ main'.written = main.written
      /\ v = 1 => main'.documents = IF main.documents = None
                                      THEN [columns |-> Migrations[v].columns, rows |-> {}]
                                      ELSE main.documents
      /\ v # 1 => /\ main.documents # None /\ main'.documents # None
                  /\ main'.documents.columns = main.documents.columns \cup Migrations[v].columns
                  /\ main'.documents.rows = main.documents.rows
  BY PlainMain DEF Base
<1>2. conn[c].stage = "migrate" /\ After(c) /\ UNCHANGED <<snapshot, tool, cut>>
  BY DEF Plain
<1>3. \A d \in Conns \ {c} : conn[d].stage \notin Rebuilding
  <2>1. conn[c] # Closed
    BY <1>2 DEF Closed
  <2> QED
    BY <2>1, OthersQuiet
<1>4. Build[c] \in 1..N /\ N \in Nat /\ v \in 1..N /\ Recorded(main) \in 0..N
  BY <1>1, Known, RecordedType DEF Base, TypeOK
<1>5. Columns[v] = Unfolded(Columns, v) /\ Migrations[v].kind = IF v = 1 THEN "create" ELSE "alter"
  BY <1>1, <1>4, ColumnsUnfold, Known
<1>6. Settled(main, Half) /\ v \notin Half
  BY <1>1, <1>3, HalfIs DEF Upgraded, FilesSettled
<1>7. main'.documents # None /\ main'.documents.columns = Columns[v] /\ main'.documents.rows = main'.written
  <2>1. CASE v = 1
    <3>1. Recorded(main) = 0
      BY <1>1, <1>4, <2>1
    <3>2. main.documents = None /\ main.written = {}
      BY <1>6, <3>1 DEF Settled
    <3>3. main'.documents = [columns |-> Migrations[v].columns, rows |-> {}]
      BY <1>1, <2>1, <3>2
    <3>4. [columns |-> Migrations[v].columns, rows |-> {}] \in Table
      BY <1>4, Known DEF Table, Named
    <3>5. main'.documents # None
      BY <3>3, <3>4, StartupConstantsOK
    <3>6. Columns[v] = Migrations[v].columns
      BY <1>5, <2>1 DEF Unfolded
    <3> QED
      BY <1>1, <3>2, <3>3, <3>5, <3>6
  <2>2. CASE v # 1
    <3>1. Recorded(main) # 0 /\ Recorded(main) = v - 1
      BY <1>1, <1>4, <2>2
    <3>2. main.documents.rows = main.written /\ main.documents.columns = Columns[v - 1]
      BY <1>1, <1>6, <2>2, <3>1 DEF Settled
    <3>3. Columns[v] = Columns[v - 1] \cup Migrations[v].columns
      BY <1>4, <1>5, <2>2 DEF Unfolded
    <3> QED
      BY <1>1, <2>2, <3>2, <3>3
  <2> QED
    BY <2>1, <2>2
<1>8. Settled(main', cut')
  BY <1>1, <1>4, <1>7 DEF Settled
<1>9. \A d \in Conns \ {c} : Offers(d) => Offers(d)'
  <2> SUFFICES ASSUME NEW d \in Conns \ {c}, Offers(d) PROVE Offers(d)'
    OBVIOUS
  <2>1. main.documents # None /\ Columns[Build[d]] \subseteq main.documents.columns
    BY DEF Offers
  <2>2. CASE v = 1
    BY <1>1, <2>1, <2>2 DEF Offers
  <2>3. CASE v # 1
    BY <1>1, <2>1, <2>3 DEF Offers
  <2> QED
    BY <2>2, <2>3
<1>10. PICK s \in {"migrate", "verify"} :
         /\ Moves(c, s, v + 1) /\ v + 1 \in 0..(N + 1)
         /\ s = "verify" => v = Build[c]
  BY <1>1, <1>2, AfterStage
<1>11. RebuildKept(c)'
  <2>1. conn'[c] = [stage |-> s, at |-> v + 1]
    BY <1>10, Moved DEF Base, Stage
  <2> QED
    BY <2>1 DEF RebuildKept
<1>12. s = "verify" => Offers(c)'
  BY <1>7, <1>10 DEF Offers
<1>13. \A d \in Conns \ {c} : ~InRebuild(d)
  <2> SUFFICES ASSUME NEW d \in Conns \ {c}, InRebuild(d) PROVE FALSE
    OBVIOUS
  <2>1. conn[d].at = v /\ Rebuilds(conn[d].at)
    BY <1>1, <1>3 DEF Upgraded, Alone, InRebuild
  <2> QED
    BY <1>1, <2>1
<1>14. s \notin Rebuilding /\ s \in Stage /\ s # "serving" /\ s \notin {"rename", "stamp"}
  BY DEF Rebuilding, Stage
<1> HIDE DEF v
<1> QED
  BY <1>1, <1>2, <1>3, <1>8, <1>9, <1>10, <1>11, <1>12, <1>13, <1>14, ConnUpgraded

\* A statement of a rebuild, or its record, beside no other connection.
LEMMA RebuildUpgraded ==
  ASSUME Base, Upgraded, Uncrossed', NEW c \in Conns, Rebuild(c)
  PROVE  Upgraded'
<1> DEFINE s == conn[c].stage
           v == conn[c].at
<1>1. /\ s \in Applying /\ Rebuilds(v) /\ v \in 1..Build[c]
      /\ main' \in File /\ main'.written = main.written /\ Rebuilt(c)
      /\ Recorded(main') = IF s = "stamp" THEN v ELSE Recorded(main)
  BY RebuildMain DEF Base
<1>2. /\ UNCHANGED <<snapshot, tool, cut>> /\ InRebuild(c) /\ Others(c) = {}
      /\ s = "stamp" => After(c)
      /\ s # "stamp" => Moves(c, Following[s], v)
  BY DEF Rebuild, Noted, Uncrossed
<1>3. \A d \in Conns \ {c} : conn[d] = Closed
  BY <1>2 DEF Others
<1>4. \A d \in Conns \ {c} : /\ conn[d].stage \notin Rebuilding /\ ~InRebuild(d)
                             /\ conn[d].stage \notin {"verify", "serving"}
  BY <1>3 DEF Closed, InRebuild, Rebuilding
<1>5. v = Recorded(main) + 1
  BY <1>2 DEF Upgraded, Alone
<1>6. /\ Build[c] \in 1..N /\ N \in Nat /\ v \in 1..N /\ Recorded(main) \in 0..N
      /\ Columns[v] = Unfolded(Columns, v) /\ Migrations[v].kind = "rebuild" /\ v # 1
      /\ Migrations[v].columns \subseteq Named
  BY <1>1, Known, RecordedType, ColumnsUnfold DEF Base, TypeOK
<1>7. Columns[v] = Migrations[v].columns /\ Recorded(main) # 0 /\ Recorded(main) = v - 1
  BY <1>5, <1>6 DEF Unfolded
<1>8. RebuildKept(c)
  BY DEF Upgraded
<1>9. main.documents # None => main.documents.rows = main.written
  BY DEF Upgraded, FilesSettled, Settled
<1>10. CASE s = "stamp"
  <2>1. /\ main'.documents = main.documents /\ Recorded(main') = v
        /\ main.documents # None /\ main.documents.columns = Columns[v]
    BY <1>1, <1>8, <1>10 DEF Rebuilt, RebuildKept
  <2>2. Settled(main', cut')
    BY <1>1, <1>6, <1>9, <2>1 DEF Settled
  <2>3. PICK next \in {"migrate", "verify"} :
          /\ Moves(c, next, v + 1) /\ v + 1 \in 0..(N + 1)
          /\ next = "verify" => v = Build[c]
    BY <1>1, <1>2, <1>10, AfterStage
  <2>4. RebuildKept(c)'
    <3>1. conn'[c] = [stage |-> next, at |-> v + 1]
      BY <2>3, Moved DEF Base, Stage
    <3> QED
      BY <3>1 DEF RebuildKept
  <2>5. next = "verify" => Offers(c)'
    BY <2>1, <2>3 DEF Offers
  <2>6. next \notin Rebuilding /\ next \in Stage /\ next # "serving" /\ next \notin {"rename", "stamp"}
    BY DEF Rebuilding, Stage
  <2> HIDE DEF s, v
  <2> QED
    BY <1>2, <1>4, <2>1, <2>2, <2>3, <2>4, <2>5, <2>6, ConnUpgraded
<1>11. CASE s # "stamp"
  <2> DEFINE next == Following[s]
  <2>1. /\ next \in Rebuilding /\ next \in Stage /\ next \notin {"verify", "serving", "closed"}
        /\ s = "migrate" => next = "create"
        /\ s = "create" => next = "fill"
        /\ s = "fill" => next = "drop"
        /\ s = "drop" => next = "rename"
        /\ s = "rename" => next = "stamp"
    BY <1>1, <1>11 DEF Following, Applying, Rebuilding, Stage
  <2>2. Moves(c, next, v) /\ v \in 0..(N + 1) /\ v = Recorded(main') + 1 /\ Recorded(main') = Recorded(main)
    BY <1>1, <1>2, <1>5, <1>6, <1>11
  <2> HIDE DEF next
  <2>3. conn'[c].stage = next /\ conn'[c].at = v
    <3>1. conn'[c] = [stage |-> next, at |-> v]
      BY <2>1, <2>2, Moved DEF Base
    <3> QED
      BY <3>1
  <2>4. RebuildKept(c)'
    <3>1. CASE s = "migrate"
      BY <2>1, <2>3, <3>1 DEF RebuildKept
    <3>2. CASE s = "create"
      <4>1. main'.copy = [columns |-> Migrations[v].columns, rows |-> {}]
        BY <1>1, <3>2 DEF Rebuilt
      <4>2. [columns |-> Migrations[v].columns, rows |-> {}] \in Table
        BY <1>6 DEF Table, Named
      <4>3. main'.copy # None /\ main'.copy.columns = Columns[v] /\ main'.copy.rows = {}
        <5>1. main'.copy \in Table
          BY <4>1, <4>2
        <5>2. main'.copy.columns = Migrations[v].columns /\ main'.copy.rows = {}
          BY <4>1
        <5> HIDE DEF v
        <5> QED
          BY <1>7, <5>1, <5>2, StartupConstantsOK
      <4> QED
        BY <2>1, <2>3, <3>2, <4>3 DEF RebuildKept
    <3>3. CASE s = "fill"
      <4>1. /\ main'.copy # None /\ main'.copy.columns = main.copy.columns
            /\ main'.copy.rows = main.copy.rows \cup main.documents.rows
            /\ main.documents # None
        BY <1>1, <3>3 DEF Rebuilt
      <4>2. main.copy.columns = Columns[v] /\ main.copy.rows = {}
        BY <1>8, <3>3 DEF RebuildKept
      <4>3. main'.copy.rows = main'.written
        BY <1>1, <1>9, <4>1, <4>2
      <4> QED
        BY <2>1, <2>3, <3>3, <4>1, <4>2, <4>3 DEF RebuildKept
    <3>4. CASE s = "drop"
      <4>1. main'.copy = main.copy /\ main'.documents = None
        BY <1>1, <3>4 DEF Rebuilt
      <4>2. main.copy # None /\ main.copy.columns = Columns[v] /\ main.copy.rows = main.written
        BY <1>8, <3>4 DEF RebuildKept
      <4> QED
        BY <1>1, <2>1, <2>3, <3>4, <4>1, <4>2 DEF RebuildKept
    <3>5. CASE s = "rename"
      <4>1. main.copy # None /\ main'.documents = main.copy
        BY <1>1, <3>5 DEF Rebuilt
      <4>2. main.copy.columns = Columns[v]
        BY <1>8, <3>5 DEF RebuildKept
      <4> QED
        BY <2>1, <2>3, <3>5, <4>1, <4>2 DEF RebuildKept
    <3> QED
      BY <1>1, <1>11, <3>1, <3>2, <3>3, <3>4, <3>5 DEF Applying, Rebuilding
  <2>5. Settled(main', cut' \cup (IF next \in {"rename", "stamp"} THEN {v} ELSE {}))
    <3>1. CASE s \in {"migrate", "create", "fill"}
      <4>1. main'.documents = main.documents
        BY <1>1, <3>1 DEF Rebuilt
      <4>2. Half = cut
        BY <1>4, <3>1, HalfIs DEF Renaming
      <4>3. Settled(main, cut) /\ cut' = cut /\ next \notin {"rename", "stamp"}
        BY <1>2, <2>1, <3>1, <4>2 DEF Upgraded, FilesSettled
      <4> QED
        BY <1>1, <2>2, <4>1, <4>3 DEF Settled
    <3>2. CASE s = "drop"
      BY <1>1, <1>7, <2>1, <2>2, <3>2 DEF Rebuilt, Settled
    <3>3. CASE s = "rename"
      <4>1. main'.documents = main.copy /\ main.copy.rows = main.written
        BY <1>1, <1>8, <3>3 DEF Rebuilt, RebuildKept
      <4> QED
        BY <1>1, <1>7, <2>1, <2>2, <3>3, <4>1 DEF Settled
    <3> QED
      BY <1>1, <1>11, <3>1, <3>2, <3>3 DEF Applying, Rebuilding
  <2> HIDE DEF s, v
  <2> QED
    BY <1>2, <1>4, <2>1, <2>2, <2>4, <2>5, ConnUpgraded
<1> QED
  BY <1>10, <1>11

\* An error or a kill, the end of the verification, a connection closed.
LEMMA EndUpgraded ==
  ASSUME Base, Upgraded, NEW c \in Conns, Fails(c) \/ Verify(c) \/ Close(c) \/ Kill(c)
  PROVE  Upgraded'
<1>1. conn[c] # Closed /\ UNCHANGED <<main, snapshot, tool>> /\ cut \subseteq cut'
  BY DEF Fails, GivesUp, InRebuild, Rebuilding, Verify, Close, Serving, Kill, history, Closed
<1>2. PICK s \in {"closed", "serving"} : Moves(c, s, 0) /\ (s = "serving" => conn[c].stage = "verify")
  BY DEF Fails, GivesUp, Verify, Close, Kill
<1>3. \A d \in Conns \ {c} : conn[d].stage \notin Rebuilding
  BY <1>1, OthersQuiet
<1>4. Half \subseteq cut'
  <2>1. CASE Fails(c)
    <3> SUFFICES ~Renaming(c)
      BY <1>1, <1>3, HalfIs
    <3>1. Recorded(main) \in 0..N /\ N \in Nat /\ main.stamps = 1..Recorded(main)
      BY RecordedType, Known DEF Base, TypeOK
    <3>2. conn[c].stage = "rename" => main.copy # None /\ main.documents = None
      BY DEF Upgraded, RebuildKept
    <3>3. conn[c].stage = "stamp" => conn[c].at \notin main.stamps
      BY <3>1 DEF Upgraded, Alone, InRebuild, Rebuilding
    <3> QED
      BY <2>1, <3>2, <3>3 DEF Fails, InRebuild, Succeeds, Renaming
  <2>2. CASE Verify(c) \/ Close(c)
    <3>1. ~Renaming(c)
      BY <2>2 DEF Verify, Close, Serving, Renaming
    <3> QED
      BY <1>1, <1>3, <3>1, HalfIs
  <2>3. CASE Kill(c)
    BY <1>3, <2>3, HalfIs DEF Kill, Renaming
  <2> QED
    BY <2>1, <2>2, <2>3
<1>5. Settled(main', cut')
  BY <1>1, <1>4, SettledMore DEF Upgraded, FilesSettled
<1>6. RebuildKept(c)'
  <2>1. conn'[c] = [stage |-> s, at |-> 0]
    BY <1>2, Moved, Known DEF Base, Stage
  <2> QED
    BY <2>1 DEF RebuildKept
<1>7. \A d \in Conns : Offers(d) => Offers(d)'
  BY <1>1 DEF Offers
<1>8. s = "serving" /\ (\A u \in cut' : u <= Build[c]) => Offers(c)'
  BY <1>1, <1>2, <1>7 DEF Upgraded, Offered
<1>9. /\ s \in Stage /\ 0 \in 0..(N + 1) /\ s \notin Rebuilding /\ s # "migrate" /\ s # "verify"
      /\ s \notin {"rename", "stamp"} /\ Recorded(main') = Recorded(main)
  BY <1>1, Known DEF Stage, Rebuilding
<1> QED
  BY <1>1, <1>2, <1>3, <1>5, <1>6, <1>7, <1>8, <1>9, ConnUpgraded

\* A request writes a document.
LEMMA WriteUpgraded ==
  ASSUME Base, Upgraded, NEW c \in Conns, Write(c)
  PROVE  Upgraded'
<1>1. PICK x \in Docs : Commits(c, [main EXCEPT !.documents.rows = @ \cup {x}, !.written = @ \cup {x}])
  BY DEF Write
<1>2. /\ conn[c].stage = "serving" /\ main.documents # None
      /\ UNCHANGED <<snapshot, conn, tool, cut>>
  BY DEF Write, Serving
<1>3. \A d \in Conns : conn[d].stage \notin Rebuilding
  <2>1. conn[c] # Closed /\ conn[c].stage \notin Rebuilding
    BY <1>2 DEF Closed, Rebuilding
  <2> QED
    BY <2>1, OthersQuiet
<1>4. main \in File /\ main.documents \in Table
  BY <1>2 DEF Base, TypeOK, File
<1> DEFINE table == [main.documents EXCEPT !.rows = @ \cup {x}]
<1>5. table \in Table /\ table.columns = main.documents.columns /\ table.rows = main.documents.rows \cup {x}
  BY <1>4 DEF Table
<1>6. table # None
  <2>1. table \in Table
    BY <1>5
  <2> HIDE DEF table
  <2> QED
    BY <2>1, StartupConstantsOK
<1>7. main' = [main EXCEPT !.documents = table, !.written = @ \cup {x}]
  BY <1>1, <1>4 DEF Commits, File
<1> HIDE DEF table
<1>8. main'.documents = table /\ main'.written = main.written \cup {x} /\ main'.stamps = main.stamps
  BY <1>4, <1>7 DEF File
<1>9. Recorded(main') = Recorded(main) /\ Recorded(main)' = Recorded(main')
  BY <1>8, SameStamps DEF Recorded
<1>10. Settled(main', Half')
  <2>1. Settled(main, Half) /\ Half' = Half
    BY <1>2 DEF Upgraded, FilesSettled, Half, Renaming
  <2> QED
    BY <1>2, <1>5, <1>6, <1>8, <1>9, <2>1 DEF Settled
<1>11. ASSUME NEW d \in Conns PROVE (Alone(d) /\ RebuildKept(d) /\ Offered(d))'
  <2>1. Alone(d) /\ Offered(d)
    BY DEF Upgraded
  <2>2. Alone(d)'
    BY <1>2, <1>3, <1>9, <2>1 DEF Alone, InRebuild
  <2>3. RebuildKept(d)'
    BY <1>2, <1>3 DEF RebuildKept, Rebuilding
  <2>4. Offered(d)'
    BY <1>2, <1>5, <1>6, <1>8, <2>1 DEF Offered, Offers
  <2> QED
    BY <2>2, <2>3, <2>4
<1>12. FilesSettled'
  BY <1>2, <1>10, SettledNext DEF Upgraded, FilesSettled
<1> QED
  BY <1>11, <1>12 DEF Upgraded

\* The tools: a backup is taken while no table is being rebuilt, and a restore has the
\* database to itself.
LEMMA ToolUpgraded ==
  ASSUME Base, Upgraded, Uncrossed', ToolStep
  PROVE  Upgraded'
<1>1. cut' = cut /\ conn' = conn
  BY DEF ToolStep, BackupCopies, BackupReplaces, RestoreCopies, RestoreReplaces, RestoreUnlinks, ToolKilled,
         history
<1>2. Half' = Half
  BY <1>1 DEF Half, Renaming
<1>3. CASE BackupCopies \/ BackupReplaces \/ RestoreCopies \/ RestoreUnlinks \/ ToolKilled
  <2>1. main' = main
    BY <1>3 DEF BackupCopies, BackupReplaces, RestoreCopies, RestoreUnlinks, ToolKilled
  <2>2. snapshot' = snapshot \/ (snapshot' = tool.file /\ tool.file # None)
    <3>1. tool.stage = "backup" => tool.file # None
      BY DEF Base, Bounded, FilesKept
    <3> QED
      BY <1>3, <3>1 DEF BackupCopies, BackupReplaces, RestoreCopies, RestoreUnlinks, ToolKilled
  <2>3. \/ tool' = NoTool
        \/ tool' = [stage |-> "backup", file |-> main] /\ \A c \in Conns : conn[c].stage \notin Rebuilding
        \/ tool' = [stage |-> "copied", file |-> snapshot]
    BY <1>3 DEF BackupCopies, BackupReplaces, RestoreCopies, RestoreUnlinks, ToolKilled, Noted, Uncrossed
  <2>4. tool'.file # None => Settled(tool'.file, cut)
    <3>1. CASE tool' = NoTool
      BY <3>1 DEF NoTool
    <3>2. CASE tool' = [stage |-> "backup", file |-> main] /\ \A c \in Conns : conn[c].stage \notin Rebuilding
      <4>1. Half = cut
        BY <3>2 DEF Half, Renaming, Rebuilding
      <4>2. tool'.file = main
        BY <3>2
      <4> QED
        BY <4>1, <4>2 DEF Upgraded, FilesSettled
    <3>3. CASE tool' = [stage |-> "copied", file |-> snapshot]
      <4>1. tool'.file = snapshot
        BY <3>3
      <4> QED
        BY <4>1 DEF Upgraded, FilesSettled
    <3> QED
      BY <2>3, <3>1, <3>2, <3>3
  <2>5. FilesSettled'
    BY <1>1, <1>2, <2>1, <2>2, <2>4, SettledNext DEF Upgraded, FilesSettled
  <2>6. Recorded(main)' = Recorded(main)
    BY <2>1 DEF Recorded
  <2>7. ASSUME NEW c \in Conns PROVE (Alone(c) /\ RebuildKept(c) /\ Offered(c))'
    <3>1. Alone(c) /\ RebuildKept(c) /\ Offered(c)
      BY DEF Upgraded
    <3>2. Alone(c)'
      BY <1>1, <2>6, <3>1 DEF Alone, InRebuild, Others
    <3> QED
      BY <1>1, <2>1, <3>1, <3>2 DEF RebuildKept, Offered, Offers
  <2> QED
    BY <2>5, <2>7 DEF Upgraded
<1>4. CASE RestoreReplaces
  <2>1. /\ AllClosed /\ tool.file # None /\ main' = tool.file
        /\ tool' = [stage |-> "replaced", file |-> None] /\ UNCHANGED snapshot
    BY <1>4 DEF RestoreReplaces, Base, Bounded, FilesKept
  <2>2. Half' = cut'
    BY <1>1, <2>1 DEF AllClosed, Closed, Half, Renaming
  <2>3. FilesSettled'
    <3>1. Settled(main', Half') /\ (snapshot' # None => Settled(snapshot', cut')) /\ tool'.file = None
      BY <1>1, <2>1, <2>2 DEF Upgraded, FilesSettled
    <3> QED
      BY <3>1, SettledNext DEF FilesSettled
  <2>4. ASSUME NEW c \in Conns PROVE (Alone(c) /\ RebuildKept(c) /\ Offered(c))'
    BY <1>1, <2>1 DEF AllClosed, Closed, Alone, InRebuild, Rebuilding, RebuildKept, Offered
  <2> QED
    BY <2>3, <2>4 DEF Upgraded
<1> QED
  BY <1>3, <1>4 DEF ToolStep

\* Every step keeps the invariant, until a rebuild is crossed.
LEMMA NextUpgraded ==
  ASSUME Base, Uncrossed => Upgraded, [Next]_vars
  PROVE  Uncrossed' => Upgraded'
<1> SUFFICES ASSUME Uncrossed' PROVE Upgraded'
  OBVIOUS
<1>1. Upgraded
  BY MishapsStay DEF Uncrossed
<1>2. ASSUME NEW c \in Conns, ConnStep(c) PROVE Upgraded'
  BY <1>1, <1>2, OpenUpgraded, PlainUpgraded, RebuildUpgraded, EndUpgraded, WriteUpgraded DEF ConnStep
<1>3. CASE UNCHANGED vars
  <2>1. UNCHANGED <<main, snapshot, conn, tool, cut>>
    BY <1>3 DEF vars, history
  <2>2. Recorded(main)' = Recorded(main) /\ Half' = Half
    BY <2>1 DEF Recorded, Half, Renaming
  <2>3. FilesSettled'
    BY <1>1, <2>1, <2>2, SettledNext DEF Upgraded, FilesSettled
  <2>4. ASSUME NEW c \in Conns PROVE (Alone(c) /\ RebuildKept(c) /\ Offered(c))'
    <3>1. Alone(c) /\ RebuildKept(c) /\ Offered(c)
      BY <1>1 DEF Upgraded
    <3>2. Alone(c)'
      BY <2>1, <2>2, <3>1 DEF Alone, InRebuild, Others
    <3> QED
      BY <2>1, <3>1, <3>2 DEF RebuildKept, Offered, Offers
  <2> QED
    BY <2>3, <2>4 DEF Upgraded
<1> QED
  BY <1>1, <1>2, <1>3, ToolUpgraded DEF Next, ConnStep, ToolStep

\* An earlier build has left every document in the table.
LEMMA InitUpgraded == Init => Upgraded
<1> SUFFICES ASSUME Init PROVE Upgraded
  OBVIOUS
<1>1. /\ snapshot = None /\ tool.file = None
      /\ \A c \in Conns : conn[c].stage = "closed"
  BY DEF Init, NoTool, Closed
<1>2. PICK v \in 0..N : /\ Recorded(main) = v
                        /\ IF v = 0 THEN main.documents = None /\ main.written = {}
                           ELSE /\ main.documents.columns = Columns[v]
                                /\ main.documents \in Table
                                /\ main.documents.rows = main.written
  BY InitFile
<1>3. v # 0 => main.documents # None
  BY <1>2, StartupConstantsOK
<1>4. Settled(main, Half)
  BY <1>2, <1>3 DEF Settled
<1> QED
  BY <1>1, <1>4 DEF Upgraded, FilesSettled, Alone, InRebuild, Rebuilding, RebuildKept, Offered

\* Until a restore is killed or overtaken before it has unlinked the log of the old
\* database, that log is found by nobody.
OwnLog ==
  "torn" \notin mishaps =>
    /\ wal # "replayed"
    /\ wal = "foreign" => tool.stage = "replaced"
    /\ tool.stage = "replaced" => AllClosed

\* Every step keeps the log of the old database from the connections, or is noted.
LEMMA NextOwnLog ==
  ASSUME Base, OwnLog, [Next]_vars
  PROVE  OwnLog'
<1> SUFFICES ASSUME "torn" \notin mishaps'
             PROVE  /\ wal' # "replayed"
                    /\ wal' = "foreign" => tool'.stage = "replaced"
                    /\ tool'.stage = "replaced" => AllClosed'
  BY DEF OwnLog
<1>1. /\ wal # "replayed"
      /\ wal = "foreign" => tool.stage = "replaced"
      /\ tool.stage = "replaced" => AllClosed
      /\ None \notin {"foreign", "replayed"}
  BY MishapsStay, StartupConstantsOK DEF OwnLog
<1>2. ASSUME NEW c \in Conns, Open(c)
      PROVE  tool.stage # "replaced" /\ UNCHANGED tool /\ wal' = wal
  <2>1. tool.stage # "replaced" /\ UNCHANGED tool
    BY <1>2 DEF Open, Noted
  <2> QED
    BY <1>1, <1>2, <2>1 DEF Open
<1>3. ASSUME NEW c \in Conns,
             Plain(c) \/ Rebuild(c) \/ Write(c) \/ Fails(c) \/ Verify(c) \/ Close(c) \/ Kill(c)
      PROVE  tool.stage # "replaced" /\ UNCHANGED tool /\ wal' \in {wal, None, "own"}
  <2>1. conn[c] # Closed /\ UNCHANGED tool
    <3>1. conn[c].stage \in Stage \ {"closed"} \/ Kill(c)
      BY <1>3 DEF Plain, Rebuild, Write, Fails, InRebuild, Rebuilding, Verify, Close, Serving, Stage
    <3>2. conn[c] # Closed
      BY <3>1 DEF Kill, Closed
    <3> QED
      BY <1>3, <3>2 DEF Plain, Rebuild, Write, Fails, Verify, Close, Kill
  <2>2. tool.stage # "replaced"
    BY <1>1, <2>1 DEF AllClosed
  <2>3. wal' \in {wal, None, "own"}
    BY <1>3 DEF Plain, Rebuild, Write, Commits, Fails, Verify, Close, Kill
  <2> QED
    BY <2>1, <2>2, <2>3
<1>4. CASE RestoreReplaces
  <2>1. AllClosed /\ tool' = [stage |-> "replaced", file |-> None] /\ conn' = conn /\ wal' \in {None, "foreign"}
    BY <1>4 DEF RestoreReplaces, Base, Bounded, FilesKept
  <2>2. tool'.stage = "replaced"
    BY <2>1
  <2> QED
    BY <1>1, <2>1, <2>2 DEF AllClosed
<1>5. CASE RestoreUnlinks
  BY <1>1, <1>5 DEF RestoreUnlinks, NoTool
<1>6. CASE BackupCopies \/ BackupReplaces \/ RestoreCopies \/ ToolKilled
  <2>1. /\ tool.stage # "replaced" /\ wal' = wal
        /\ \/ tool' = NoTool
           \/ tool' = [stage |-> "backup", file |-> main]
           \/ tool' = [stage |-> "copied", file |-> snapshot]
    BY <1>6 DEF BackupCopies, BackupReplaces, RestoreCopies, ToolKilled, NoTool, Noted
  <2>2. tool'.stage # "replaced"
    BY <2>1 DEF NoTool
  <2> QED
    BY <1>1, <2>1, <2>2
<1>7. CASE UNCHANGED vars
  BY <1>1, <1>7 DEF vars, AllClosed
<1> QED
  BY <1>1, <1>2, <1>3, <1>4, <1>5, <1>6, <1>7 DEF Next

\* A connection that connect has handed out counts on what ServesWholeDatabase says,
\* whatever is killed at whatever statement, backed up or restored: the log of its own
\* database, every document and the columns of its build (connect, _verify_schema).
THEOREM ServesWhole == Spec => []ServesWholeDatabase
<1> DEFINE Inv == Base /\ (Uncrossed => Upgraded) /\ OwnLog
<1>1. Init => Inv
  <2> SUFFICES ASSUME Init PROVE Inv
    OBVIOUS
  <2>1. OwnLog
    BY StartupConstantsOK DEF Init, OwnLog, NoTool
  <2> QED
    BY <2>1, InitTypeOK, InitUpgraded DEF Base
<1>2. Inv /\ [Next]_vars => Inv'
  BY NextTypeOK, NextUpgraded, NextOwnLog DEF Base
<1>3. Inv => ServesWholeDatabase
  <2> SUFFICES ASSUME Inv, "torn" \notin mishaps, NEW c \in Conns, conn[c].stage = "serving"
               PROVE  /\ wal \notin {"foreign", "replayed"}
                      /\ Uncrossed /\ (\A v \in cut : v <= Build[c]) => Whole(c)
    BY DEF ServesWholeDatabase, Serving, Uncrossed
  <2>1. wal \notin {"foreign", "replayed"}
    BY DEF OwnLog, AllClosed, Closed
  <2>2. ASSUME Uncrossed, \A v \in cut : v <= Build[c] PROVE Whole(c)
    <3>1. main.documents # None /\ Columns[Build[c]] \subseteq main.documents.columns
      BY <2>2 DEF Upgraded, Offered, Offers
    <3> QED
      BY <2>2, <3>1 DEF Upgraded, FilesSettled, Settled, Whole
  <2> QED
    BY <2>1, <2>2
<1> QED
  BY <1>1, <1>2, <1>3, PTL DEF Spec
=============================================================================
