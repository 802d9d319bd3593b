------------------------------- MODULE Startup -------------------------------
(***************************************************************************)
(* Opening the database (db.connect): the migrations that are not recorded *)
(* yet, the verification, and then requests that write documents; with the *)
(* backup and the restore of the file (backup.py).                         *)
(*                                                                         *)
(* Every request, every round of the worker and the server's own start     *)
(* call connect; the server opens one connection at a time (_DB_LOCK), and *)
(* the worker is another process.  A plain migration is one transaction    *)
(* with its record.  A migration that rebuilds a table turns foreign keys  *)
(* off, so each of its statements commits by itself, and so does the       *)
(* record.  Of the tables only documents is kept, which two of the three   *)
(* rebuilding migrations drop and rename.                                  *)
(***************************************************************************)
EXTENDS Integers, Sequences, FiniteSets

CONSTANTS
  Conns,        \* connections, of the server and of the worker
  OfServer,     \* those that _DB_LOCK serialises
  Docs,
  Migrations,   \* _MIGRATIONS: records of a kind and the columns it deals with
  Build,        \* how many migrations the program of a connection knows
  MaxFaults,    \* bound: processes killed
  MaxTools,     \* bound: backups and restores
  None

VARIABLES
  main,      \* the database: its committed contents
  wal,       \* whose changes the -wal file holds
  snapshot,  \* the backup that was taken last
  conn,      \* the connections
  tool,      \* backup_database or restore_database
  outdated,  \* history: connections about to drop a table that has changed since they copied it
  cut,       \* history: versions whose rebuild was killed after its DROP
  mishaps,   \* history: what else has come between the steps of an upgrade or a restore
  faults, tools

history == <<outdated, cut, mishaps>>
vars    == <<main, wal, snapshot, conn, tool, history, faults, tools>>

N == Len(Migrations)

Table == [columns : SUBSET UNION {Migrations[v].columns : v \in 1..N}, rows : SUBSET Docs]
File  == [stamps : SUBSET (1..N), documents : Table \cup {None}, copy : Table \cup {None},
          written : SUBSET Docs]

\* The first migration creates documents, and no other one does.
ASSUME StartupConstantsOK ==
  /\ N \in Nat
  /\ \A v \in 1..N :
       /\ Migrations[v].kind \in {"create", "alter", "rebuild"}
       /\ Migrations[v].kind = "create" <=> v = 1
  /\ OfServer \subseteq Conns
  /\ Build \in [Conns -> 1..N]
  /\ MaxFaults \in Nat /\ MaxTools \in Nat
  /\ None \notin Table \cup File \cup {"own", "foreign", "replayed"}

NoTool == [stage |-> "none", file |-> None]
Closed == [stage |-> "closed", at |-> 0]
Recorded(d) == IF d.stamps = {} THEN 0 ELSE CHOOSE v \in d.stamps : \A w \in d.stamps : w <= v

\* The columns of documents, as the first v migrations leave them.
Columns[v \in 0..N] ==
  IF v = 0 THEN {}
  ELSE CASE Migrations[v].kind = "alter" -> Columns[v - 1] \cup Migrations[v].columns
         [] OTHER                        -> Migrations[v].columns

\* A database of some version that an earlier build has left.
Init ==
  /\ \E v \in 0..N, rows \in SUBSET Docs :
       main = [stamps |-> 1..v, copy |-> None,
               documents |-> IF v = 0 THEN None ELSE [columns |-> Columns[v], rows |-> rows],
               written |-> IF v = 0 THEN {} ELSE rows]
  /\ wal = None /\ snapshot = None
  /\ conn = [c \in Conns |-> Closed]
  /\ tool = NoTool
  /\ outdated = {} /\ cut = {} /\ mishaps = {}
  /\ faults = 0 /\ tools = 0

Opening(c) == conn[c].stage \notin {"closed", "serving"}
Serving(c) == conn[c].stage = "serving"
Rebuilds(v) == v \in 1..N /\ Migrations[v].kind = "rebuild"
Others(c) == {d \in Conns \ {c} : conn[d] # Closed}

Rebuilding == {"create", "fill", "drop", "rename", "stamp"}   \* after the first statement

\* What has happened when b.
Noted(b, mishap) == IF b THEN {mishap} ELSE {}

Moves(c, stage, at) == conn' = [conn EXCEPT ![c] = [stage |-> stage, at |-> at]]

\* A log of another database, once it is replayed, has done its harm.
Commits(c, d) ==
  /\ main' = d /\ wal' = IF wal = "replayed" THEN wal ELSE "own"
  /\ outdated' = (outdated \ {c}) \cup {o \in Conns \ {c} : conn[o].stage = "drop"}

-----------------------------------------------------------------------------
(***************************************************************************)
(* connect.                                                                *)
(***************************************************************************)
\* The version is read once.  A schema of a newer build is refused.  For a restore
\* the server is stopped.  SQLite replays the log that it finds beside the file.
Open(c) ==
  /\ conn[c] = Closed
  /\ tool.stage # "copied" /\ (tool.stage = "replaced" => c \notin OfServer)
  /\ c \in OfServer => \A d \in OfServer : ~Opening(d)
  /\ Recorded(main) <= Build[c]
  /\ Moves(c, IF Recorded(main) = Build[c] THEN "verify" ELSE "migrate", Recorded(main) + 1)
  /\ wal' = IF wal = "foreign" THEN "replayed" ELSE wal
  /\ mishaps' = mishaps \cup Noted(\E d \in Conns : conn[d].stage \in Rebuilding, "crossed")
                         \cup Noted(tool.stage = "replaced", "torn")
  /\ UNCHANGED <<main, snapshot, tool, outdated, cut, faults, tools>>

\* Mutant: the number of the next migration is counted twice.
AfterTwice(c) == Moves(c, IF conn[c].at + 1 >= Build[c] THEN "verify" ELSE "migrate", conn[c].at + 2)

After(c) == Moves(c, IF conn[c].at = Build[c] THEN "verify" ELSE "migrate", conn[c].at + 1)

\* A plain migration fails, and rolls back, if it is recorded by now or the
\* column is there.
Applies(c) ==
  LET m == Migrations[conn[c].at] IN
  /\ conn[c].at \notin main.stamps
  /\ m.kind = "alter" => main.documents # None /\ m.columns \cap main.documents.columns = {}

\* CREATE TABLE IF NOT EXISTS or ALTER TABLE ADD COLUMN, with the record.
Plain(c) ==
  /\ conn[c].stage = "migrate" /\ ~Rebuilds(conn[c].at)
  /\ Applies(c)
  /\ LET m == Migrations[conn[c].at] IN
     Commits(c, [main EXCEPT
       !.stamps = @ \cup {conn[c].at},
       !.documents = IF @ = None THEN [columns |-> m.columns, rows |-> {}]
                     ELSE IF m.kind = "create" THEN @
                     ELSE [@ EXCEPT !.columns = main.documents.columns \cup m.columns]])
  /\ After(c)
  /\ UNCHANGED <<snapshot, tool, cut, mishaps, faults, tools>>

\* The statements of a rebuild, by the stage they are at: whether they succeed, ...
Succeeds(c) ==
  LET m == Migrations[conn[c].at] IN
  CASE conn[c].stage = "migrate" -> TRUE
    [] conn[c].stage = "create"  -> main.copy = None
    [] conn[c].stage = "fill"    ->
         /\ main.copy # None /\ main.documents # None
         /\ m.columns \subseteq main.documents.columns
         /\ main.copy.rows \cap main.documents.rows = {}
    [] conn[c].stage = "drop"    -> main.documents # None
    [] conn[c].stage = "rename"  -> main.copy # None /\ main.documents = None
    [] conn[c].stage = "stamp"   -> conn[c].at \notin main.stamps

\* ... what they leave: DROP TABLE IF EXISTS of the copy, CREATE TABLE, INSERT ...
\* SELECT, DROP TABLE, ALTER TABLE RENAME, and the record, ...
Left(c) ==
  LET m == Migrations[conn[c].at] IN
  CASE conn[c].stage = "migrate" -> [main EXCEPT !.copy = None]
    [] conn[c].stage = "create"  -> [main EXCEPT !.copy = [columns |-> m.columns, rows |-> {}]]
    [] conn[c].stage = "fill"    -> [main EXCEPT !.copy.rows = @ \cup main.documents.rows]
    [] conn[c].stage = "drop"    -> [main EXCEPT !.documents = None]
    [] conn[c].stage = "rename"  -> [main EXCEPT !.documents = main.copy, !.copy = None]
    [] conn[c].stage = "stamp"   -> [main EXCEPT !.stamps = @ \cup {conn[c].at}]

\* Mutant: the old table is dropped before its rows are copied.
DroppedFirst == [migrate |-> "create", create |-> "drop", drop |-> "fill", fill |-> "rename", rename |-> "stamp"]

\* ... and the statement after each.
Following == [migrate |-> "create", create |-> "fill", fill |-> "drop", drop |-> "rename", rename |-> "stamp"]

InRebuild(c) ==
  \/ conn[c].stage \in Rebuilding
  \/ conn[c].stage = "migrate" /\ Rebuilds(conn[c].at)

Rebuild(c) ==
  /\ InRebuild(c) /\ Succeeds(c)
  /\ Commits(c, Left(c))
  /\ IF conn[c].stage = "stamp" THEN After(c) ELSE Moves(c, Following[conn[c].stage], conn[c].at)
  /\ mishaps' = mishaps \cup Noted(Others(c) # {}, "crossed")
                         \cup Noted(conn[c].stage = "migrate" /\ main.documents = None, "rerun")
                         \cup Noted(conn[c].stage = "drop" /\ c \in outdated, "outdated")
  /\ UNCHANGED <<snapshot, tool, cut, faults, tools>>

GivesUp(c) == Moves(c, "closed", 0) /\ outdated' = outdated \ {c}

\* A whole database passes integrity_check and foreign_key_check; another one does
\* if no row names a document that is gone, and the log has left no damage.
Intact == main.documents # None /\ main.documents.rows = main.written /\ wal # "replayed"

\* An error in a statement, or in the verification: the connection is given up.
Fails(c) ==
  /\ \/ conn[c].stage = "migrate" /\ ~InRebuild(c) /\ ~Applies(c)
     \/ InRebuild(c) /\ ~Succeeds(c)
     \/ conn[c].stage = "verify" /\ ~Intact
  /\ GivesUp(c)
  /\ UNCHANGED <<main, wal, snapshot, tool, cut, mishaps, faults, tools>>

Verify(c) ==
  /\ conn[c].stage = "verify"
  /\ Moves(c, "serving", 0)
  /\ UNCHANGED <<main, wal, snapshot, tool, history, faults, tools>>

-----------------------------------------------------------------------------
(***************************************************************************)
(* A connection in use, and its end.                                       *)
(***************************************************************************)
Write(c) ==
  /\ Serving(c) /\ main.documents # None
  /\ \E d \in Docs \ main.written :
       Commits(c, [main EXCEPT !.documents.rows = @ \cup {d}, !.written = @ \cup {d}])
  /\ UNCHANGED <<snapshot, conn, tool, cut, mishaps, faults, tools>>

\* SQLite checkpoints, and removes the -wal file, when the last connection closes.
Close(c) ==
  /\ Serving(c)
  /\ Moves(c, "closed", 0)
  /\ wal' = IF Others(c) = {} /\ wal = "own" THEN None ELSE wal
  /\ UNCHANGED <<main, snapshot, tool, history, faults, tools>>

\* A process is killed; the next connection recovers what it has committed.
Kill(c) ==
  /\ conn[c] # Closed /\ faults < MaxFaults
  /\ GivesUp(c)
  /\ cut' = IF conn[c].stage \in {"rename", "stamp"} THEN cut \cup {conn[c].at} ELSE cut
  /\ faults' = faults + 1
  /\ UNCHANGED <<main, wal, snapshot, tool, mishaps, tools>>

-----------------------------------------------------------------------------
(***************************************************************************)
(* backup_database copies what is committed to a temporary file, online,   *)
(* and renames it.  restore_database, the server stopped, copies the       *)
(* snapshot beside the database, renames it over the database, and then    *)
(* unlinks the files of the old database's log.                            *)
(***************************************************************************)
BackupCopies ==
  /\ tool = NoTool /\ tools < MaxTools
  /\ tool' = [stage |-> "backup", file |-> main]
  /\ mishaps' = mishaps \cup Noted(\E c \in Conns : conn[c].stage \in Rebuilding, "crossed")
  /\ tools' = tools + 1
  /\ UNCHANGED <<main, wal, snapshot, conn, outdated, cut, faults>>

BackupReplaces ==
  /\ tool.stage = "backup"
  /\ snapshot' = tool.file
  /\ tool' = NoTool
  /\ UNCHANGED <<main, wal, conn, history, faults, tools>>

RestoreCopies ==
  /\ tool = NoTool /\ tools < MaxTools
  /\ snapshot # None /\ \A c \in Conns : conn[c] = Closed
  /\ tool' = [stage |-> "copied", file |-> snapshot]
  /\ tools' = tools + 1
  /\ UNCHANGED <<main, wal, snapshot, conn, history, faults>>

RestoreReplaces ==
  /\ tool.stage = "copied"
  /\ main' = tool.file
  /\ wal' = IF wal = None THEN None ELSE "foreign"
  /\ tool' = [stage |-> "replaced", file |-> None]
  /\ UNCHANGED <<snapshot, conn, history, faults, tools>>

\* Mutant: the restore ends with the rename.
LogKept ==
  /\ tool.stage = "replaced"
  /\ tool' = NoTool
  /\ UNCHANGED <<main, wal, snapshot, conn, history, faults, tools>>

RestoreUnlinks ==
  /\ tool.stage = "replaced"
  /\ wal' = IF wal = "replayed" THEN wal ELSE None
  /\ tool' = NoTool
  /\ UNCHANGED <<main, snapshot, conn, history, faults, tools>>

ToolKilled ==
  /\ tool # NoTool /\ faults < MaxFaults
  /\ tool' = NoTool
  /\ mishaps' = mishaps \cup Noted(tool.stage = "replaced", "torn")
  /\ faults' = faults + 1
  /\ UNCHANGED <<main, wal, snapshot, conn, outdated, cut, tools>>

-----------------------------------------------------------------------------
Next ==
  \/ \E c \in Conns :
       \/ Open(c) \/ Plain(c) \/ Rebuild(c) \/ Fails(c) \/ Verify(c)
       \/ Write(c) \/ Close(c) \/ Kill(c)
  \/ BackupCopies \/ BackupReplaces \/ RestoreCopies \/ RestoreReplaces \/ RestoreUnlinks
  \/ ToolKilled

Spec == Init /\ [][Next]_vars
-----------------------------------------------------------------------------
(***************************************************************************)
(* Properties.                                                             *)
(***************************************************************************)
Stage == {"closed", "migrate", "create", "fill", "drop", "rename", "stamp", "verify", "serving"}

\* Every variable has its type, and the recorded versions have no gap (schema_migrations).
TypeOK ==
  /\ main \in File /\ snapshot \in File \cup {None}
  /\ wal \in {None, "own", "foreign", "replayed"}
  /\ conn \in [Conns -> [stage : Stage, at : 0..(N + 1)]]
  /\ tool \in [stage : {"none", "backup", "copied", "replaced"}, file : File \cup {None}]
  /\ outdated \subseteq Conns /\ cut \subseteq 1..N
  /\ mishaps \subseteq {"crossed", "torn", "rerun", "outdated"}
  /\ faults \in 0..MaxFaults /\ tools \in 0..MaxTools
  /\ main.stamps = 1..Recorded(main)

Whole(c) ==
  /\ main.documents # None
  /\ Columns[Build[c]] \subseteq main.documents.columns
  /\ main.documents.rows = main.written

\* What a connection that connect has handed out may count on, whatever is killed at
\* whatever statement: the log of its own database, unless a restore was killed or
\* overtaken before it unlinked the old log; and every document, with the columns of
\* its build, unless a rebuild was made beside another connection or a backup, or one
\* that its build does not know was killed after its DROP.  After such a kill the
\* build that made the rebuild does not start again, rather than serve the loss.
ServesWholeDatabase ==
  "torn" \notin mishaps =>
    \A c \in Conns : Serving(c) =>
      /\ wal \notin {"foreign", "replayed"}
      /\ "crossed" \notin mishaps /\ (\A v \in cut : v <= Build[c]) => Whole(c)

Rows(t) == IF t = None THEN {} ELSE t.rows

\* An interrupted migration can recover: every document that was written is in
\* the table or in the copy that is to take its place (_apply_migration).
NoDocumentLost == main.written \subseteq Rows(main.documents) \cup Rows(main.copy)

\* Kills, failures, backups, restores and any number of processes that upgrade at once
\* lose a document in two ways only (unless a restore was torn): a rebuild begins
\* where another one has dropped the table and drops the copy too, or it drops a table
\* that has changed since it copied it.  Short of that every document is in the
\* table, or, between a DROP and a RENAME, in the copy.
LossHasACause ==
  mishaps \cap {"torn", "rerun", "outdated"} = {} =>
    IF main.documents = None THEN main.written \subseteq Rows(main.copy)
    ELSE main.documents.rows = main.written
=============================================================================
