------------------------------ MODULE MCStartup ------------------------------
EXTENDS Startup

CONSTANTS s1, w1, w2, d1

ServerAndWorkers == {s1, w1, w2}
ServerConns == {s1}
OneDoc == {d1}

\* The history of documents in small: its creation, the dreaming column, the
\* rebuild for the new unique key, which loses that column, and the column again.
FourMigrations ==
  <<[kind |-> "create",  columns |-> {"id"}],
    [kind |-> "alter",   columns |-> {"dreamed_at"}],
    [kind |-> "rebuild", columns |-> {"id"}],
    [kind |-> "alter",   columns |-> {"dreamed_at"}]>>

\* One worker is of the build before the upgrade.
OldAndNew == [c \in ServerAndWorkers |-> IF c = w2 THEN 2 ELSE 4]

\* A bound: behaviours are followed until the properties claim nothing more of the
\* documents.
StillClaimed ==
  /\ "torn" \notin mishaps
  /\ ~("crossed" \in mishaps /\ mishaps \cap {"rerun", "outdated"} # {})
=============================================================================
