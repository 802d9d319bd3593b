------------------------------ MODULE MCIngest ------------------------------
(***************************************************************************)
(* Small instances of Ingest for TLC.                                      *)
(***************************************************************************)
EXTENDS Ingest

CONSTANTS j1, j2, w1, w2, c1

TwoJobs    == {j1, j2}
TwoWorkers == {w1, w2}
OneClient  == {c1}
=============================================================================
