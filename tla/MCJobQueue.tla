----------------------------- MODULE MCJobQueue -----------------------------
(***************************************************************************)
(* Small instances of JobQueue for TLC: one or two jobs, two workers.      *)
(***************************************************************************)
EXTENDS JobQueue

CONSTANTS j1, j2, w1, w2

OneJob     == {j1}
TwoJobs    == {j1, j2}
TwoWorkers == {w1, w2}
=============================================================================
