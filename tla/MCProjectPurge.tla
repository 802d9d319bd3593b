--------------------------- MODULE MCProjectPurge ---------------------------
(***************************************************************************)
(* Small instances of ProjectPurge for TLC.                                *)
(***************************************************************************)
EXTENDS ProjectPurge

CONSTANTS j1, j2, w1, w2, c1, c2

TwoJobs    == {j1, j2}
OneJob     == {j1}
OneWorker  == {w1}
TwoWorkers == {w1, w2}
OneClient  == {c1}
TwoClients == {c1, c2}
=============================================================================
