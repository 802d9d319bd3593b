-------------------------- MODULE MCWebhookOutbox --------------------------
(***************************************************************************)
(* Small instances of WebhookOutbox for TLC.                               *)
(***************************************************************************)
EXTENDS WebhookOutbox, TLC

CONSTANTS j1, j2, j3, j4, w1, w2, d1

ThreeJobs  == {j1, j2, j3}
FourJobs   == {j1, j2, j3, j4}
TwoWorkers == {w1, w2}
OneDelivery == {d1}

\* Until the outcome is committed, a kill or an error loses nothing but the try.
BeforeCommit == {"off", "sending", "accepted", "rejected"}

\* Short of the return, a kill leaves the job to the reaper.
BeforeReturn == BeforeCommit \cup {"marked", "scheduling"}

\* Jobs and workers are interchangeable: only safety is checked with it.
Symmetry == Permutations(Jobs) \cup Permutations(Workers)
=============================================================================
