---------------------------- MODULE JobContract ----------------------------
(***************************************************************************)
(* What the job queue promises its callers, with no leases, clocks or      *)
(* attempts: a job is worked on by at most one worker; only that worker    *)
(* ends or returns it; a job whose worker is gone may be taken back or     *)
(* cancelled; a job that has ended has ended for good.  Rows may also be   *)
(* deleted; their workers, if any, are not told and work on.               *)
(***************************************************************************)
CONSTANTS Jobs, Workers, NoWorker

VARIABLES
  phase,   \* where each job is in its life
  holder   \* the worker that is working on the job, if any

cvars == <<phase, holder>>

Init ==
  /\ phase = [j \in Jobs |-> "absent"]
  /\ holder = [j \in Jobs |-> NoWorker]

Submit(j) ==
  /\ phase[j] = "absent"
  /\ phase' = [phase EXCEPT ![j] = "queued"]
  /\ UNCHANGED holder

Take(j, w) ==
  /\ phase[j] = "queued"
  /\ phase' = [phase EXCEPT ![j] = "running"]
  /\ holder' = [holder EXCEPT ![j] = w]

\* The holder hands the job back, or ends it, if its row is still there.
Release(j, p) ==
  /\ holder[j] # NoWorker
  /\ phase' = [phase EXCEPT ![j] = IF @ = "gone" THEN @ ELSE p]
  /\ holder' = [holder EXCEPT ![j] = NoWorker]

\* The holder disappears; nobody is told.
Abandon(j) ==
  /\ holder[j] # NoWorker
  /\ holder' = [holder EXCEPT ![j] = NoWorker]
  /\ UNCHANGED phase

\* Jobs without a holder go back to the queue together.
Reclaim(S) ==
  /\ \A j \in S : phase[j] = "running" /\ holder[j] = NoWorker
  /\ phase' = [j \in Jobs |-> IF j \in S THEN "queued" ELSE phase[j]]
  /\ UNCHANGED holder

Withdraw(j) ==
  /\ phase[j] \in {"queued", "running"}
  /\ holder[j] = NoWorker
  /\ phase' = [phase EXCEPT ![j] = "cancelled"]
  /\ UNCHANGED holder

\* Rows are deleted together.
Delete(S) ==
  /\ \A j \in S : phase[j] \notin {"absent", "gone"}
  /\ phase' = [j \in Jobs |-> IF j \in S THEN "gone" ELSE phase[j]]
  /\ UNCHANGED holder

Next ==
  \/ \E j \in Jobs :
       \/ Submit(j) \/ Abandon(j) \/ Withdraw(j)
       \/ \E w \in Workers : Take(j, w)
       \/ \E p \in {"queued", "done", "failed"} : Release(j, p)
  \/ \E S \in SUBSET Jobs : Reclaim(S) \/ Delete(S)

Spec == Init /\ [][Next]_cvars
=============================================================================
