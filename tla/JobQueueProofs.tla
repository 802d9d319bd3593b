--------------------------- MODULE JobQueueProofs ---------------------------
(***************************************************************************)
(* Theorems about the job queue, for any number of jobs and workers, any   *)
(* lease length and any bounds.                                            *)
(***************************************************************************)
EXTENDS JobQueue, FiniteSetTheorems, TLAPS

-----------------------------------------------------------------------------
(***************************************************************************)
(* Types.  Lapsed and Unset are left unexpanded: the provers need only     *)
(* these facts.                                                            *)
(***************************************************************************)

\* A lease is Lapsed or counts down to it, one tick at a time.
LEMMA LeaseRange ==
  /\ Lapsed \in Lapsed .. Lease
  /\ Lease \in Lapsed .. Lease
  /\ Lapsed < 0
  /\ \A l \in Lapsed .. Lease : l # Lapsed => l >= 0 /\ l - 1 \in Lapsed .. Lease
  BY ConstantsOK DEF Lapsed

\* A delay is Unset or counts down to zero.
LEMMA DelayRange ==
  /\ Unset \in Unset .. MaxDelay
  /\ \A d \in Unset .. MaxDelay : d \in Int /\ (d > 0 => d - 1 \in Unset .. MaxDelay)
  BY ConstantsOK DEF Unset

\* requeue, reap_stale and cancel reset a row to a row.
LEMMA ResetType ==
  ASSUME NEW row \in Row, NEW s \in Status
  PROVE  Reset(row, s) \in Row
  BY LeaseRange DEF Reset, Row

\* A reaper pass leaves a table of rows.
LEMMA ReapedType ==
  ASSUME jobs \in [Jobs -> Row]
  PROVE  Reaped \in [Jobs -> Row]
  BY ResetType DEF Reaped, Status

\* The empty database is well-formed.
LEMMA InitTypeOK == Init => TypeOK
  BY ConstantsOK, LeaseRange, DelayRange DEF Init, TypeOK, Row, Agent, Absent, Idle, Status, Phase

\* Enqueue inserts a well-formed row.
LEMMA EnqueueTypeOK ==
  ASSUME TypeOK, NEW j \in Jobs, NEW d \in Unset .. MaxDelay, Enqueue(j, d)
  PROVE  TypeOK'
<1>1. [jobs[j] EXCEPT !.status = "queued", !.delay = d, !.created = arrivals] \in Row
  BY DEF TypeOK, Row, Status
<1> QED
  BY <1>1 DEF Enqueue, TypeOK

\* Time moves every row's deadlines within their ranges.
LEMMA TickTypeOK ==
  ASSUME TypeOK, Tick
  PROVE  TypeOK'
<1> SUFFICES ASSUME NEW j \in Jobs
             PROVE  [jobs[j] EXCEPT !.lease = IF @ = Lapsed THEN @ ELSE @ - 1,
                                    !.delay = IF @ <= 0 THEN @ ELSE @ - 1] \in Row
  BY DEF Tick, TypeOK
<1>1. jobs[j] \in Row
  BY DEF TypeOK
<1>2. \A l \in Lapsed .. Lease, d \in Unset .. MaxDelay :
        [jobs[j] EXCEPT !.lease = l, !.delay = d] \in Row
  BY <1>1 DEF Row
<1>3. (IF jobs[j].lease = Lapsed THEN jobs[j].lease ELSE jobs[j].lease - 1)
        \in Lapsed .. Lease
  BY <1>1, LeaseRange DEF Row
<1>4. (IF jobs[j].delay <= 0 THEN jobs[j].delay ELSE jobs[j].delay - 1)
        \in Unset .. MaxDelay
  <2>1. jobs[j].delay \in Unset .. MaxDelay /\ jobs[j].delay \in Int
    BY <1>1, DelayRange DEF Row
  <2> QED
    BY <2>1, DelayRange
<1> QED
  BY <1>2, <1>3, <1>4

\* heartbeat writes a lease in range, or nothing.
LEMMA HeartbeatTypeOK ==
  ASSUME TypeOK, NEW w \in Workers, NEW j \in Jobs, Heartbeat(w, j)
  PROVE  TypeOK'
<1>1. \A l \in {Lease, jobs[j].lease} : [jobs[j] EXCEPT !.lease = l] \in Row
  BY LeaseRange DEF TypeOK, Row
<1> QED
  BY <1>1 DEF Heartbeat, TypeOK, Agent, Phase

\* What an ending of run_once writes into a row: nothing, if the row is gone.
LEMMA EndedRow ==
  ASSUME NEW row \in Row, NEW s \in {"queued", "done", "failed"}
  PROVE  /\ row.status = "gone" => Ended(row, s) = row
         /\ row.status # "gone" => /\ Ended(row, s).status = s
                                  /\ Ended(row, s).lease = Lapsed
         /\ Ended(row, s).attempts = row.attempts
<1>1. CASE row.status = "gone"
  BY <1>1 DEF Ended
<1>2. CASE row.status # "gone" /\ s = "queued"
  <2>1. Ended(row, s) = [Reset(row, s) EXCEPT !.delay = Unset]
    BY <1>2 DEF Ended
  <2> QED
    BY <1>2, <2>1 DEF Reset, Row
<1>3. CASE row.status # "gone" /\ s # "queued"
  BY <1>3 DEF Ended, Row
<1> QED
  BY <1>1, <1>2, <1>3

\* Every ending of run_once leaves a well-formed row.
LEMMA FinishTypeOK ==
  ASSUME TypeOK, NEW w \in Workers, NEW j \in Jobs,
         NEW s \in {"queued", "done", "failed"},
         Finish(w, j, s), retries' \in [Jobs -> Nat]
  PROVE  TypeOK'
<1>1. jobs[j] \in Row /\ s \in Status
  BY DEF TypeOK, Status, Terminal
<1>2. [Reset(jobs[j], s) EXCEPT !.delay = Unset] \in Row
  BY <1>1, ResetType, DelayRange DEF Row
<1>3. [jobs[j] EXCEPT !.status = s, !.lease = Lapsed] \in Row
  BY <1>1, LeaseRange DEF Row
<1>4. Ended(jobs[j], s) \in Row
  BY <1>1, <1>2, <1>3 DEF Ended
<1> QED
  BY <1>4 DEF Finish, TypeOK, Agent, Idle, Phase

\* Every step keeps the table and the workers well-formed.
LEMMA NextTypeOK == TypeOK /\ [Next]_vars => TypeOK'
<1> SUFFICES ASSUME TypeOK, [Next]_vars PROVE TypeOK'
  OBVIOUS
<1>2. ASSUME NEW j \in Jobs, Cancel(j) PROVE TypeOK'
  BY <1>2, ResetType DEF Cancel, TypeOK, Status, Terminal
<1>20. ASSUME NEW j \in Jobs, Remove(j) PROVE TypeOK'
  BY <1>20, ResetType DEF Remove, TypeOK, Status
<1>3. CASE ReapRoute
  BY <1>3, ReapedType DEF ReapRoute, TypeOK
<1>4. CASE ForceRecover
  BY <1>4, ResetType DEF ForceRecover, TypeOK, Status
<1>6. ASSUME NEW w \in Workers, ReapBeforePoll(w) PROVE TypeOK'
  BY <1>6, ReapedType DEF ReapBeforePoll, TypeOK, Agent, Idle, Phase
<1>7. ASSUME NEW w \in Workers, EmptyPoll(w) PROVE TypeOK'
  BY <1>7 DEF EmptyPoll, TypeOK, Agent, Idle, Phase
<1>8. ASSUME NEW w \in Workers, NEW j \in Jobs, Claim(w, j) PROVE TypeOK'
  BY <1>8, LeaseRange DEF Claim, Granted, TypeOK, Row, Agent, Status, Phase
<1>21. ASSUME NEW w \in Workers, NEW j \in Jobs, ClaimSelect(w, j) PROVE TypeOK'
  BY <1>21 DEF ClaimSelect, TypeOK, Agent, Phase
<1>22. ASSUME NEW w \in Workers, NEW j \in Jobs, ClaimLost(w, j) PROVE TypeOK'
  BY <1>22 DEF ClaimLost, TypeOK, Agent, Idle, Phase
<1>9. ASSUME NEW w \in Workers, NEW j \in Jobs, Fetch(w, j) PROVE TypeOK'
  BY <1>9 DEF Fetch, TypeOK, Row, Agent, Idle, Phase
<1>11. ASSUME NEW w \in Workers, NEW j \in Jobs, ReportRead(w, j) PROVE TypeOK'
  BY <1>11 DEF ReportRead, TypeOK, Agent, Phase
<1>12. ASSUME NEW w \in Workers, NEW j \in Jobs, ReportWrite(w, j) PROVE TypeOK'
  <2>1. \A l \in {Lease, jobs[j].lease} : [jobs[j] EXCEPT !.lease = l] \in Row
    BY LeaseRange DEF TypeOK, Row
  <2> QED
    BY <1>12, <2>1 DEF ReportWrite, TypeOK, Agent, Phase
<1>14. ASSUME NEW w \in Workers, NEW j \in Jobs, Complete(w, j) PROVE TypeOK'
  BY <1>14, FinishTypeOK DEF Complete, TypeOK
<1>15. ASSUME NEW w \in Workers, NEW j \in Jobs, Fail(w, j) PROVE TypeOK'
  BY <1>15, FinishTypeOK DEF Fail, TypeOK
<1>16. ASSUME NEW w \in Workers, NEW j \in Jobs, Requeue(w, j) PROVE TypeOK'
  BY <1>16, FinishTypeOK DEF Requeue, TypeOK
<1>17. ASSUME NEW w \in Workers, NEW p \in {"down", "loop"}, Drop(w, p) PROVE TypeOK'
  BY <1>17, ConstantsOK DEF Drop, TypeOK, Agent, Idle, Phase
<1>18. ASSUME NEW w \in Workers, Restart(w) PROVE TypeOK'
  BY <1>18 DEF Restart, TypeOK, Agent, Idle, Phase
<1>19. CASE UNCHANGED vars
  BY <1>19 DEF vars, TypeOK
<1> QED
  BY <1>2, <1>3, <1>4, <1>6, <1>7, <1>8, <1>9, <1>11, <1>12, <1>14, <1>15, <1>16,
     <1>17, <1>18, <1>19, <1>20, <1>21, <1>22, EnqueueTypeOK, TickTypeOK, HeartbeatTypeOK
  DEF Next, Run, Kill, Escape

\* Every row of the jobs table and every worker stays well-formed, whatever
\* stalls, is killed or is forced.
THEOREM TypeCorrect == Spec => []TypeOK
  BY InitTypeOK, NextTypeOK, PTL DEF Spec

-----------------------------------------------------------------------------
(***************************************************************************)
(* Claims are distinct, because a claim's number is the row's attempts     *)
(* after the claim, and nothing ever lowers a row's attempts.              *)
(***************************************************************************)

ClaimsCounted ==
  \A w \in Workers, j \in Jobs : Holds(w, j) => agent[w].claim <= jobs[j].attempts

ClaimInv == ClaimsCounted /\ ClaimsAreDistinct

\* A step in which every worker keeps its claim or lets go of it.
ClaimsKept ==
  \A w \in Workers, j \in Jobs :
    Holds(w, j)' => Holds(w, j) /\ agent'[w].claim = agent[w].claim

\* A step in which every worker keeps its claim or lets go of it, and no
\* row's attempts go down, keeps the invariant.
LEMMA QuietClaims ==
  ASSUME TypeOK, TypeOK', ClaimInv, ClaimsKept,
         \A j \in Jobs : jobs'[j].attempts >= jobs[j].attempts
  PROVE  ClaimInv'
<1>1. \A w \in Workers, j \in Jobs :
        Holds(w, j)' => Holds(w, j) /\ agent'[w].claim = agent[w].claim
  BY DEF ClaimsKept
<1>2. \A j \in Jobs : jobs[j].attempts \in Nat /\ jobs'[j].attempts \in Nat
  BY DEF TypeOK, Row
<1>3. \A w \in Workers : agent[w].claim \in Nat
  BY DEF TypeOK, Agent
<1>4. ClaimsCounted'
  BY <1>1, <1>2, <1>3 DEF ClaimInv, ClaimsCounted
<1>5. ClaimsAreDistinct'
  BY <1>1 DEF ClaimInv, ClaimsAreDistinct
<1> QED
  BY <1>4, <1>5 DEF ClaimInv

\* A new claim is numbered above every claim made before it.
LEMMA ClaimClaims ==
  ASSUME TypeOK, TypeOK', ClaimInv, NEW w \in Workers, NEW j \in Jobs, Claim(w, j)
  PROVE  ClaimInv'
<1>1. /\ agent'[w].job = j
      /\ agent'[w].claim = jobs[j].attempts + 1
      /\ \A v \in Workers \ {w} : agent'[v] = agent[v]
  BY DEF Claim, Granted, TypeOK
<1>2. /\ jobs'[j].attempts = jobs[j].attempts + 1
      /\ \A k \in Jobs \ {j} : jobs'[k] = jobs[k]
  BY DEF Claim, TypeOK, Row
<1>3. \A k \in Jobs : jobs[k].attempts \in Nat
  BY DEF TypeOK, Row
<1>4. \A v \in Workers : agent[v].claim \in Nat
  BY DEF TypeOK, Agent
<1>5. ClaimsCounted'
  BY <1>1, <1>2, <1>3, <1>4 DEF ClaimInv, ClaimsCounted, Holds
<1>6. \A v \in Workers \ {w} : Holds(v, j)' => agent'[v].claim < agent'[w].claim
  BY <1>1, <1>3, <1>4 DEF ClaimInv, ClaimsCounted, Holds
<1>7. ClaimsAreDistinct'
  BY <1>1, <1>3, <1>4, <1>6 DEF ClaimInv, ClaimsAreDistinct, Holds
<1> QED
  BY <1>5, <1>7 DEF ClaimInv

\* Only claim() changes a row's attempts or hands a worker a job.
LEMMA ClaimsOnlyByClaim ==
  ASSUME TypeOK, [Next]_vars, ~ \E w \in Workers, j \in Jobs : Claim(w, j)
  PROVE  ClaimsKept /\ \A j \in Jobs : jobs'[j].attempts = jobs[j].attempts
<1> DEFINE Let(w) == \/ agent'[w] = agent[w]
                     \/ agent'[w].job = NoJob
                     \/ agent'[w].pc = "selected"
                     \/ /\ agent'[w].job = agent[w].job
                        /\ agent'[w].claim = agent[w].claim
                        /\ agent[w].pc # "selected"
           Kept == /\ \A w \in Workers : Let(w)
                   /\ \A j \in Jobs : jobs'[j].attempts = jobs[j].attempts
<1>a. ASSUME UNCHANGED agent PROVE \A w \in Workers : Let(w)
  BY <1>a
<1>b. ASSUME NEW row \in Row, NEW s \in Status PROVE Reset(row, s).attempts = row.attempts
  BY DEF Reset, Row
<1>c. \A j \in Jobs : Reaped[j].attempts = jobs[j].attempts
  BY <1>b DEF Reaped, TypeOK, Status
<1> HIDE DEF Let
<1>1. ASSUME NEW j \in Jobs, NEW d \in Unset .. MaxDelay, Enqueue(j, d) PROVE Kept
  BY <1>1, <1>a DEF Enqueue, TypeOK, Row
<1>17. ASSUME NEW j \in Jobs, Remove(j) PROVE Kept
  BY <1>17, <1>a, <1>b DEF Remove, TypeOK, Status
<1>2. ASSUME NEW j \in Jobs, Cancel(j) PROVE Kept
  BY <1>2, <1>a, <1>b DEF Cancel, TypeOK, Status, Terminal
<1>3. ASSUME ReapRoute PROVE Kept
  BY <1>3, <1>a, <1>c DEF ReapRoute
<1>4. ASSUME ForceRecover PROVE Kept
  BY <1>4, <1>a, <1>b DEF ForceRecover, TypeOK, Status
<1>5. ASSUME Tick PROVE Kept
  BY <1>5, <1>a DEF Tick, TypeOK, Row
<1>6. ASSUME NEW w \in Workers, ReapBeforePoll(w) PROVE Kept
  BY <1>6, <1>c DEF ReapBeforePoll, Idle, TypeOK, Let
<1>7. ASSUME NEW w \in Workers, EmptyPoll(w) PROVE Kept
  BY <1>7 DEF EmptyPoll, Idle, TypeOK, Let
<1>9. ASSUME NEW w \in Workers, NEW j \in Jobs, Fetch(w, j) PROVE Kept
  BY <1>9 DEF Fetch, Idle, TypeOK, Agent, Let
<1>10. ASSUME NEW w \in Workers, NEW j \in Jobs, Heartbeat(w, j) PROVE Kept
  <2>1. \A k \in Jobs : jobs'[k].attempts = jobs[k].attempts
    BY <1>10 DEF Heartbeat, TypeOK, Row
  <2>2. \A v \in Workers : Let(v)
    BY <1>10 DEF Heartbeat, TypeOK, Agent, Let
  <2> QED
    BY <2>1, <2>2
<1>11. ASSUME NEW w \in Workers, NEW j \in Jobs, ReportRead(w, j) PROVE Kept
  BY <1>11 DEF ReportRead, TypeOK, Agent, Let
<1>12. ASSUME NEW w \in Workers, NEW j \in Jobs, ReportWrite(w, j) PROVE Kept
  <2>1. \A k \in Jobs : jobs'[k].attempts = jobs[k].attempts
    BY <1>12 DEF ReportWrite, TypeOK, Row
  <2>2. \A v \in Workers : Let(v)
    BY <1>12 DEF ReportWrite, TypeOK, Agent, Let
  <2> QED
    BY <2>1, <2>2
<1>13. ASSUME NEW w \in Workers, NEW j \in Jobs, NEW s \in {"queued", "done", "failed"},
              Finish(w, j, s)
       PROVE  Kept
  <2>1. Ended(jobs[j], s).attempts = jobs[j].attempts
    BY EndedRow DEF TypeOK
  <2> QED
    BY <1>13, <2>1 DEF Finish, Idle, TypeOK, Let
<1>14. ASSUME NEW w \in Workers, NEW p \in {"down", "loop"}, Drop(w, p) PROVE Kept
  BY <1>14 DEF Drop, Idle, TypeOK, Let
<1>15. ASSUME NEW w \in Workers, Restart(w) PROVE Kept
  BY <1>15 DEF Restart, Idle, TypeOK, Let
<1>16. ASSUME UNCHANGED vars PROVE Kept
  BY <1>16, <1>a DEF vars
<1>18. ASSUME NEW w \in Workers, NEW j \in Jobs, ClaimSelect(w, j) PROVE Kept
  BY <1>18 DEF ClaimSelect, TypeOK, Agent, Let
<1>19. ASSUME NEW w \in Workers, NEW j \in Jobs, ClaimLost(w, j) PROVE Kept
  BY <1>19 DEF ClaimLost, Idle, TypeOK, Let
<1>20. Kept
  BY <1>1, <1>2, <1>3, <1>4, <1>5, <1>6, <1>7, <1>9, <1>10, <1>11, <1>12, <1>13,
     <1>14, <1>15, <1>16, <1>17, <1>18, <1>19
  DEF Next, Run, Kill, Escape, Complete, Fail, Requeue
<1> QED
  BY <1>20, ConstantsOK DEF ClaimsKept, Holds, Let

\* Every step keeps the invariant.
LEMMA NextClaimInv == TypeOK /\ TypeOK' /\ ClaimInv /\ [Next]_vars => ClaimInv'
<1> SUFFICES ASSUME TypeOK, TypeOK', ClaimInv, [Next]_vars,
                    ~ \E w \in Workers, j \in Jobs : Claim(w, j)
             PROVE  ClaimInv'
  BY ClaimClaims
<1>1. \A j \in Jobs : jobs'[j].attempts >= jobs[j].attempts
  BY ClaimsOnlyByClaim DEF TypeOK, Row
<1> QED
  BY <1>1, ClaimsOnlyByClaim, QuietClaims

\* Whatever stalls, dies, is reaped or forced, no two workers ever work on a
\* job under one and the same claim.
THEOREM DistinctClaims == Spec => []ClaimsAreDistinct
<1>1. Init => ClaimInv
  BY ConstantsOK DEF Init, ClaimInv, ClaimsCounted, ClaimsAreDistinct, Holds, Idle
<1>2. ClaimInv => ClaimsAreDistinct
  BY DEF ClaimInv
<1> QED
  BY <1>1, <1>2, NextClaimInv, TypeCorrect, PTL DEF Spec

-----------------------------------------------------------------------------
(***************************************************************************)
(* While workers are punctual and nobody forces a recovery, a lapsed lease *)
(* means a lost worker.  The inductive invariant says that whoever works   *)
(* on a job made its latest claim and still has its lease.                 *)
(***************************************************************************)

IdleHoldsNothing ==
  \A w \in Workers : agent[w].pc \in {"loop", "poll", "down"} => agent[w].job = NoJob

ClaimIsLatest == \A w \in Workers, j \in Jobs : Holds(w, j) => Claimant(w, j)

OwnInv == IdleHoldsNothing /\ OneWorkerPerJob /\ ClaimIsLatest /\ LeaseMeansRunning

\* A step that touches no row that is worked on, and in which workers keep
\* their jobs or let go of them, keeps the invariant.
LEMMA QuietOwners ==
  ASSUME TypeOK, OwnInv, IdleHoldsNothing', LeaseMeansRunning',
         ClaimsKept,
         \A w \in Workers, j \in Jobs :
           Holds(w, j)' => /\ jobs'[j].attempts = jobs[j].attempts
                           /\ \/ jobs'[j].status = "gone"
                              \/ /\ jobs'[j].status = "running" /\ jobs'[j].lease >= 0
                                 /\ jobs'[j].worker = jobs[j].worker
                                 /\ jobs[j].status # "gone"
  PROVE  OwnInv'
<1>1. \A w \in Workers, j \in Jobs :
        Holds(w, j)' => Holds(w, j) /\ agent'[w].claim = agent[w].claim
  BY DEF ClaimsKept
<1>2. OneWorkerPerJob'
  BY <1>1 DEF OwnInv, OneWorkerPerJob, LeaseLive
<1>3. ClaimIsLatest'
  BY <1>1 DEF OwnInv, ClaimIsLatest, Claimant
<1> QED
  BY <1>2, <1>3 DEF OwnInv

\* The new owner of a claimed row is its only one: nobody works on a queued row.
LEMMA ClaimOwners ==
  ASSUME TypeOK, OwnInv, NEW w \in Workers, NEW j \in Jobs, Claim(w, j)
  PROVE  OwnInv'
<1>1. /\ agent' = [agent EXCEPT ![w] = [pc |-> "claimed", job |-> j, attempts |-> 0,
                                        claim |-> jobs[j].attempts + 1]]
      /\ agent'[w] = [pc |-> "claimed", job |-> j, attempts |-> 0,
                      claim |-> jobs[j].attempts + 1]
      /\ \A v \in Workers \ {w} : agent'[v] = agent[v]
  BY DEF Claim, Granted, TypeOK
<1>2. /\ jobs'[j].status = "running"
      /\ jobs'[j].worker = w
      /\ jobs'[j].attempts = jobs[j].attempts + 1
      /\ jobs'[j].lease = Lease
      /\ \A k \in Jobs \ {j} : jobs'[k] = jobs[k]
  BY DEF Claim, TypeOK, Row
<1>3. \A v \in Workers : ~Holds(v, j)
  BY DEF Claim, OwnInv, OneWorkerPerJob, LeaseLive
<1>4. /\ \A v \in Workers : Holds(v, j)' => v = w
      /\ \A k \in Jobs \ {j} : \A v \in Workers : Holds(v, k)' => Holds(v, k) /\ v # w
  BY <1>1, <1>3 DEF Holds
<1>5. OneWorkerPerJob'
  BY <1>1, <1>2, <1>4, ConstantsOK DEF OwnInv, OneWorkerPerJob, LeaseLive
<1>6. ClaimIsLatest'
  BY <1>1, <1>2, <1>4 DEF OwnInv, ClaimIsLatest, Claimant
<1>7. LeaseMeansRunning'
  BY <1>2 DEF OwnInv, LeaseMeansRunning
<1>8. IdleHoldsNothing'
  BY <1>1 DEF OwnInv, IdleHoldsNothing
<1> QED
  BY <1>5, <1>6, <1>7, <1>8 DEF OwnInv

\* Every step of punctual, unforced workers keeps the invariant.
LEMMA NextOwnInv ==
  ASSUME Punctual, ~Forceable, TypeOK, OwnInv, [Next]_vars
  PROVE  OwnInv'
<1> USE ConstantsOK, LeaseRange
<1> SUFFICES ASSUME ~ \E w \in Workers, j \in Jobs : Claim(w, j)
             PROVE  OwnInv'
  BY ClaimOwners
<1>a. ClaimsKept /\ \A j \in Jobs : jobs'[j].attempts = jobs[j].attempts
  BY ClaimsOnlyByClaim
<1>b. \A w \in Workers, j \in Jobs :
        Holds(w, j)' => \/ jobs[j].status = "gone"
                        \/ jobs[j].status = "running" /\ jobs[j].lease >= 0
  BY <1>a DEF OwnInv, OneWorkerPerJob, LeaseLive, ClaimsKept
<1>1. ASSUME NEW j \in Jobs, NEW d \in Unset .. MaxDelay, Enqueue(j, d) PROVE OwnInv'
  <2>1. IdleHoldsNothing' /\ LeaseMeansRunning'
    BY <1>1 DEF Enqueue, OwnInv, IdleHoldsNothing, LeaseMeansRunning, TypeOK, Row
  <2>2. \A k \in Jobs \ {j} : jobs'[k] = jobs[k]
    BY <1>1 DEF Enqueue, TypeOK
  <2> QED
    BY <1>1, <1>a, <1>b, <2>1, <2>2, QuietOwners DEF Enqueue
<1>2. ASSUME NEW j \in Jobs, NEW s \in Status, ~LeaseLive(j), s = "gone" \/ jobs[j].status # "gone",
             jobs' = [jobs EXCEPT ![j] = Reset(jobs[j], s)], UNCHANGED agent
      PROVE  OwnInv'
  <2>1. jobs'[j].lease = Lapsed /\ \A k \in Jobs \ {j} : jobs'[k] = jobs[k]
    BY <1>2 DEF Reset, TypeOK, Row
  <2>2. IdleHoldsNothing' /\ LeaseMeansRunning'
    BY <1>2, <2>1 DEF OwnInv, IdleHoldsNothing, LeaseMeansRunning
  <2>3. jobs[j].status = "gone" => jobs'[j].status = "gone"
    BY <1>2 DEF Reset, TypeOK, Row
  <2> QED
    BY <1>2, <1>a, <1>b, <2>1, <2>2, <2>3, QuietOwners DEF LeaseLive
<1>9. ASSUME NEW j \in Jobs, Remove(j) PROVE OwnInv'
  <2>1. jobs'[j].status = "gone" /\ jobs'[j].lease = Lapsed
        /\ \A k \in Jobs \ {j} : jobs'[k] = jobs[k]
    BY <1>9 DEF Remove, Reset, TypeOK, Row
  <2>2. IdleHoldsNothing' /\ LeaseMeansRunning'
    BY <1>9, <2>1 DEF Remove, OwnInv, IdleHoldsNothing, LeaseMeansRunning
  <2> QED
    BY <1>a, <1>b, <2>1, <2>2, QuietOwners
<1>3. ASSUME jobs' = Reaped,
             \A w \in Workers : agent'[w] = agent[w] \/ agent'[w] = Idle("poll")
      PROVE  OwnInv'
  <2>1. \A k \in Jobs : ~Stale(k) => jobs'[k] = jobs[k]
    BY <1>3 DEF Reaped
  <2>2. IdleHoldsNothing'
    BY <1>3 DEF Idle, OwnInv, IdleHoldsNothing
  <2>3. \A k \in Jobs : Stale(k) => jobs'[k].lease = Lapsed
    BY <1>3 DEF Reaped, Reset, TypeOK, Row
  <2>4. LeaseMeansRunning'
    BY <2>1, <2>3 DEF OwnInv, LeaseMeansRunning
  <2>5. \A k \in Jobs : jobs[k].lease >= 0 => ~Stale(k)
    BY DEF Stale, TypeOK, Row, Lapsed
  <2> QED
    BY <1>a, <1>b, <2>1, <2>2, <2>4, <2>5, QuietOwners DEF Stale
<1>4. CASE Tick
  <2>1. \A w \in Workers, k \in Jobs : Holds(w, k)' => jobs[k].lease # 0
    BY <1>4, <1>a DEF Tick, ClaimsKept
  <2>2. \A k \in Jobs :
          /\ jobs'[k].status = jobs[k].status /\ jobs'[k].worker = jobs[k].worker
          /\ jobs'[k].lease = IF jobs[k].lease = Lapsed THEN jobs[k].lease
                                                        ELSE jobs[k].lease - 1
    BY <1>4 DEF Tick, TypeOK, Row
  <2>3. \A k \in Jobs : jobs[k].lease \in Lapsed .. Lease /\ jobs[k].lease \in Int
    BY DEF TypeOK, Row, Lapsed
  <2>4. LeaseMeansRunning'
    BY <2>2, <2>3 DEF OwnInv, LeaseMeansRunning
  <2>5. IdleHoldsNothing'
    BY <1>4 DEF Tick, OwnInv, IdleHoldsNothing
  <2>6. \A w \in Workers, k \in Jobs :
          Holds(w, k)' => jobs[k].status = "gone" \/ jobs'[k].lease >= 0
    BY <1>b, <2>1, <2>2, <2>3
  <2> QED
    BY <1>a, <1>b, <2>2, <2>4, <2>5, <2>6, QuietOwners
<1>5. ASSUME NEW w \in Workers, UNCHANGED jobs,
             \/ \E p \in Phase : agent' = [agent EXCEPT ![w] = Idle(p)]
             \/ \E j \in Jobs : agent' = [agent EXCEPT ![w].pc = "selected", ![w].job = j]
      PROVE  OwnInv'
  <2>1. \A v \in Workers : \/ agent'[v] = agent[v]
                           \/ agent'[v].job = NoJob
                           \/ agent'[v].pc = "selected"
    BY <1>5 DEF Idle, TypeOK, Agent
  <2>2. IdleHoldsNothing' /\ LeaseMeansRunning'
    BY <1>5, <2>1 DEF OwnInv, IdleHoldsNothing, LeaseMeansRunning
  <2> QED
    BY <1>5, <1>a, <1>b, <2>2, QuietOwners
<1>6. ASSUME NEW w \in Workers, NEW j \in Jobs, Holds(w, j),
             \/ Fetch(w, j) /\ jobs[j].status # "gone"
             \/ Heartbeat(w, j) \/ ReportRead(w, j) \/ ReportWrite(w, j)
      PROVE  OwnInv'
  <2>1. \A k \in Jobs :
          /\ jobs'[k].status = jobs[k].status /\ jobs'[k].worker = jobs[k].worker
          /\ \/ jobs'[k].lease = jobs[k].lease
             \/ k = j /\ jobs'[k].lease = Lease /\ jobs[k].status # "gone"
    <3>1. CASE Fetch(w, j) \/ ReportRead(w, j)
      BY <3>1 DEF Fetch, ReportRead
    <3>2. CASE Heartbeat(w, j)
      BY <3>2 DEF Heartbeat, LeaseLive, TypeOK, Row
    <3>3. CASE ReportWrite(w, j)
      BY <3>3 DEF ReportWrite, TypeOK, Row
    <3> QED
      BY <1>6, <3>1, <3>2, <3>3
  <2>2. /\ \A v \in Workers \ {w} : agent'[v] = agent[v]
        /\ agent'[w].pc \in {"fetched", "working", "reporting"}
    BY <1>6 DEF Fetch, Heartbeat, ReportRead, ReportWrite, TypeOK, Agent
  <2>3. IdleHoldsNothing'
    BY <2>2 DEF OwnInv, IdleHoldsNothing
  <2>4. jobs[j].status \in {"gone", "running"}
    BY <1>6 DEF OwnInv, OneWorkerPerJob, LeaseLive
  <2>5. LeaseMeansRunning'
    BY <2>1, <2>4 DEF OwnInv, LeaseMeansRunning
  <2> QED
    BY <1>a, <1>b, <2>1, <2>3, <2>5, QuietOwners
<1>7. ASSUME NEW w \in Workers, NEW j \in Jobs, NEW s \in {"queued", "done", "failed"},
             Finish(w, j, s)
      PROVE  OwnInv'
  <2>1. \A v \in Workers : ~Holds(v, j)'
    <3>1. \A v \in Workers : Holds(v, j) => v = w
      BY <1>7 DEF Finish, OwnInv, OneWorkerPerJob
    <3>2. ~Holds(w, j)'
      BY <1>7 DEF Finish, Holds, Idle, TypeOK
    <3> QED
      BY <1>a, <3>1, <3>2 DEF ClaimsKept
  <2>2. /\ \A k \in Jobs \ {j} : jobs'[k] = jobs[k]
        /\ jobs'[j].lease = Lapsed \/ jobs'[j] = jobs[j]
    <3>1. Ended(jobs[j], s).lease = Lapsed \/ Ended(jobs[j], s) = jobs[j]
      BY EndedRow DEF TypeOK
    <3> QED
      BY <1>7, <3>1 DEF Finish, TypeOK
  <2>3. IdleHoldsNothing' /\ LeaseMeansRunning'
    BY <1>7, <2>2 DEF Finish, Idle, OwnInv, IdleHoldsNothing, LeaseMeansRunning, TypeOK
  <2> QED
    BY <1>a, <1>b, <2>1, <2>2, <2>3, QuietOwners
<1>8. CASE UNCHANGED vars
  BY <1>8
  DEF vars, OwnInv, IdleHoldsNothing, OneWorkerPerJob, ClaimIsLatest, LeaseMeansRunning,
      Holds, Claimant, LeaseLive
<1>10. ASSUME NEW w \in Workers, NEW j \in Jobs, Fetch(w, j) PROVE OwnInv'
  BY <1>5, <1>6, <1>10 DEF Fetch, Phase
<1>11. ASSUME NEW j \in Jobs, Cancel(j) PROVE OwnInv'
  <2>1. ~LeaseLive(j) /\ jobs[j].status # "gone"
    BY <1>11 DEF Cancel, LeaseLive, Stale, TypeOK, Row, Lapsed
  <2> QED
    BY <1>2, <1>11, <2>1 DEF Cancel, Status, Terminal
<1>12. ASSUME NEW w \in Workers,
              \/ EmptyPoll(w) \/ Restart(w)
              \/ \E p \in {"loop", "down"} : Drop(w, p)
              \/ \E j \in Jobs : ClaimSelect(w, j) \/ ClaimLost(w, j)
       PROVE  OwnInv'
  BY <1>5, <1>12 DEF EmptyPoll, Restart, Drop, ClaimSelect, ClaimLost, Phase
<1>13. ASSUME NEW w \in Workers, ReapBeforePoll(w) PROVE OwnInv'
  BY <1>3, <1>13 DEF ReapBeforePoll, TypeOK
<1> QED
  BY <1>1, <1>3, <1>4, <1>6, <1>7, <1>8, <1>9, <1>10, <1>11, <1>12, <1>13
  DEF Next, Run, ReapRoute, ForceRecover, Kill, Escape,
      Heartbeat, ReportRead, ReportWrite, Complete, Fail, Requeue

\* The invariant holds of every run of punctual, unforced workers.
LEMMA OwnersAlways ==
  ASSUME Punctual, ~Forceable
  PROVE  Spec => []OwnInv
<1>1. Init => OwnInv
  BY ConstantsOK, LeaseRange
  DEF Init, OwnInv, IdleHoldsNothing, OneWorkerPerJob, ClaimIsLatest, LeaseMeansRunning,
      Holds, Idle, Absent
<1>2. TypeOK /\ OwnInv /\ [Next]_vars => OwnInv'
  BY NextOwnInv
<1> QED
  BY <1>1, <1>2, TypeCorrect, PTL DEF Spec

\* While workers outlive no lease and nobody forces a recovery, a job never
\* has two workers at once.
THEOREM ExclusiveWork ==
  ASSUME Punctual, ~Forceable
  PROVE  Spec => []OneWorkerPerJob
<1>1. OwnInv => OneWorkerPerJob
  BY DEF OwnInv
<1> QED
  BY <1>1, OwnersAlways, PTL

\* ... and only a running job ever holds a lease.
THEOREM LeasesOnlyWhileRunning ==
  ASSUME Punctual, ~Forceable
  PROVE  Spec => []LeaseMeansRunning
<1>1. OwnInv => LeaseMeansRunning
  BY DEF OwnInv
<1> QED
  BY <1>1, OwnersAlways, PTL

-----------------------------------------------------------------------------
(***************************************************************************)
(* What a step may do to a job follows from the invariant: it is enough to *)
(* look at the steps that change a row's status or attempts.               *)
(***************************************************************************)

\* The steps by which a row's status or attempts can change, and from what.
LEMMA RowChanges ==
  ASSUME ~Forceable, TypeOK, OwnInv, [Next]_vars, NEW j \in Jobs,
         jobs'[j].status # jobs[j].status \/ jobs'[j].attempts # jobs[j].attempts
  PROVE  \/ jobs[j].status \in {"absent", "queued"}
         \/ Stale(j)
         \/ jobs'[j].status = "gone" /\ jobs'[j].attempts = jobs[j].attempts
         \/ \E w \in Workers : Claimant(w, j) /\ LeaseLive(j) /\ ~Holds(w, j)'
<1> DEFINE Goal == \/ jobs[j].status \in {"absent", "queued"}
                   \/ Stale(j)
                   \/ jobs'[j].status = "gone" /\ jobs'[j].attempts = jobs[j].attempts
                   \/ \E w \in Workers : Claimant(w, j) /\ LeaseLive(j) /\ ~Holds(w, j)'
<1>1. ASSUME NEW k \in Jobs, NEW d \in Unset .. MaxDelay, Enqueue(k, d) PROVE Goal
  BY <1>1 DEF Enqueue, TypeOK
<1>11. ASSUME NEW k \in Jobs, Remove(k) PROVE Goal
  BY <1>11 DEF Remove, Reset, TypeOK, Row
<1>2. ASSUME NEW k \in Jobs, Cancel(k) PROVE Goal
  BY <1>2 DEF Cancel, TypeOK
<1>3. CASE jobs' = Reaped
  BY <1>3 DEF Reaped
<1>4. CASE Tick
  BY <1>4 DEF Tick, TypeOK, Row
<1>5. CASE jobs' = jobs
  BY <1>5
<1>6. ASSUME NEW w \in Workers, NEW k \in Jobs, Claim(w, k) PROVE Goal
  BY <1>6 DEF Claim, TypeOK
<1>7. ASSUME NEW w \in Workers, NEW k \in Jobs, Heartbeat(w, k) PROVE Goal
  BY <1>7 DEF Heartbeat, TypeOK, Row
<1>8. ASSUME NEW w \in Workers, NEW k \in Jobs, ReportWrite(w, k) PROVE Goal
  BY <1>8 DEF ReportWrite, TypeOK, Row
<1>9. ASSUME NEW w \in Workers, NEW k \in Jobs, NEW s \in {"queued", "done", "failed"},
             Finish(w, k, s)
      PROVE  Goal
  <2>1. j = k /\ jobs[j].status # "gone"
    BY <1>9, EndedRow DEF Finish, TypeOK
  <2>2. Claimant(w, j) /\ LeaseLive(j)
    BY <1>9, <2>1 DEF Finish, OwnInv, ClaimIsLatest, OneWorkerPerJob
  <2>3. ~Holds(w, j)'
    BY <1>9, ConstantsOK DEF Finish, Holds, Idle, TypeOK
  <2> QED
    BY <2>2, <2>3
<1>10. CASE UNCHANGED vars
  BY <1>10 DEF vars
<1> QED
  BY <1>1, <1>2, <1>3, <1>4, <1>5, <1>6, <1>7, <1>8, <1>9, <1>10, <1>11
  DEF Next, Run, ReapRoute, ForceRecover, ReapBeforePoll, EmptyPoll, Kill, Escape, Drop,
      Restart, ClaimSelect, ClaimLost, Fetch, ReportRead, Complete, Fail, Requeue

\* While workers outlive no lease, a job that is done, failed or cancelled
\* stays so: no late worker, reaper or operator brings it back.
THEOREM TerminalStays ==
  ASSUME Punctual, ~Forceable
  PROVE  Spec => TerminalIsFinal
<1>1. TypeOK /\ OwnInv /\ [Next]_vars =>
        [\A j \in Jobs : jobs[j].status \in Terminal =>
                           jobs'[j].status \in {jobs[j].status, "gone"}]_vars
  BY RowChanges DEF Terminal, Stale, LeaseLive
<1> QED
  BY <1>1, OwnersAlways, TypeCorrect, PTL DEF Spec, TerminalIsFinal

\* ... and a job under a live lease is ended only by the worker that claimed it.
THEOREM LiveLeasesAreSafe ==
  ASSUME Punctual, ~Forceable
  PROVE  Spec => LiveLeaseNeverStolen
<1>1. TypeOK /\ OwnInv /\ [Next]_vars =>
        [\A j \in Jobs : LeaseLive(j) /\ TakenAway(j)
                           => \E w \in Workers : Claimant(w, j) /\ ~Holds(w, j)']_vars
  <2> SUFFICES ASSUME TypeOK, OwnInv, [Next]_vars, NEW j \in Jobs, LeaseLive(j), TakenAway(j)
               PROVE  \E w \in Workers : Claimant(w, j) /\ ~Holds(w, j)'
    OBVIOUS
  <2>1. jobs[j].lease \in Int
    BY DEF TypeOK, Row, Lapsed
  <2> QED
    BY <2>1, RowChanges DEF LeaseLive, Stale, TakenAway
<1> QED
  BY <1>1, OwnersAlways, TypeCorrect, PTL DEF Spec, LiveLeaseNeverStolen

-----------------------------------------------------------------------------
(***************************************************************************)
(* The queue implements its contract.                                      *)
(***************************************************************************)

\* Under the invariant the contract's holder is the worker that has the job.
LEMMA HolderOfWorker ==
  ASSUME OwnInv
  PROVE  /\ \A w \in Workers, j \in Jobs : Holds(w, j) => HolderOf(j) = w
         /\ \A j \in Jobs : (\A w \in Workers : ~Holds(w, j)) => HolderOf(j) = NoWorker
         /\ \A w \in Workers, j \in Jobs : HolderOf(j) = w => Holds(w, j)
<1>1. ASSUME NEW w \in Workers, NEW j \in Jobs, Holds(w, j)
      PROVE  HolderOf(j) = w
  BY <1>1 DEF HolderOf, OwnInv, OneWorkerPerJob
<1>2. ASSUME NEW w \in Workers, NEW j \in Jobs, HolderOf(j) = w
      PROVE  Holds(w, j)
  BY <1>2, ConstantsOK DEF HolderOf
<1> QED
  BY <1>1, <1>2 DEF HolderOf

\* A step that moves no worker onto or off a job leaves the holders alone.
LEMMA HolderUnchanged ==
  ASSUME NEW j \in Jobs, \A w \in Workers : Holds(w, j)' <=> Holds(w, j)
  PROVE  HolderOf(j)' = HolderOf(j)
  BY DEF HolderOf

\* A step that only renews leases or advances workers is a stutter.
LEMMA StutterSteps ==
  ASSUME \A j \in Jobs : jobs'[j].status = jobs[j].status,
         \A w \in Workers, j \in Jobs : Holds(w, j)' <=> Holds(w, j)
  PROVE  UNCHANGED Contract!cvars
<1>1. \A j \in Jobs : HolderOf(j)' = HolderOf(j)
  BY HolderUnchanged
<1> QED
  BY <1>1 DEF Contract!cvars

\* A step that only deletes rows deletes them in the contract.
LEMMA DeletingSteps ==
  ASSUME NEW S \in SUBSET Jobs,
         \A j \in S : jobs[j].status \notin {"absent", "gone"} /\ jobs'[j].status = "gone",
         \A j \in Jobs \ S : jobs'[j].status = jobs[j].status,
         \A w \in Workers, j \in Jobs : Holds(w, j)' <=> Holds(w, j)
  PROVE  Contract!Next
<1>1. \A j \in Jobs : HolderOf(j)' = HolderOf(j)
  BY HolderUnchanged
<1>2. Contract!Delete(S)
  BY <1>1 DEF Contract!Delete
<1> QED
  BY <1>2 DEF Contract!Next

\* Every step of the queue is a step of the contract, or changes nothing in it.
LEMMA ContractStep ==
  ASSUME ~Forceable, TypeOK, OwnInv, OwnInv', [Next]_vars
  PROVE  [Contract!Next]_(Contract!cvars)
<1> DEFINE phase   == [j \in Jobs |-> jobs[j].status]
           holder  == [j \in Jobs |-> HolderOf(j)]
           Goal    == [Contract!Next]_(Contract!cvars)
<1> USE ConstantsOK
<1>a. ASSUME agent' = agent PROVE holder' = holder
  BY <1>a, HolderUnchanged DEF Holds
<1>1. ASSUME NEW j \in Jobs, NEW d \in Unset .. MaxDelay, Enqueue(j, d) PROVE Goal
  <2>1. phase' = [phase EXCEPT ![j] = "queued"]
    BY <1>1 DEF Enqueue, TypeOK, Row
  <2>2. Contract!Submit(j)
    BY <1>1, <1>a, <2>1 DEF Enqueue, Contract!Submit
  <2> QED
    BY <2>2 DEF Contract!Next
<1>15. ASSUME NEW j \in Jobs, Remove(j) PROVE Goal
  <2>1. jobs'[j].status = "gone" /\ \A k \in Jobs \ {j} : jobs'[k] = jobs[k]
    BY <1>15 DEF Remove, Reset, TypeOK, Row
  <2>2. PICK S \in SUBSET Jobs : S = {j}
    OBVIOUS
  <2> QED
    BY <1>15, <2>1, <2>2, DeletingSteps DEF Remove, Holds
<1>2. ASSUME NEW j \in Jobs, Cancel(j) PROVE Goal
  <2>1. phase' = [phase EXCEPT ![j] = "cancelled"]
    BY <1>2 DEF Cancel, Reset, TypeOK, Row
  <2>2. \A w \in Workers : ~Holds(w, j)
    BY <1>2 DEF Cancel, Stale, OwnInv, OneWorkerPerJob, LeaseLive, TypeOK, Row
  <2>3. Contract!Withdraw(j)
    BY <1>2, <1>a, <2>1, <2>2, HolderOfWorker DEF Cancel, Stale, Contract!Withdraw
  <2> QED
    BY <2>3 DEF Contract!Next
<1>3. ASSUME jobs' = Reaped,
             \A w \in Workers, j \in Jobs : Holds(w, j)' <=> Holds(w, j)
      PROVE  Goal
  <2>0. PICK S \in SUBSET Jobs : S = {j \in Jobs : Stale(j)}
    OBVIOUS
  <2>1. phase' = [j \in Jobs |-> IF j \in S THEN "queued" ELSE phase[j]]
    BY <1>3, <2>0 DEF Reaped, Reset, TypeOK, Row
  <2>2. \A j \in S : \A w \in Workers : ~Holds(w, j)
    BY <2>0 DEF Stale, OwnInv, OneWorkerPerJob, LeaseLive, TypeOK, Row
  <2>3. holder' = holder
    BY <1>3, HolderUnchanged
  <2>4. Contract!Reclaim(S)
    BY <2>0, <2>1, <2>2, <2>3, HolderOfWorker DEF Stale, Contract!Reclaim
  <2> QED
    BY <2>4 DEF Contract!Next
<1>4. ASSUME NEW w \in Workers, NEW j \in Jobs, Claim(w, j) PROVE Goal
  <2>1. phase[j] = "queued" /\ phase' = [phase EXCEPT ![j] = "running"]
    BY <1>4 DEF Claim, TypeOK, Row
  <2>2. Holds(w, j)' /\ \A v \in Workers : ~Holds(v, j)
    BY <1>4 DEF Claim, Granted, Holds, OwnInv, OneWorkerPerJob, LeaseLive, TypeOK
  <2>3. \A k \in Jobs \ {j} : \A v \in Workers : Holds(v, k)' <=> Holds(v, k)
    BY <1>4 DEF Claim, Granted, Holds, TypeOK
  <2>4. \A k \in Jobs \ {j} : HolderOf(k)' = HolderOf(k)
    BY <2>3, HolderUnchanged
  <2>5. HolderOf(j)' = w
    BY <2>2, HolderOfWorker
       DEF HolderOf, OwnInv, OneWorkerPerJob
  <2>6. holder' = [holder EXCEPT ![j] = w]
    BY <2>4, <2>5
  <2>7. Contract!Take(j, w)
    BY <2>1, <2>6 DEF Contract!Take
  <2> QED
    BY <2>7 DEF Contract!Next
<1>5. ASSUME NEW w \in Workers, NEW j \in Jobs, NEW s \in {"queued", "done", "failed"},
             Finish(w, j, s)
      PROVE  Goal
  <2>1. Holds(w, j)
    BY <1>5 DEF Finish
  <2>2. phase' = [phase EXCEPT ![j] = IF @ = "gone" THEN @ ELSE s]
    <3>1. Ended(jobs[j], s).status = IF jobs[j].status = "gone" THEN jobs[j].status ELSE s
      BY EndedRow DEF TypeOK
    <3> QED
      BY <1>5, <3>1 DEF Finish, TypeOK
  <2>3. \A k \in Jobs \ {j} : \A v \in Workers : Holds(v, k)' <=> Holds(v, k)
    BY <1>5 DEF Finish, Holds, Idle, TypeOK
  <2>4. \A v \in Workers : ~Holds(v, j)'
    BY <1>5 DEF Finish, Holds, Idle, TypeOK, OwnInv, OneWorkerPerJob
  <2>5. \A k \in Jobs \ {j} : HolderOf(k)' = HolderOf(k)
    BY <2>3, HolderUnchanged
  <2>6. HolderOf(j) # NoWorker
    BY <2>1, HolderOfWorker
  <2>7. HolderOf(j)' = NoWorker
    BY <2>4 DEF HolderOf
  <2>8. holder' = [holder EXCEPT ![j] = NoWorker]
    BY <2>5, <2>7
  <2>9. Contract!Release(j, s)
    BY <2>2, <2>6, <2>8 DEF Contract!Release
  <2> QED
    BY <2>9 DEF Contract!Next
<1>6. ASSUME NEW w \in Workers, NEW p \in {"down", "loop"}, UNCHANGED jobs,
             agent' = [agent EXCEPT ![w] = Idle(p)]
      PROVE  Goal
  <2>1. phase' = phase
    BY <1>6
  <2>2. CASE \A j \in Jobs : ~Holds(w, j)
    BY <1>6, <2>2, StutterSteps DEF Holds, Idle, TypeOK
  <2>3. CASE \E j \in Jobs : Holds(w, j)
    <3>1. PICK j \in Jobs : Holds(w, j)
      BY <2>3
    <3>2. \A k \in Jobs \ {j} : \A v \in Workers : Holds(v, k)' <=> Holds(v, k)
      BY <1>6, <3>1 DEF Holds, Idle, TypeOK
    <3>3. \A v \in Workers : ~Holds(v, j)'
      BY <1>6, <3>1 DEF Holds, Idle, TypeOK, OwnInv, OneWorkerPerJob
    <3>4. \A k \in Jobs \ {j} : HolderOf(k)' = HolderOf(k)
      BY <3>2, HolderUnchanged
    <3>5. HolderOf(j) # NoWorker
      BY <3>1, HolderOfWorker
    <3>6. HolderOf(j)' = NoWorker
      BY <3>3 DEF HolderOf
    <3>7. holder' = [holder EXCEPT ![j] = NoWorker]
      BY <3>4, <3>6
    <3>8. Contract!Abandon(j)
      BY <2>1, <3>5, <3>7 DEF Contract!Abandon
    <3> QED
      BY <3>8 DEF Contract!Next
  <2> QED
    BY <2>2, <2>3
<1>7. CASE Tick
  BY <1>7, StutterSteps DEF Tick, TypeOK, Row, Holds
<1>8. ASSUME NEW w \in Workers,
             \/ EmptyPoll(w) \/ Restart(w)
             \/ \E j \in Jobs : ClaimSelect(w, j) \/ ClaimLost(w, j)
      PROVE  Goal
  <2>1. jobs' = jobs /\ \A k \in Jobs : ~Holds(w, k) /\ ~Holds(w, k)'
    BY <1>8
    DEF EmptyPoll, Restart, ClaimSelect, ClaimLost, Holds, Idle, TypeOK, Agent, OwnInv,
        IdleHoldsNothing
  <2>2. \A v \in Workers \ {w} : agent'[v] = agent[v]
    BY <1>8 DEF EmptyPoll, Restart, ClaimSelect, ClaimLost, TypeOK
  <2> QED
    BY <2>1, <2>2, StutterSteps DEF Holds
<1>9. ASSUME NEW w \in Workers, NEW j \in Jobs, Fetch(w, j) PROVE Goal
  <2>1. CASE jobs[j].status = "gone"
    BY <1>6, <1>9, <2>1 DEF Fetch
  <2>2. CASE jobs[j].status # "gone"
    BY <1>9, <2>2, StutterSteps DEF Fetch, Holds, TypeOK, Agent
  <2> QED
    BY <2>1, <2>2
<1>16. ASSUME NEW w \in Workers, NEW j \in Jobs, ReportRead(w, j) PROVE Goal
  BY <1>16, StutterSteps DEF ReportRead, Holds, TypeOK, Agent
<1>10. ASSUME NEW w \in Workers, NEW j \in Jobs, Heartbeat(w, j) PROVE Goal
  <2>1. \A k \in Jobs : jobs'[k].status = jobs[k].status
    BY <1>10 DEF Heartbeat, TypeOK, Row
  <2>2. \A v \in Workers, k \in Jobs : Holds(v, k)' <=> Holds(v, k)
    BY <1>10 DEF Heartbeat, Holds, TypeOK, Agent
  <2> QED
    BY <2>1, <2>2, StutterSteps
<1>11. ASSUME NEW w \in Workers, NEW j \in Jobs, ReportWrite(w, j) PROVE Goal
  <2>1. \A k \in Jobs : jobs'[k].status = jobs[k].status
    BY <1>11 DEF ReportWrite, TypeOK, Row
  <2>2. \A v \in Workers, k \in Jobs : Holds(v, k)' <=> Holds(v, k)
    BY <1>11 DEF ReportWrite, Holds, TypeOK, Agent
  <2> QED
    BY <2>1, <2>2, StutterSteps
<1>12. CASE UNCHANGED vars
  BY <1>12, StutterSteps DEF vars, Holds
<1>13. CASE ReapRoute
  BY <1>3, <1>13 DEF ReapRoute, Holds
<1>14. ASSUME NEW w \in Workers, ReapBeforePoll(w) PROVE Goal
  <2>1. \A v \in Workers, k \in Jobs : Holds(v, k)' <=> Holds(v, k)
    BY <1>14 DEF ReapBeforePoll, Holds, Idle, TypeOK, OwnInv, IdleHoldsNothing
  <2> QED
    BY <1>3, <1>14, <2>1 DEF ReapBeforePoll
<1> QED
  BY <1>1, <1>2, <1>4, <1>5, <1>6, <1>7, <1>8, <1>9, <1>10, <1>11, <1>12, <1>13, <1>14,
     <1>15, <1>16
  DEF Next, Run, ForceRecover, Kill, Escape, Drop, Complete, Fail, Requeue

\* At the start no job exists and nobody works.
LEMMA InitContract == Init => Contract!Init
  BY ConstantsOK DEF Init, Contract!Init, Absent, HolderOf, Holds, Idle

\* While workers outlive no lease and nobody forces a recovery, the queue
\* with its leases, heartbeats and reaper implements the contract, which has
\* none of them.
THEOREM Implementation ==
  ASSUME Punctual, ~Forceable
  PROVE  Spec => ImplementsContract
<1>1. Init => Contract!Init
  BY InitContract
<1>2. TypeOK /\ OwnInv /\ OwnInv' /\ [Next]_vars => [Contract!Next]_(Contract!cvars)
  BY ContractStep
<1> QED
  BY <1>1, <1>2, OwnersAlways, TypeCorrect, PTL DEF Spec, ImplementsContract, Contract!Spec

-----------------------------------------------------------------------------
(***************************************************************************)
(* Retries.  A job is put back after an error under a claim that is spent  *)
(* by that: claims are distinct, a worker reads at least its own claim's   *)
(* number as the attempts, and so every retry spends a claim of its own    *)
(* that is numbered below MaxAttempts.                                     *)
(***************************************************************************)

\* A worker holds a claim numbered from one, and read the attempts after it.
AttemptsReadLate ==
  \A w \in Workers, j \in Jobs : Holds(w, j) =>
    /\ agent[w].claim >= 1
    /\ agent[w].pc # "claimed" => agent[w].claim <= agent[w].attempts

\* The claims U of the job j are spent: made, one for each retry, and nobody's.
Spent(j, U) ==
  /\ Cardinality(U) = retries[j]
  /\ \A n \in U : n <= jobs[j].attempts
  /\ \A w \in Workers : Holds(w, j) => agent[w].claim \notin U

RetriesSpendClaims == \A j \in Jobs : \E U \in SUBSET (1 .. MaxAttempts - 1) : Spent(j, U)

RetryInv == AttemptsReadLate /\ RetriesSpendClaims

\* A step that counts no retry and hands out no claim, and in which workers
\* start to act on a claim only after they read the row, keeps the invariant.
LEMMA QuietRetries ==
  ASSUME TypeOK, RetryInv, ClaimsKept, UNCHANGED retries,
         \A j \in Jobs : jobs'[j].attempts = jobs[j].attempts,
         \A w \in Workers, j \in Jobs : Holds(w, j)' /\ agent'[w].pc # "claimed" =>
           \/ agent[w].pc # "claimed" /\ agent'[w].attempts = agent[w].attempts
           \/ agent[w].claim <= agent'[w].attempts
  PROVE  RetryInv'
<1>1. AttemptsReadLate'
  BY DEF RetryInv, AttemptsReadLate, ClaimsKept
<1>2. ASSUME NEW j \in Jobs, NEW U \in SUBSET (1 .. MaxAttempts - 1), Spent(j, U)
      PROVE  Spent(j, U)'
  BY <1>2 DEF Spent, ClaimsKept
<1>3. RetriesSpendClaims'
  BY <1>2 DEF RetryInv, RetriesSpendClaims
<1> QED
  BY <1>1, <1>3 DEF RetryInv

\* A new claim is numbered above every one that is spent.
LEMMA ClaimRetries ==
  ASSUME TypeOK, RetryInv, NEW w \in Workers, NEW j \in Jobs, Claim(w, j)
  PROVE  RetryInv'
<1>1. /\ agent' = [agent EXCEPT ![w] = [pc |-> "claimed", job |-> j, attempts |-> 0,
                                        claim |-> jobs[j].attempts + 1]]
      /\ agent'[w] = [pc |-> "claimed", job |-> j, attempts |-> 0,
                      claim |-> jobs[j].attempts + 1]
      /\ \A v \in Workers \ {w} : agent'[v] = agent[v]
  BY DEF Claim, Granted, TypeOK
<1>2. /\ jobs'[j].attempts = jobs[j].attempts + 1
      /\ \A k \in Jobs \ {j} : jobs'[k] = jobs[k]
      /\ \A k \in Jobs : jobs[k].attempts \in Nat
      /\ retries' = retries
  BY DEF Claim, TypeOK, Row
<1>3. AttemptsReadLate'
  BY <1>1, <1>2 DEF RetryInv, AttemptsReadLate, Holds
<1>4. ASSUME NEW k \in Jobs, NEW U \in SUBSET (1 .. MaxAttempts - 1), Spent(k, U)
      PROVE  Spent(k, U)'
  <2>1. \A n \in U : n \in Int /\ n <= jobs'[k].attempts /\ n <= jobs[k].attempts
    BY <1>2, <1>4 DEF Spent
  <2>2. \A v \in Workers : Holds(v, k)' => agent'[v].claim \notin U
    BY <1>1, <1>2, <1>4, <2>1 DEF Spent, Holds
  <2> QED
    BY <1>2, <1>4, <2>1, <2>2 DEF Spent
<1>5. RetriesSpendClaims'
  BY <1>4 DEF RetryInv, RetriesSpendClaims
<1> QED
  BY <1>3, <1>5 DEF RetryInv

\* Sets of claims below a bound are finite, and counted one by one.
LEMMA ClaimSets ==
  ASSUME NEW m \in Nat, NEW U \in SUBSET (1 .. m)
  PROVE  /\ Cardinality(U) \in Nat /\ Cardinality(U) <= m
         /\ \A n : n \notin U => Cardinality(U \cup {n}) = Cardinality(U) + 1
<1>1. IsFiniteSet(1 .. m) /\ Cardinality(1 .. m) = m
  BY FS_Interval
<1>2. IsFiniteSet(U) /\ Cardinality(U) <= m
  BY <1>1, FS_Subset
<1>3. Cardinality(U) \in Nat
  BY <1>2, FS_CardinalityType
<1>4. \A n : n \notin U => Cardinality(U \cup {n}) = Cardinality(U) + 1
  BY <1>2, FS_AddElement
<1> QED
  BY <1>2, <1>3, <1>4

\* A retry spends the claim n that it is made under.
LEMMA RequeueRetries ==
  ASSUME TypeOK, ClaimInv, RetryInv, ClaimsKept, NEW w \in Workers, NEW j \in Jobs,
         \A k \in Jobs : jobs'[k].attempts = jobs[k].attempts, Requeue(w, j),
         NEW n, n = agent[w].claim
  PROVE  RetryInv'
<1>1. /\ agent[w].pc = "working" /\ Holds(w, j)
      /\ agent[w].attempts < MaxAttempts
      /\ agent' = [agent EXCEPT ![w] = Idle("loop")]
      /\ retries' = [retries EXCEPT ![j] = @ + 1]
  BY DEF Requeue, Finish
<1>2. agent'[w].job = NoJob /\ \A v \in Workers \ {w} : agent'[v] = agent[v]
  BY <1>1 DEF TypeOK, Idle
<1>3. ~ \E k \in Jobs : Holds(w, k)'
  BY <1>2, ConstantsOK DEF Holds
<1>4. AttemptsReadLate'
  BY <1>2, <1>3 DEF RetryInv, AttemptsReadLate, Holds
<1>5. n \in 1 .. MaxAttempts - 1 /\ n <= jobs[j].attempts
  <2>1. n >= 1 /\ n <= agent[w].attempts /\ n <= jobs[j].attempts
    BY <1>1 DEF RetryInv, AttemptsReadLate, ClaimInv, ClaimsCounted
  <2>2. n \in Nat /\ agent[w].attempts \in Nat
    BY DEF TypeOK, Agent
  <2> QED
    BY <1>1, <2>1, <2>2, ConstantsOK
<1>6. \A v \in Workers : Holds(v, j)' =>
        Holds(v, j) /\ agent'[v].claim = agent[v].claim /\ agent[v].claim # n
  BY <1>1, <1>2, <1>3 DEF ClaimInv, ClaimsAreDistinct, Holds
<1>7. ASSUME NEW U \in SUBSET (1 .. MaxAttempts - 1), Spent(j, U)
      PROVE  Spent(j, U \cup {n})'
  <2>1. n \notin U
    BY <1>1, <1>7 DEF Spent
  <2>2. Cardinality(U \cup {n}) = retries[j] + 1
    BY <1>7, <2>1, ClaimSets, ConstantsOK DEF Spent
  <2>3. Cardinality(U \cup {n}) = retries'[j]
    BY <1>1, <2>2 DEF TypeOK
  <2>4. \A m \in U \cup {n} : m <= jobs'[j].attempts
    BY <1>5, <1>7 DEF Spent
  <2>5. \A v \in Workers : Holds(v, j)' => agent'[v].claim \notin U \cup {n}
    BY <1>6, <1>7 DEF Spent
  <2> QED
    BY <2>3, <2>4, <2>5 DEF Spent
<1>8. ASSUME NEW k \in Jobs \ {j}, NEW U \in SUBSET (1 .. MaxAttempts - 1), Spent(k, U)
      PROVE  Spent(k, U)'
  BY <1>1, <1>8 DEF Spent, ClaimsKept, TypeOK
<1>9. ASSUME NEW k \in Jobs
      PROVE  \E U \in SUBSET (1 .. MaxAttempts - 1) : Spent(k, U)'
  <2>1. PICK U \in SUBSET (1 .. MaxAttempts - 1) : Spent(k, U)
    BY DEF RetryInv, RetriesSpendClaims
  <2>2. CASE k # j
    BY <1>8, <2>1, <2>2
  <2>3. CASE k = j
    <3>1. U \cup {n} \in SUBSET (1 .. MaxAttempts - 1)
      BY <1>5
    <3> QED
      BY <1>7, <2>1, <2>3, <3>1
  <2> QED
    BY <2>2, <2>3
<1> QED
  BY <1>4, <1>9 DEF RetryInv, RetriesSpendClaims

\* Every step keeps the invariant.
LEMMA NextRetryInv ==
  ASSUME TypeOK, ClaimInv, RetryInv, [Next]_vars
  PROVE  RetryInv'
<1> SUFFICES ASSUME ~ \E w \in Workers, j \in Jobs : Claim(w, j) \/ Requeue(w, j)
             PROVE  RetryInv'
  <2>1. ASSUME NEW w \in Workers, NEW j \in Jobs, Requeue(w, j)
        PROVE  ~ \E v \in Workers, k \in Jobs : Claim(v, k)
    <3>1. /\ agent'[w].pc = "loop"
          /\ \A v \in Workers \ {w} : agent'[v].pc = agent[v].pc
      BY <2>1 DEF Requeue, Finish, TypeOK, Idle
    <3>2. ASSUME NEW v \in Workers, NEW k \in Jobs, Claim(v, k)
          PROVE  agent'[v].pc = "claimed" /\ agent[v].pc = "selected"
      BY <3>2 DEF Claim, Granted, TypeOK
    <3> QED
      BY <3>1, <3>2
  <2> QED
    BY <2>1, ClaimRetries, RequeueRetries, ClaimsOnlyByClaim
<1>1. ClaimsKept /\ \A j \in Jobs : jobs'[j].attempts = jobs[j].attempts
  BY ClaimsOnlyByClaim
<1>2. UNCHANGED retries
  BY DEF Next, Run, Enqueue, Remove, Cancel, ReapRoute, ForceRecover, Tick, ReapBeforePoll,
     EmptyPoll, ClaimSelect, ClaimLost, Fetch, Heartbeat, ReportRead, ReportWrite, Complete,
     Fail, Kill, Escape, Drop, Restart, vars
<1> DEFINE Late(w, j) == Holds(w, j)' /\ agent'[w].pc # "claimed" =>
                           \/ agent[w].pc # "claimed" /\ agent'[w].attempts = agent[w].attempts
                           \/ agent[w].claim <= agent'[w].attempts
<1>3. ASSUME NEW w \in Workers, NEW j \in Jobs PROVE Late(w, j)
  <2>1. CASE agent'[w] = agent[w]
    BY <2>1
  <2>2. CASE agent'[w].job = NoJob
    BY <2>2, ConstantsOK DEF Holds
  <2>3. ASSUME NEW v \in Workers, NEW k \in Jobs, Fetch(v, k) PROVE Late(w, j)
    <3>1. agent[v].claim <= jobs[k].attempts
      BY <2>3 DEF Fetch, ClaimInv, ClaimsCounted
    <3> QED
      BY <2>1, <2>2, <2>3, <3>1 DEF Fetch, TypeOK, Idle
  <2>4. ASSUME NEW v \in Workers, NEW k \in Jobs,
               Heartbeat(v, k) \/ ReportRead(v, k) \/ ReportWrite(v, k) PROVE Late(w, j)
    BY <2>1, <2>4 DEF Heartbeat, ReportRead, ReportWrite, TypeOK, Agent
  <2>5. ASSUME NEW v \in Workers, NEW k \in Jobs, ClaimSelect(v, k) PROVE Late(w, j)
    BY <2>1, <2>5 DEF ClaimSelect, TypeOK, Agent, Holds
  <2>6. ASSUME NEW v \in Workers, NEW p, agent' = [agent EXCEPT ![v] = Idle(p)] PROVE Late(w, j)
    BY <2>1, <2>2, <2>6 DEF TypeOK, Idle
  <2> QED
    BY <2>1, <2>3, <2>4, <2>5, <2>6
    DEF Next, Run, Enqueue, Remove, Cancel, ReapRoute, ForceRecover, Tick, ReapBeforePoll,
        EmptyPoll, ClaimLost, Complete, Fail, Finish, Kill, Escape, Drop, Restart, vars
<1> QED
  BY <1>1, <1>2, <1>3, QuietRetries

\* Whatever stalls, reports late, is reaped or forced, run_once puts a job back
\* after an error fewer than MAX_ATTEMPTS times in its whole life.
THEOREM RetriesAreBounded == Spec => []RetriesBounded
<1>1. Init => ClaimInv
  BY ConstantsOK DEF Init, ClaimInv, ClaimsCounted, ClaimsAreDistinct, Holds, Idle
<1>2. Init => RetryInv
  <2> SUFFICES ASSUME Init PROVE RetryInv
    OBVIOUS
  <2>1. AttemptsReadLate
    BY ConstantsOK DEF Init, AttemptsReadLate, Holds, Idle
  <2>2. \A j \in Jobs : Spent(j, {})
    BY FS_EmptySet DEF Init, Spent
  <2> QED
    BY <2>1, <2>2 DEF RetryInv, RetriesSpendClaims
<1>3. TypeOK /\ RetryInv => RetriesBounded
  <2> SUFFICES ASSUME TypeOK, RetryInv, NEW j \in Jobs PROVE retries[j] < MaxAttempts
    BY DEF RetriesBounded
  <2>1. PICK U \in SUBSET (1 .. MaxAttempts - 1) : Spent(j, U)
    BY DEF RetryInv, RetriesSpendClaims
  <2>2. Cardinality(U) \in Nat /\ Cardinality(U) <= MaxAttempts - 1
    BY ClaimSets, ConstantsOK
  <2> QED
    BY <2>1, <2>2, ConstantsOK DEF Spent
<1> QED
  BY <1>1, <1>2, <1>3, NextClaimInv, NextRetryInv, TypeCorrect, PTL DEF Spec
=============================================================================
