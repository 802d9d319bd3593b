SPECIFICATION FairSpec
CONSTANTS
  j1 = j1
  j2 = j2
  w1 = w1
  w2 = w2
  c1 = c1
  c2 = c2
  NoJob = NoJob
  NoWorker = NoWorker
  Jobs <- TwoJobs
  Workers <- TwoWorkers
  Clients <- TwoClients
  Lease = 1
  MaxAttempts = 2
  MaxDelay = 1
  MaxFaults = 2
  Punctual = TRUE
  Forceable = FALSE
  KillStages <- Stage
  ErrorStages = {"off", "purging", "returned"}
  CrashPoints = {"writing", "deleting"}
INVARIANTS
  TypeOK
  DeletionInHand
  OnePurge
PROPERTIES
  PurgedOnRequest
  DeletionEnds
