SPECIFICATION FairSpec
CONSTANTS
  j1 = j1
  j2 = j2
  j3 = j3
  j4 = j4
  w1 = w1
  w2 = w2
  d1 = d1
  NoJob = NoJob
  NoWorker = NoWorker
  NoDelivery = NoDelivery
  Jobs <- ThreeJobs
  Workers <- TwoWorkers
  Deliveries <- OneDelivery
  Lease = 1
  MaxAttempts = 3
  MaxDelay = 1
  MaxFaults = 1
  Punctual = TRUE
  Forceable = FALSE
  MaxTries = 2
  Backoff = 1
  MaxReplays = 0
  Cancels = FALSE
  KillStages <- BeforeReturn
  ErrorStages <- BeforeCommit
PROPERTY EveryDeliveryResolves
