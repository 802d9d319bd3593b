SPECIFICATION FairSpec
CONSTANTS
  j1 = j1
  j2 = j2
  w1 = w1
  w2 = w2
  NoJob = NoJob
  NoWorker = NoWorker
  Jobs <- OneJob
  Workers <- TwoWorkers
  Lease = 1
  MaxAttempts = 2
  MaxDelay = 1
  MaxFaults = 1
  Punctual = FALSE
  Forceable = TRUE
INVARIANTS
  ClaimsAreDistinct
  RetriesBounded
PROPERTY EveryJobSettles
