SPECIFICATION FairSpec
CONSTANTS
  j1 = j1
  j2 = j2
  w1 = w1
  w2 = w2
  c1 = c1
  NoJob = NoJob
  NoWorker = NoWorker
  Jobs <- TwoJobs
  Workers <- TwoWorkers
  Clients <- OneClient
  Lease = 1
  MaxAttempts = 2
  MaxDelay = 0
  MaxFaults = 1
  Punctual = TRUE
  Forceable = FALSE
  MaxVersion = 2
  MaxId = 3
  InProject = TRUE
INVARIANTS
  TypeOK
  NoContentIsLost
PROPERTY EveryDocumentSettles
