SPECIFICATION Spec
CONSTANTS
  j1 = j1
  j2 = j2
  j3 = j3
  j4 = j4
  w1 = w1
  w2 = w2
  d1 = d1
  NoJob = NoJob
  NoWorker = NoWorker
  NoDelivery = NoDelivery
  Jobs <- FourJobs
  Workers <- TwoWorkers
  Deliveries <- OneDelivery
  Lease = 2
  MaxAttempts = 2
  MaxDelay = 2
  MaxFaults = 2
  Punctual = TRUE
  Forceable = FALSE
  MaxTries = 2
  Backoff = 2
  MaxReplays = 1
  Cancels = TRUE
  KillStages <- BeforeReturn
  ErrorStages <- BeforeReturn
SYMMETRY Symmetry
INVARIANTS
  TriesAreCounted
  TypeOK
  NoDeliveryStranded
  OneFutureJob
PROPERTY SucceededIsFinal
