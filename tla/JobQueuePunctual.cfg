SPECIFICATION Spec
CONSTANTS
  j1 = j1
  j2 = j2
  w1 = w1
  w2 = w2
  NoJob = NoJob
  NoWorker = NoWorker
  Jobs <- TwoJobs
  Workers <- TwoWorkers
  Lease = 1
  MaxAttempts = 2
  MaxDelay = 1
  MaxFaults = 1
  Punctual = TRUE
  Forceable = FALSE
INVARIANTS
  TypeOK
  OneWorkerPerJob
  LeaseMeansRunning
PROPERTIES
  TerminalIsFinal
  LiveLeaseNeverStolen
  ImplementsContract
